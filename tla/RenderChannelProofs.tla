------------------------- MODULE RenderChannelProofs -------------------------
(***************************************************************************)
(* Proofs about RenderChannel: ChannelInv is an inductive invariant, and   *)
(* the safety properties of the channel follow from it, for every capacity *)
(* of the queues, size of commands and of replies, number of units, of     *)
(* snapshots and of bytes read at a time.                                  *)
(***************************************************************************)
EXTENDS RenderChannel, BufferQueueProofs

(* Sequences of consecutive units. *)

LEMMA MinOf ==
    ASSUME NEW a \in Nat, NEW b \in Nat
    PROVE  Min({a, b}) = IF a <= b THEN a ELSE b
  BY DEF Min

LEMMA UnitsFollow ==
    ASSUME NEW n \in Nat, NEW k \in Nat
    PROVE  /\ Units(n, k) \in Seq(Nat) /\ Len(Units(n, k)) = k /\ Following(Units(n, k), n)
  <1>1. Units(n, k) \in [1 .. k -> Nat]
    BY DEF Units
  <1>2. Units(n, k) \in Seq(Nat) /\ Len(Units(n, k)) = k
    BY <1>1, FunctionIsSeq
  <1> QED BY <1>2 DEF Units, Following

LEMMA EmptyFollows ==
    ASSUME NEW n \in Nat
    PROVE  <<>> \in Seq(Nat) /\ Len(<<>>) = 0 /\ Following(<<>>, n)
  BY DEF Following

LEMMA EmptyIs ==
    ASSUME NEW s \in Seq(Nat)
    PROVE  s = <<>> <=> Len(s) = 0
  OBVIOUS

(* The first k units of s, and the others. *)
LEMMA FollowingSplit ==
    ASSUME NEW s \in Seq(Nat), NEW n \in Nat, Following(s, n), NEW k \in 0 .. Len(s)
    PROVE  /\ SubSeq(s, 1, k) \in Seq(Nat) /\ Len(SubSeq(s, 1, k)) = k
           /\ Following(SubSeq(s, 1, k), n)
           /\ Drop(s, k) \in Seq(Nat) /\ Len(Drop(s, k)) = Len(s) - k
           /\ Following(Drop(s, k), n + k)
  <1>1. Len(s) \in Nat /\ k \in Nat
    OBVIOUS
  <1>2. /\ SubSeq(s, 1, k) \in Seq(Nat) /\ Len(SubSeq(s, 1, k)) = k
        /\ \A i \in 1 .. k : SubSeq(s, 1, k)[i] = s[i]
    BY <1>1
  <1>3. /\ Drop(s, k) \in Seq(Nat) /\ Len(Drop(s, k)) = Len(s) - k
        /\ \A i \in 1 .. (Len(s) - k) : Drop(s, k)[i] = s[k + i]
    BY <1>1 DEF Drop
  <1>4. Following(SubSeq(s, 1, k), n)
    BY <1>1, <1>2 DEF Following
  <1>5. Following(Drop(s, k), n + k)
    BY <1>1, <1>3 DEF Following
  <1> QED BY <1>2, <1>3, <1>4, <1>5

LEMMA FollowingConcat ==
    ASSUME NEW s \in Seq(Nat), NEW t \in Seq(Nat), NEW n \in Nat,
           Following(s, n), Following(t, n + Len(s))
    PROVE  s \o t \in Seq(Nat) /\ Len(s \o t) = Len(s) + Len(t) /\ Following(s \o t, n)
  <1>1. /\ s \o t \in Seq(Nat) /\ Len(s \o t) = Len(s) + Len(t)
        /\ \A i \in 1 .. (Len(s) + Len(t)) :
              (s \o t)[i] = IF i <= Len(s) THEN s[i] ELSE t[i - Len(s)]
    BY ConcatProperties
  <1>2. ASSUME NEW i \in 1 .. (Len(s) + Len(t)) PROVE (s \o t)[i] = n + i
    <2>1. CASE i <= Len(s)
      BY <1>1, <2>1 DEF Following
    <2>2. CASE i > Len(s)
      <3>1. i - Len(s) \in 1 .. Len(t)
        BY <2>2
      <3>2. t[i - Len(s)] = n + Len(s) + (i - Len(s))
        BY <3>1 DEF Following
      <3> QED BY <1>1, <2>2, <3>2
    <2> QED BY <2>1, <2>2
  <1> QED BY <1>1, <1>2 DEF Following

LEMMA LastFollows ==
    ASSUME NEW s \in Seq(Nat), NEW n \in Nat, Following(s, n), s # <<>>
    PROVE  Last(s) = n + Len(s) /\ Len(s) > 0 /\ Last(s) \in Nat
  <1>1. Len(s) \in 1 .. Len(s) /\ Len(s) > 0
    BY EmptyIs
  <1> QED BY <1>1 DEF Following, Last

LEMMA ConsecutiveEmpty ==
    ASSUME NEW n \in Nat, NEW m \in Nat
    PROVE  Consecutive(<<>>, n, m) <=> n = m
  BY DEF Consecutive

(* A buffer that is appended goes on where the last one ended, ... *)
LEMMA ConsecutiveAppend ==
    ASSUME NEW buffers \in Seq(Seq(Nat)), NEW n \in Nat, NEW m \in Nat,
           Consecutive(buffers, n, m), NEW b \in Seq(Nat), b # <<>>, Following(b, m)
    PROVE  Consecutive(Append(buffers, b), n, m + Len(b))
  <1> DEFINE c == Len(buffers)
             r == Append(buffers, b)
             before(s, i) == IF i = 1 THEN n ELSE Last(s[i - 1])
  <1>1. /\ r \in Seq(Seq(Nat)) /\ Len(r) = c + 1 /\ c \in Nat /\ r[c + 1] = b
        /\ \A i \in 1 .. c : r[i] = buffers[i]
    BY AppendProperties
  <1>2. before(buffers, c + 1) = m
    BY DEF Consecutive
  <1>3. ASSUME NEW i \in 1 .. (c + 1) PROVE before(r, i) = before(buffers, i)
    BY <1>1
  <1>4. ASSUME NEW i \in 1 .. c PROVE r[i] # <<>> /\ Following(r[i], before(r, i))
    BY <1>1, <1>3 DEF Consecutive
  <1>5. r[c + 1] # <<>> /\ Following(r[c + 1], before(r, c + 1))
    BY <1>1, <1>2, <1>3
  <1>6. ASSUME NEW i \in 1 .. Len(r) PROVE r[i] # <<>> /\ Following(r[i], before(r, i))
    <2> HIDE DEF before, r, c
    <2>1. i \in 1 .. c \/ i = c + 1
      BY <1>1
    <2> QED BY <1>4, <1>5, <2>1
  <1>7. before(r, Len(r) + 1) = m + Len(b)
    <2>1. Last(b) = m + Len(b)
      BY LastFollows
    <2>2. Len(r) + 1 # 1 /\ (Len(r) + 1) - 1 = c + 1
      BY <1>1
    <2> HIDE DEF r, c
    <2> QED BY <1>1, <2>1, <2>2
  <1> QED BY <1>6, <1>7 DEF Consecutive

(* ... and without the first buffer the others go on where it ends. *)
LEMMA ConsecutiveTail ==
    ASSUME NEW buffers \in Seq(Seq(Nat)), NEW n \in Nat, NEW m \in Nat,
           Consecutive(buffers, n, m), buffers # <<>>
    PROVE  /\ buffers[1] \in Seq(Nat) /\ buffers[1] # <<>> /\ Following(buffers[1], n)
           /\ Last(buffers[1]) = n + Len(buffers[1])
           /\ Consecutive(Tail(buffers), n + Len(buffers[1]), m)
  <1> DEFINE c == Len(buffers)
             r == Tail(buffers)
             before(s, k, i) == IF i = 1 THEN k ELSE Last(s[i - 1])
             k == n + Len(buffers[1])
  <1>1. /\ r \in Seq(Seq(Nat)) /\ c \in Nat /\ c > 0 /\ Len(r) = c - 1
        /\ \A i \in 1 .. (c - 1) : r[i] = buffers[i + 1]
    BY HeadTailProperties, EmptySeq
  <1>2. buffers[1] \in Seq(Nat) /\ buffers[1] # <<>> /\ Following(buffers[1], n)
    BY <1>1 DEF Consecutive
  <1>3. Last(buffers[1]) = k
    BY <1>2, LastFollows
  <1>4. ASSUME NEW i \in 1 .. c PROVE before(r, k, i) = before(buffers, n, i + 1)
    <2>1. CASE i = 1
      BY <1>3, <2>1
    <2>2. CASE i # 1
      <3>1. i - 1 \in 1 .. (c - 1) /\ (i - 1) + 1 = i /\ (i + 1) - 1 = i
        BY <1>1, <2>2
      <3>2. r[i - 1] = buffers[i]
        BY <1>1, <3>1
      <3> QED BY <2>2, <3>1, <3>2
    <2> QED BY <2>1, <2>2
  <1>5. ASSUME NEW i \in 1 .. (c - 1) PROVE r[i] # <<>> /\ Following(r[i], before(r, k, i))
    <2>1. i + 1 \in 1 .. c /\ i \in 1 .. c
      BY <1>1
    <2>2. buffers[i + 1] # <<>> /\ Following(buffers[i + 1], before(buffers, n, i + 1))
      BY <2>1 DEF Consecutive
    <2> QED BY <1>1, <1>4, <2>1, <2>2
  <1>6. before(r, k, Len(r) + 1) = m
    <2>1. before(buffers, n, c + 1) = m
      BY DEF Consecutive
    <2>2. c \in 1 .. c /\ Len(r) + 1 = c
      BY <1>1
    <2> QED BY <1>4, <2>1, <2>2
  <1>7. Consecutive(r, k, m)
    BY <1>1, <1>5, <1>6 DEF Consecutive
  <1> QED BY <1>2, <1>3, <1>7
-----------------------------------------------------------------------------
(* Where units are. *)

(* A push adds the units of the buffer to what a queue holds, ... *)
LEMMA HoldsAppend ==
    ASSUME NEW buffers \in Seq(Seq(Nat)), NEW b \in Seq(Nat), NEW k \in Nat
    PROVE  /\ Holds(buffers, k) => Holds(Append(buffers, b), k)
           /\ (\E j \in 1 .. Len(b) : b[j] = k) => Holds(Append(buffers, b), k)
  <1> DEFINE c == Len(buffers)
             r == Append(buffers, b)
  <1>1. /\ r \in Seq(Seq(Nat)) /\ Len(r) = c + 1 /\ c \in Nat /\ r[c + 1] = b
        /\ \A i \in 1 .. c : r[i] = buffers[i]
    BY AppendProperties
  <1>2. DOMAIN buffers = 1 .. c /\ DOMAIN r = 1 .. (c + 1) /\ DOMAIN b = 1 .. Len(b)
    BY <1>1
  <1> HIDE DEF c, r
  <1>3. ASSUME Holds(buffers, k) PROVE Holds(r, k)
    <2>1. PICK i \in 1 .. c : \E j \in DOMAIN buffers[i] : buffers[i][j] = k
      BY <1>2, <1>3 DEF Holds
    <2>2. i \in 1 .. (c + 1) /\ r[i] = buffers[i]
      BY <1>1
    <2> QED BY <1>2, <2>1, <2>2 DEF Holds
  <1>4. ASSUME NEW j \in 1 .. Len(b), b[j] = k PROVE Holds(r, k)
    <2>1. c + 1 \in 1 .. (c + 1) /\ j \in DOMAIN r[c + 1] /\ r[c + 1][j] = k
      BY <1>1, <1>2, <1>4
    <2> QED BY <1>2, <2>1 DEF Holds
  <1> QED BY <1>3, <1>4 DEF r

(* ... and a pop takes those of the first buffer. *)
LEMMA HoldsTail ==
    ASSUME NEW buffers \in Seq(Seq(Nat)), buffers # <<>>, NEW k \in Nat, Holds(buffers, k)
    PROVE  Holds(Tail(buffers), k) \/ \E j \in 1 .. Len(buffers[1]) : buffers[1][j] = k
  <1> DEFINE c == Len(buffers)
             r == Tail(buffers)
  <1>1. /\ r \in Seq(Seq(Nat)) /\ c \in Nat /\ c > 0 /\ Len(r) = c - 1
        /\ \A i \in 1 .. (c - 1) : r[i] = buffers[i + 1]
    BY HeadTailProperties, EmptySeq
  <1>2. DOMAIN buffers = 1 .. c /\ DOMAIN r = 1 .. (c - 1) /\ buffers[1] \in Seq(Nat)
    BY <1>1
  <1>3. DOMAIN buffers[1] = 1 .. Len(buffers[1])
    BY <1>2
  <1> HIDE DEF c, r
  <1>4. PICK i \in 1 .. c : \E j \in DOMAIN buffers[i] : buffers[i][j] = k
    BY <1>2 DEF Holds
  <1>5. CASE i = 1
    BY <1>3, <1>4, <1>5
  <1>6. CASE i # 1
    <2>1. i - 1 \in 1 .. (c - 1) /\ (i - 1) + 1 = i
      BY <1>1, <1>6
    <2>2. r[i - 1] = buffers[i]
      BY <1>1, <2>1
    <2>3. Holds(r, k)
      BY <1>2, <1>4, <2>1, <2>2 DEF Holds
    <2> QED BY <2>3 DEF r
  <1> QED BY <1>5, <1>6
-----------------------------------------------------------------------------
(* The type invariant. *)

LEMMA Constants ==
    /\ FromCapacity \in Nat \ {0} /\ ToCapacity \in Nat \ {0} /\ PacketSize \in Nat \ {0}
    /\ ReplyBuffers \in Nat \ {0} /\ ReplyUnits \in Nat \ {0}
    /\ ReplySize \in Nat \ {0} /\ ReplySize = ReplyBuffers * ReplyUnits
    /\ MaxUnits \in Nat /\ MaxWanted \in Nat /\ MaxSaves \in Nat
    /\ SendSizes \subseteq Nat \ {0} /\ RecvSizes \subseteq Nat \ {0}
  <1>1. ReplyBuffers \in Nat \ {0} /\ ReplyUnits \in Nat \ {0}
    BY RenderChannelAssumption
  <1>2. ReplyBuffers * ReplyUnits \in Nat \ {0}
    BY <1>1
  <1> QED BY <1>1, <1>2, RenderChannelAssumption DEF ReplySize

(* The result of a pop, in the words of the thread that pops. *)
LEMMA PopOk ==
    ASSUME NEW q, QueueOK(q), tryPopResult(q) = "Ok"
    PROVE  /\ q.mCount > 0 /\ Contents(q) # <<>> /\ Oldest(q) \in Seq(Nat)
           /\ QueueOK(tryPopped(q))
  <1>1. q.mCount > 0
    BY DEF tryPopResult
  <1>2. Len(Contents(q)) = q.mCount /\ q.mCount \in Nat /\ Contents(q) \in Seq(Seq(Nat))
    BY QueueFacts, ContentsFacts
  <1>3. Contents(q) # <<>> /\ 1 \in 1 .. q.mCount
    BY <1>1, <1>2
  <1>4. Oldest(q) \in Seq(Nat)
    BY QueueFacts DEF Oldest
  <1>5. QueueOK(tryPopped(q))
    BY <1>1, PopTakesOldest
  <1> QED BY <1>1, <1>3, <1>4, <1>5

LEMMA QueuesTyped ==
    ASSUME ChannelInv, [Next]_vars
    PROVE  QueueOK(mFromGuest)' /\ QueueOK(mToGuest)'
  <1>1. /\ QueueOK(mFromGuest) /\ QueueOK(mToGuest) /\ sent \in Nat /\ gsize \in Nat
        /\ replied \in Nat /\ ReplyUnits \in Nat
    BY Constants DEF ChannelInv, TypeOK, ChanOK, GuestOK, ThreadOK
  <1> SUFFICES QueueOK(mFromGuest') /\ QueueOK(mToGuest')
    BY DEF QueueOK, Size
  <1> HIDE DEF QueueOK
  <1>2. CASE UNCHANGED <<mFromGuest, mToGuest>>
    BY <1>1, <1>2
  <1>3. CASE tryWrite
    <2>1. Units(sent, gsize) \in Seq(Nat)
      BY <1>1, UnitsFollow
    <2>2. QueueOK(tryPushed(mFromGuest, Units(sent, gsize)))
      BY <1>1, <2>1, PushAppends
    <2> QED BY <1>1, <1>3, <2>2 DEF tryWrite, UpdateQuietly, Update
  <1>4. CASE onGuestRecv_tryRead
    <2>1. tryPopResult(mToGuest) = "Ok" => QueueOK(tryPopped(mToGuest))
      BY <1>1, PopOk
    <2> QED BY <1>1, <1>4, <2>1 DEF onGuestRecv_tryRead, UpdateQuietly, Update, chan
  <1>5. CASE readFromGuest
    <2>1. tryPopResult(mFromGuest) = "Ok" => QueueOK(tryPopped(mFromGuest))
      BY <1>1, PopOk
    <2> QED BY <1>1, <1>5, <2>1 DEF readFromGuest, UpdateAndNotify, Update, chan
  <1>6. CASE writeToGuest
    <2>1. Units(replied, ReplyUnits) \in Seq(Nat)
      BY <1>1, UnitsFollow
    <2>2. QueueOK(tryPushed(mToGuest, Units(replied, ReplyUnits)))
      BY <1>1, <2>1, PushAppends
    <2> QED BY <1>1, <1>6, <2>2 DEF writeToGuest, UpdateAndNotify, Update, chan
  <1>7. CASE stop \/ stopFromHost
    BY <1>1, <1>7, CloseKeepsContents DEF stop, stopFromHost, CloseQueues
  <1>8. CASE pausePreSnapshot \/ resume
    BY <1>1, <1>8, ModeKeepsContents DEF pausePreSnapshot, resume
  <1> QED BY <1>2, <1>3, <1>4, <1>5, <1>6, <1>7, <1>8
          DEF Next, GuestStep, ThreadStep, SaveStep, Send, onGuestRecv, onGuestRecv_copy,
              SetWakeBit, onGuestWantWakeOn, setWantedEvents, WakeUp, waitUntilReady, Deliver,
              getData, readRaw_copy, readRaw_full, decode, doSnapshotOperation,
              snapshotOperation, setFinished, onSave, save, vars, chan

LEMMA StateTyped ==
    ASSUME NEW from, NEW to
    PROVE  StateOf(from, to) \subseteq Flags
  BY DEF StateOf, Flags

LEMMA ChanTyped ==
    ASSUME ChannelInv, [Next]_vars
    PROVE  ChanOK'
  <1>1. /\ mState \subseteq Flags /\ mWantedEvents \subseteq Flags \ {"Stopped"}
        /\ mEventCallback \in BOOLEAN /\ wake \subseteq {"CanRead", "CanWrite", "Closed"}
    BY DEF ChannelInv, TypeOK, ChanOK
  <1>2. Event \in Flags \ {"Stopped"} /\ Event \in {"CanRead", "CanWrite"}
    BY DEF Event, Flags
  <1> SUFFICES /\ mState' \subseteq Flags /\ mWantedEvents' \subseteq Flags \ {"Stopped"}
               /\ mEventCallback' \in BOOLEAN /\ wake' \subseteq {"CanRead", "CanWrite", "Closed"}
    BY QueuesTyped DEF ChanOK, Flags
  <1>3. ASSUME NEW st, st \subseteq Flags, NEW w, w \subseteq Flags \ {"Stopped"},
               mWantedEvents' = IF st \cap (w \cup {"Stopped"}) = {} THEN w ELSE w \ st,
               wake' = IF ~mEventCallback THEN wake
                       ELSE IF "Stopped" \in st \cap (w \cup {"Stopped"}) THEN wake \cup {"Closed"}
                       ELSE wake \cup (st \cap (w \cup {"Stopped"}))
        PROVE  mWantedEvents' \subseteq Flags \ {"Stopped"} /\ wake' \subseteq {"CanRead", "CanWrite", "Closed"}
    BY <1>1, <1>3 DEF Flags
  <1>4. CASE UNCHANGED chan
    BY <1>1, <1>4 DEF chan
  <1>5. CASE tryWrite
    BY <1>1, <1>5, StateTyped DEF tryWrite, UpdateQuietly, Update
  <1>6. CASE onGuestRecv_tryRead
    BY <1>1, <1>6, StateTyped DEF onGuestRecv_tryRead, UpdateQuietly, Update, chan
  <1>7. CASE onGuestWantWakeOn
    BY <1>1, <1>2, <1>7 DEF onGuestWantWakeOn
  <1>8. CASE setWantedEvents
    <2>1. mWantedEvents \cup {Event} \subseteq Flags \ {"Stopped"}
      BY <1>1, <1>2
    <2> HIDE DEF Event
    <2> QED BY <1>1, <1>3, <1>8, <2>1 DEF setWantedEvents, notifyStateChange
  <1>9. CASE Deliver \/ stop
    BY <1>1, <1>9 DEF Deliver, stop, CloseQueues
  <1>9a. ASSUME NEW from, NEW to, UpdateAndNotify(from, to)
         PROVE  /\ mState' \subseteq Flags /\ mWantedEvents' \subseteq Flags \ {"Stopped"}
                /\ mEventCallback' \in BOOLEAN /\ wake' \subseteq {"CanRead", "CanWrite", "Closed"}
    <2>1. /\ mState' = StateOf(from, to) /\ mEventCallback' = mEventCallback
          /\ notifyStateChange(StateOf(from, to), mWantedEvents)
      BY <1>9a DEF UpdateAndNotify, Update
    <2>2. StateOf(from, to) \subseteq Flags
      BY StateTyped
    <2> HIDE DEF StateOf
    <2>3. mWantedEvents' \subseteq Flags \ {"Stopped"} /\ wake' \subseteq {"CanRead", "CanWrite", "Closed"}
      BY <1>1, <1>3, <2>1, <2>2 DEF notifyStateChange
    <2> QED BY <1>1, <2>1, <2>2, <2>3
  <1>10. CASE readFromGuest
    <2>1. \/ UNCHANGED chan \/ UpdateAndNotify(tryPopped(mFromGuest), mToGuest)
          \/ UpdateAndNotify(mFromGuest, mToGuest)
      BY <1>10 DEF readFromGuest
    <2> QED BY <1>4, <1>9a, <2>1
  <1>11. CASE writeToGuest
    <2>1. \/ UNCHANGED chan \/ UpdateAndNotify(mFromGuest, mToGuest)
          \/ UpdateAndNotify(mFromGuest, tryPushed(mToGuest, Units(replied, ReplyUnits)))
      BY <1>11 DEF writeToGuest
    <2> QED BY <1>4, <1>9a, <2>1
  <1>12. CASE stopFromHost
    <2>1. mState' = mState \cup {"Stopped"} /\ mState' \subseteq Flags /\ mEventCallback' = FALSE
      BY <1>1, <1>12 DEF stopFromHost, CloseQueues, Flags
    <2> QED BY <1>1, <1>3, <1>12, <2>1 DEF stopFromHost, notifyStateChange
  <1>13. CASE pausePreSnapshot \/ resume
    BY <1>1, <1>13 DEF pausePreSnapshot, resume
  <1> QED BY <1>4, <1>5, <1>6, <1>7, <1>8, <1>9, <1>10, <1>11, <1>12, <1>13
          DEF Next, GuestStep, ThreadStep, SaveStep, Send, onGuestRecv, onGuestRecv_copy,
              SetWakeBit, WakeUp, waitUntilReady, getData, readRaw_copy, readRaw_full, decode,
              doSnapshotOperation, snapshotOperation, setFinished, onSave, save, vars

(* The number of the command that ends with unit s. *)
LEMMA CommandOf ==
    ASSUME NEW s \in Nat, s > 1, (s - 1) % PacketSize = 0
    PROVE  LET c == (s - 1) \div PacketSize
           IN  c \in Nat /\ c >= 1 /\ c * PacketSize + 1 = s /\ c <= s - 1
  <1> DEFINE c == (s - 1) \div PacketSize
  <1>1. PacketSize \in Nat \ {0} /\ s - 1 \in Int
    BY Constants
  <1>2. c \in Int /\ s - 1 = PacketSize * c + 0
    BY <1>1, DivMod
  <1> HIDE DEF c
  <1>3. PacketSize * c = c * PacketSize /\ PacketSize * c \in Int
    BY <1>1, <1>2
  <1>4. c >= 1
    <2>1. c <= 0 => PacketSize * c <= 0
      BY <1>1, <1>2
    <2> QED BY <1>2, <1>3, <2>1
  <1>5. PacketSize * c >= c
    BY <1>1, <1>2, <1>4
  <1>6. c * PacketSize + 1 = s /\ c <= s - 1
    BY <1>2, <1>3, <1>5
  <1> QED BY <1>2, <1>4, <1>6 DEF c

LEMMA GuestTyped ==
    ASSUME ChannelInv, [Next]_vars
    PROVE  GuestOK'
  <1> USE Constants
  <1>1. GuestOK /\ GuestInv /\ QueueOK(mToGuest)
    BY DEF ChannelInv, TypeOK, ChanOK
  <1>2. Event \in {"CanRead", "CanWrite"}
    BY DEF Event
  <1>3. CASE UNCHANGED guest
    BY <1>1, <1>3 DEF guest, guestRest, GuestOK
  <1>4. ASSUME NEW n \in SendSizes, NEW ask \in BOOLEAN, Send(n, ask) PROVE GuestOK'
    BY <1>1, <1>4 DEF Send, GuestOK
  <1>5. CASE tryWrite
    <2>1. /\ sent \in Nat /\ gsize \in Nat /\ sent + gsize \in 0 .. MaxUnits /\ gask \in BOOLEAN
          /\ gask => sent + gsize > 1 /\ (sent + gsize - 1) % PacketSize = 0
      BY <1>1, <1>5 DEF tryWrite, GuestOK, GuestInv
    <2>2. gask => (sent + gsize - 1) \div PacketSize \in 1 .. MaxUnits
      <3> SUFFICES ASSUME gask PROVE (sent + gsize - 1) \div PacketSize \in 1 .. MaxUnits
        OBVIOUS
      <3>1. PICK s \in Nat : s = sent + gsize /\ s <= MaxUnits
        BY <2>1
      <3>2. s > 1 /\ (s - 1) % PacketSize = 0
        BY <2>1, <3>1
      <3>3. PICK c \in Nat : c = (s - 1) \div PacketSize /\ c >= 1 /\ c <= s - 1
        BY <3>2, CommandOf
      <3>4. c \in 1 .. MaxUnits
        BY <3>1, <3>3
      <3> QED BY <2>1, <3>1, <3>3, <3>4
    <2>3. /\ gpc' \in {"again", "block", "error", "read", "idle"} /\ sent' \in 0 .. MaxUnits
          /\ gsize' \in Nat /\ gask' \in BOOLEAN /\ gleft' \in 0 .. ReplySize
      <3>1. gpc' \in {"again", "block", "error", "read", "idle"}
        BY <1>5 DEF tryWrite, TryAgain
      <3>2. sent' = sent + gsize \/ sent' = sent
        BY <1>5 DEF tryWrite
      <3>3. gsize' \in {0, gsize} /\ gleft' \in {0, ReplySize, gleft}
        BY <1>5 DEF tryWrite
      <3>4. gask' \in BOOLEAN
        BY <1>5, <2>1 DEF tryWrite
      <3> QED BY <1>1, <2>1, <3>1, <3>2, <3>3, <3>4 DEF GuestOK
    <2>4. asks' \subseteq 1 .. MaxUnits
      <3>1. asks' = asks \/ (gask /\ asks' = asks \cup {(sent + gsize - 1) \div PacketSize})
        BY <1>5, <2>1 DEF tryWrite
      <3> QED BY <1>1, <2>2, <3>1 DEF GuestOK
    <2> QED BY <1>1, <1>5, <2>3, <2>4 DEF tryWrite, GuestOK
  <1>6. ASSUME NEW n \in RecvSizes, onGuestRecv(n) PROVE GuestOK'
    <2>1. Min({n, gleft}) \in Nat
      <3>1. n \in Nat /\ gleft \in Nat
        BY <1>1 DEF GuestOK
      <3> QED BY <3>1, MinOf
    <2>2. /\ gpc' \in {"recv", "error"} /\ gop' = "read" /\ gsize' \in Nat /\ gany' = FALSE
          /\ UNCHANGED <<gask, gleft, gwait, gclosed, mDataForReading, sent, asks, gotten>>
      BY <1>6, <2>1 DEF onGuestRecv
    <2> QED BY <1>1, <2>2 DEF GuestOK
  <1>7. CASE onGuestRecv_copy
    <2> DEFINE curSize == Min({gsize, Len(mDataForReading)})
    <2>1. /\ curSize \in Nat /\ curSize <= gsize /\ curSize <= Len(mDataForReading)
          /\ gsize <= gleft
      <3>1. gsize \in Nat /\ Len(mDataForReading) \in Nat /\ gsize <= gleft
        BY <1>1, <1>7 DEF onGuestRecv_copy, GuestOK, GuestInv
      <3> QED BY <3>1, MinOf
    <2>2. /\ SubSeq(mDataForReading, 1, curSize) \in Seq(Nat)
          /\ Drop(mDataForReading, curSize) \in Seq(Nat)
      <3>1. mDataForReading \in Seq(Nat)
        BY <1>1 DEF GuestOK
      <3> HIDE DEF curSize
      <3> QED BY <2>1, <3>1 DEF Drop
    <2>3. /\ gotten' = gotten \o SubSeq(mDataForReading, 1, curSize)
          /\ mDataForReading' = Drop(mDataForReading, curSize)
          /\ gsize' = gsize - curSize /\ gleft' = gleft - curSize
      BY <1>7 DEF onGuestRecv_copy
    <2> HIDE DEF curSize
    <2>4. gotten' \in Seq(Nat) /\ mDataForReading' \in Seq(Nat)
      BY <1>1, <2>2, <2>3 DEF GuestOK
    <2>5. gsize' \in Nat /\ gleft' \in 0 .. ReplySize
      BY <1>1, <2>1, <2>3 DEF GuestOK
    <2>6. gpc' \in {"recv", "read", "idle"} /\ gany' \in BOOLEAN
      BY <1>7 DEF onGuestRecv_copy
    <2> QED BY <1>1, <1>7, <2>4, <2>5, <2>6 DEF onGuestRecv_copy, GuestOK
  <1>8. CASE onGuestRecv_tryRead
    <2>1. tryPopResult(mToGuest) = "Ok" => Oldest(mToGuest) \in Seq(Nat)
      BY <1>1, PopOk
    <2> QED BY <1>1, <1>8, <2>1 DEF onGuestRecv_tryRead, TryAgain, GuestOK
  <1>9. CASE SetWakeBit
    BY <1>1, <1>2, <1>9 DEF SetWakeBit, GuestOK
  <1>10. CASE onGuestWantWakeOn \/ setWantedEvents \/ WakeUp \/ waitUntilReady
    BY <1>1, <1>10 DEF onGuestWantWakeOn, setWantedEvents, WakeUp, waitUntilReady, guestRest, GuestOK
  <1>11. CASE Deliver
    BY <1>1, <1>11 DEF Deliver, GuestOK
  <1>12. CASE stop \/ stopFromHost
    BY <1>1, <1>12 DEF stop, stopFromHost, guestRest, GuestOK
  <1>13. CASE readFromGuest
    BY <1>1, <1>13 DEF readFromGuest, WakeGuest, guestRest, GuestOK
  <1>14. CASE writeToGuest
    BY <1>1, <1>14 DEF writeToGuest, WakeGuest, guestRest, GuestOK
  <1> QED BY <1>3, <1>4, <1>5, <1>6, <1>7, <1>8, <1>9, <1>10, <1>11, <1>12, <1>13, <1>14
          DEF Next, GuestStep, ThreadStep, SaveStep, getData, readRaw_copy, readRaw_full, decode,
              doSnapshotOperation, snapshotOperation, setFinished, pausePreSnapshot, onSave,
              save, resume, vars

LEMMA ThreadTyped ==
    ASSUME ChannelInv, [Next]_vars
    PROVE  ThreadOK'
  <1> USE Constants
  <1>1. ThreadOK /\ ThreadInv /\ QueueOK(mFromGuest)
    BY DEF ChannelInv, TypeOK, ChanOK
  <1>2. CASE UNCHANGED thread
    BY <1>1, <1>2 DEF thread, threadRest, ThreadOK
  <1>3. CASE UNCHANGED threadRest /\ hpc' \in {hpc, "push", "readRaw", "exiting", "saving", "parked",
                                               "top", "finished"}
    BY <1>1, <1>3 DEF threadRest, ThreadOK
  <1>4. CASE tryWrite \/ onGuestRecv_tryRead \/ stop \/ stopFromHost \/ pausePreSnapshot
    BY <1>3, <1>4 DEF tryWrite, onGuestRecv_tryRead, stop, stopFromHost, pausePreSnapshot,
                      CloseQueues, WakeThread
  <1>5. CASE doSnapshotOperation \/ snapshotOperation \/ setFinished
    BY <1>3, <1>5 DEF doSnapshotOperation, snapshotOperation, setFinished
  <1>6. ASSUME NEW n \in 1 .. MaxWanted, getData(n) PROVE ThreadOK'
    BY <1>1, <1>6, EmptyFollows DEF getData, ThreadOK
  <1>7. CASE readRaw_copy
    <2> DEFINE avail == Min({hwanted - Len(hgot), Len(mReadBuffer)})
    <2>1. avail \in Nat /\ avail <= Len(mReadBuffer)
      <3>1. hwanted \in Nat /\ Len(hgot) \in Nat /\ Len(hgot) < hwanted /\ Len(mReadBuffer) \in Nat
        BY <1>1, <1>7 DEF readRaw_copy, ThreadOK
      <3>2. PICK a \in Nat : a = hwanted - Len(hgot)
        BY <3>1
      <3> QED BY <3>1, <3>2, MinOf
    <2>2. /\ hgot' = hgot \o SubSeq(mReadBuffer, 1, avail)
          /\ mReadBuffer' = Drop(mReadBuffer, avail)
      BY <1>7 DEF readRaw_copy
    <2> HIDE DEF avail
    <2>3. hgot \in Seq(Nat) /\ mReadBuffer \in Seq(Nat)
      BY <1>1 DEF ThreadOK
    <2>4. SubSeq(mReadBuffer, 1, avail) \in Seq(Nat) /\ Drop(mReadBuffer, avail) \in Seq(Nat)
      BY <2>1, <2>3 DEF Drop
    <2>5. hgot' \in Seq(Nat) /\ mReadBuffer' \in Seq(Nat)
      BY <2>2, <2>3, <2>4
    <2> QED BY <1>1, <1>7, <2>5 DEF readRaw_copy, ThreadOK
  <1>8. ASSUME readRaw_return, UNCHANGED <<mReadBuffer, owed, replied>> PROVE ThreadOK'
    <2>1. readBuf \o hgot \in Seq(Nat) /\ <<>> \in Seq(Nat)
      BY <1>1 DEF ThreadOK
    <2>2. hpc' = "top" /\ hgot' = <<>> /\ hwanted' = 0 /\ UNCHANGED <<mReadBuffer, owed, replied>>
      BY <1>8 DEF readRaw_return
    <2>3. readBuf' \in Seq(Nat) /\ executed' \in Nat
      <3>1. PICK s \in Seq(Nat) : s = readBuf \o hgot
        BY <2>1
      <3>2. (readBuf' = readBuf \/ readBuf' = s) /\ (executed' = executed \/ executed' = 1)
        BY <1>8, <3>1 DEF readRaw_return
      <3>3. readBuf \in Seq(Nat) /\ executed \in Nat
        BY <1>1 DEF ThreadOK
      <3> QED BY <3>2, <3>3
    <2>4. started' \in BOOLEAN
      BY <1>1, <1>8 DEF readRaw_return, ThreadOK
    <2> QED BY <1>1, <2>1, <2>2, <2>3, <2>4 DEF ThreadOK
  <1>9. CASE readRaw_full
    BY <1>8, <1>9 DEF readRaw_full
  <1>10. CASE readFromGuest
    <2>1. tryPopResult(mFromGuest) = "Ok" => Oldest(mFromGuest) \in Seq(Nat)
      BY <1>1, PopOk
    <2> QED BY <1>1, <1>8, <1>10, <2>1 DEF readFromGuest, ThreadOK
  <1>11. CASE decode
    <2>1. Drop(readBuf, PacketSize) \in Seq(Nat) /\ executed + PacketSize \in Nat
      <3>1. readBuf \in Seq(Nat) /\ executed \in Nat /\ Len(readBuf) >= PacketSize
        BY <1>1, <1>11 DEF decode, ThreadOK
      <3> QED BY <3>1 DEF Drop
    <2> QED BY <1>1, <1>11, <2>1 DEF decode, ThreadOK
  <1>12. CASE writeToGuest
    <2>1. owed > 0
      BY <1>1, <1>12 DEF writeToGuest, ThreadInv
    <2> QED BY <1>1, <1>12, <2>1 DEF writeToGuest, ThreadOK
  <1> QED BY <1>2, <1>4, <1>5, <1>6, <1>7, <1>9, <1>10, <1>11, <1>12
          DEF Next, GuestStep, ThreadStep, SaveStep, Send, onGuestRecv, onGuestRecv_copy,
              SetWakeBit, onGuestWantWakeOn, setWantedEvents, WakeUp, waitUntilReady, Deliver,
              onSave, save, resume, vars

LEMMA SnapTyped ==
    ASSUME ChannelInv, [Next]_vars
    PROVE  SnapOK'
  <1>1. SnapOK /\ ThreadOK /\ QueueOK(mFromGuest) /\ QueueOK(mToGuest)
    BY DEF ChannelInv, TypeOK, ChanOK
  <1>2. CASE UNCHANGED snap
    BY <1>1, <1>2 DEF snap, SnapOK
  <1>3. CASE stopFromHost \/ doSnapshotOperation \/ setFinished \/ pausePreSnapshot
    BY <1>1, <1>3 DEF stopFromHost, doSnapshotOperation, setFinished, pausePreSnapshot, SnapOK
  <1>4. CASE snapshotOperation
    <2>1. savedReadBuf \in Seq(Nat) /\ executed \in Nat
      BY <1>1 DEF savedReadBuf, ThreadOK
    <2>2. image' \in {image, [image EXCEPT !.readBuf = savedReadBuf, !.executed = executed]}
      BY <1>4 DEF snapshotOperation
    <2> QED BY <1>1, <1>4, <2>1, <2>2 DEF snapshotOperation, SnapOK
  <1>5. CASE onSave
    <2>1. /\ (IF mFromGuest.mClosed THEN <<>> ELSE Contents(mFromGuest)) \in Seq(Seq(Nat))
          /\ (IF mToGuest.mClosed THEN <<>> ELSE Contents(mToGuest)) \in Seq(Seq(Nat))
      BY <1>1, ContentsFacts
    <2> QED BY <1>1, <1>5, <2>1 DEF onSave, SnapOK
  <1>6. CASE save
    BY <1>1, <1>6 DEF save, SnapOK
  <1>7. CASE resume
    BY <1>1, <1>7 DEF resume, NoImage, SnapOK
  <1> QED BY <1>2, <1>3, <1>4, <1>5, <1>6, <1>7
          DEF Next, GuestStep, ThreadStep, SaveStep, Send, tryWrite, onGuestRecv, onGuestRecv_copy,
              onGuestRecv_tryRead, SetWakeBit, onGuestWantWakeOn, setWantedEvents, WakeUp,
              waitUntilReady, Deliver, stop, getData, readRaw_copy, readRaw_full,
              readFromGuest, decode, writeToGuest, vars
-----------------------------------------------------------------------------
(* The guest, and the render thread. *)

LEMMA GuestKept ==
    ASSUME ChannelInv, [Next]_vars
    PROVE  GuestInv'
  <1> USE Constants
  <1>1. GuestOK /\ GuestInv /\ GuestOK'
    BY GuestTyped DEF ChannelInv, TypeOK
  <1>2. CASE UNCHANGED guest
    BY <1>1, <1>2 DEF guest, guestRest, GuestInv, Event
  <1>3. ASSUME NEW n \in SendSizes, NEW ask \in BOOLEAN, Send(n, ask) PROVE GuestInv'
    BY <1>1, <1>3 DEF Send, GuestInv, GuestOK, Waiting
  <1>4. CASE tryWrite
    <2>1. CASE tryPushResult(mFromGuest) = "Ok"
      <3>1. gpc' \in {"read", "idle"} /\ (gpc' = "read" => gleft' = ReplySize)
        BY <1>4, <2>1 DEF tryWrite
      <3>2. gpc' = "read" => gleft' > 0
        BY <3>1
      <3> QED BY <3>1, <3>2 DEF GuestInv, Waiting
    <2>2. CASE tryPushResult(mFromGuest) # "Ok"
      <3>1. gpc' \in {"error", "again", "block"} /\ UNCHANGED guestRest /\ gpc = "write"
        BY <1>4, <2>2 DEF tryWrite, TryAgain, guestRest
      <3> QED BY <1>1, <3>1 DEF GuestInv, guestRest, Waiting
    <2> QED BY <2>1, <2>2
  <1>5. ASSUME NEW n \in RecvSizes, onGuestRecv(n) PROVE GuestInv'
    <2>1. n \in Nat /\ n > 0 /\ gleft \in Nat /\ gleft > 0
      BY <1>1, <1>5 DEF onGuestRecv, GuestInv, GuestOK
    <2>2. gsize' > 0 /\ gsize' <= gleft' /\ gpc' \in {"recv", "error"} /\ gop' = "read"
      BY <1>5, <2>1, MinOf DEF onGuestRecv
    <2> QED BY <2>2 DEF GuestInv, Waiting
  <1>6. CASE onGuestRecv_copy
    <2> DEFINE curSize == Min({gsize, Len(mDataForReading)})
    <2>1. /\ gsize \in Nat /\ gleft \in Nat /\ Len(mDataForReading) \in Nat
          /\ gsize <= gleft /\ gop = "read"
      BY <1>1, <1>6 DEF onGuestRecv_copy, GuestOK, GuestInv
    <2>2. curSize \in Nat /\ curSize <= gsize
      BY <2>1, MinOf
    <2>3. /\ gsize' = gsize - curSize /\ gleft' = gleft - curSize /\ gop' = gop
          /\ gpc' = IF gsize' > 0 THEN "recv" ELSE IF gleft' > 0 THEN "read" ELSE "idle"
      BY <1>6 DEF onGuestRecv_copy
    <2> HIDE DEF curSize
    <2>4. gsize' <= gleft'
      BY <2>1, <2>2, <2>3
    <2> QED BY <2>1, <2>3, <2>4 DEF GuestInv, Waiting
  <1>7. CASE onGuestRecv_tryRead
    <2>1. /\ gpc' \in {"recv", "read", "error", "again", "block"} /\ gpc = "recv"
          /\ UNCHANGED <<gop, gsize, gask, gleft, gwait, sent>>
      BY <1>7 DEF onGuestRecv_tryRead, TryAgain
    <2> QED BY <1>1, <2>1 DEF GuestInv, GuestOK, Waiting
  <1>8. CASE SetWakeBit
    BY <1>1, <1>8 DEF SetWakeBit, GuestInv, Waiting, Event
  <1>9. CASE onGuestWantWakeOn \/ setWantedEvents
    <2>1. gpc \in {"want", "wanted"} /\ gpc' \in {"wanted", "sleep"} /\ UNCHANGED guestRest
      BY <1>9 DEF onGuestWantWakeOn, setWantedEvents
    <2> QED BY <1>1, <2>1 DEF GuestInv, guestRest, Waiting, Event
  <1>10. CASE WakeUp
    BY <1>1, <1>10 DEF WakeUp, GuestInv, GuestOK, guestRest, Waiting
  <1>11. CASE waitUntilReady
    BY <1>1, <1>11 DEF waitUntilReady, GuestInv, GuestOK, guestRest, Waiting
  <1>12. CASE Deliver
    BY <1>1, <1>12 DEF Deliver, GuestInv, Waiting, Event
  <1>13. CASE stop
    BY <1>1, <1>13 DEF stop, GuestInv, guestRest, Waiting
  <1>14. ASSUME gpc' = gpc \/ (gpc = "blocked" /\ gpc' = gop), UNCHANGED guestRest
         PROVE  GuestInv'
    BY <1>1, <1>14 DEF GuestInv, GuestOK, guestRest, Waiting, Event
  <1>15. CASE stopFromHost \/ readFromGuest \/ writeToGuest
    BY <1>14, <1>15 DEF stopFromHost, readFromGuest, writeToGuest, WakeGuest
  <1> QED BY <1>2, <1>3, <1>4, <1>5, <1>6, <1>7, <1>8, <1>9, <1>10, <1>11, <1>12, <1>13, <1>15
          DEF Next, GuestStep, ThreadStep, SaveStep, getData, readRaw_copy, readRaw_full, decode,
              doSnapshotOperation, snapshotOperation, setFinished, pausePreSnapshot, onSave,
              save, resume, vars

LEMMA ThreadKept ==
    ASSUME ChannelInv, [Next]_vars
    PROVE  ThreadInv'
  <1> USE Constants
  <1>1. ThreadOK /\ ThreadInv /\ ThreadOK'
    BY ThreadTyped DEF ChannelInv, TypeOK
  <1>2. CASE UNCHANGED thread
    BY <1>1, <1>2 DEF thread, threadRest, ThreadInv
  <1>3. ASSUME UNCHANGED threadRest,
               \/ hpc' = hpc
               \/ hpc = "popWait" /\ hpc' = "readRaw"
               \/ hpc = "pushWait" /\ hpc' = "push"
               \/ /\ hpc \in {"ended", "saving", "parked", "exiting"}
                  /\ hpc' \in {"exiting", "saving", "parked", "top", "finished"}
        PROVE  ThreadInv'
    BY <1>1, <1>3 DEF threadRest, ThreadInv
  <1>4. CASE tryWrite \/ onGuestRecv_tryRead \/ stop \/ stopFromHost \/ pausePreSnapshot
    BY <1>3, <1>4 DEF tryWrite, onGuestRecv_tryRead, stop, stopFromHost, pausePreSnapshot,
                      CloseQueues, WakeThread
  <1>5. CASE doSnapshotOperation \/ snapshotOperation \/ setFinished
    BY <1>3, <1>5 DEF doSnapshotOperation, snapshotOperation, setFinished
  <1>6. ASSUME NEW n \in 1 .. MaxWanted, getData(n) PROVE ThreadInv'
    BY <1>1, <1>6, EmptyFollows DEF getData, ThreadInv
  <1>7. CASE readRaw_copy
    <2> DEFINE avail == Min({hwanted - Len(hgot), Len(mReadBuffer)})
    <2>1. hwanted \in Nat /\ Len(hgot) \in Nat /\ Len(hgot) < hwanted /\ Len(mReadBuffer) \in Nat
      BY <1>1, <1>7 DEF readRaw_copy, ThreadOK
    <2>2. avail \in Nat /\ avail <= Len(mReadBuffer) /\ avail <= hwanted - Len(hgot)
      <3>1. PICK a \in Nat : a = hwanted - Len(hgot)
        BY <2>1
      <3> QED BY <2>1, <3>1, MinOf
    <2>3. hgot' = hgot \o SubSeq(mReadBuffer, 1, avail)
      BY <1>7 DEF readRaw_copy
    <2> HIDE DEF avail
    <2>4. hgot \in Seq(Nat) /\ mReadBuffer \in Seq(Nat)
      BY <1>1 DEF ThreadOK
    <2>5. Len(hgot') = Len(hgot) + avail
      BY <2>2, <2>3, <2>4
    <2>6. Len(hgot') <= hwanted
      BY <2>1, <2>2, <2>5
    <2> QED BY <1>1, <1>7, <2>6 DEF readRaw_copy, ThreadInv
  <1>8. ASSUME readRaw_return, UNCHANGED owed, hpc = "readRaw" PROVE ThreadInv'
    <2>1. CASE started
      BY <1>1, <1>8, <2>1 DEF readRaw_return, ThreadInv, ThreadOK
    <2>2. CASE ~started
      <3>1. 0 % PacketSize = 0
        BY ModSmall
      <3> QED BY <1>1, <1>8, <2>2, <3>1 DEF readRaw_return, ThreadInv, ThreadOK
    <2> QED BY <2>1, <2>2
  <1>9. CASE readRaw_full
    BY <1>8, <1>9 DEF readRaw_full
  <1>10. CASE readFromGuest
    <2>1. CASE hpc' = "popWait" /\ UNCHANGED <<hgot, hwanted, readBuf, started, executed, owed>>
      <3>1. hgot = <<>> /\ hpc = "readRaw"
        BY <1>10, <2>1 DEF readFromGuest, blocking, readRaw_return
      <3> QED BY <1>1, <2>1, <3>1 DEF ThreadInv
    <2>2. CASE UNCHANGED <<hpc, hgot, hwanted, readBuf, started, executed, owed>>
      BY <1>1, <2>2 DEF ThreadInv
    <2>3. CASE hgot # <<>> /\ readRaw_return /\ UNCHANGED owed
      BY <1>8, <1>10, <2>3 DEF readFromGuest
    <2>4. CASE /\ hgot = <<>> /\ hpc' = "ended"
               /\ UNCHANGED <<hgot, hwanted, readBuf, started, executed, owed>>
      BY <1>1, <1>10, <2>4 DEF readFromGuest, ThreadInv
    <2> QED BY <1>10, <2>1, <2>2, <2>3, <2>4 DEF readFromGuest
  <1>11. CASE decode
    <2>1. /\ executed \in Nat /\ executed > 0 /\ (executed - 1) % PacketSize = 0 /\ started
          /\ hgot = <<>>
      BY <1>1, <1>11 DEF decode, ThreadInv, ThreadOK
    <2>2. executed' > 0 /\ (executed' - 1) % PacketSize = 0
      <3>1. executed' = executed + PacketSize /\ executed' - 1 = (executed - 1) + PacketSize * 1
        BY <1>11, <2>1 DEF decode
      <3>2. executed - 1 \in Int /\ 1 \in Int
        BY <2>1
      <3>3. ((executed - 1) + PacketSize * 1) % PacketSize = (executed - 1) % PacketSize
        BY <3>2, ModShift
      <3> QED BY <2>1, <3>1, <3>3
    <2> QED BY <1>1, <1>11, <2>1, <2>2 DEF decode, ThreadInv
  <1>12. CASE writeToGuest
    <2>1. owed \in Nat /\ owed > 0
      BY <1>1, <1>12 DEF writeToGuest, ThreadInv, ThreadOK
    <2>2. CASE hpc' = "pushWait" /\ owed' = owed
      BY <1>1, <1>12, <2>1, <2>2 DEF writeToGuest, ThreadInv
    <2>3. CASE owed' = owed - 1 /\ hpc' = IF owed' = 0 THEN "top" ELSE "push"
      BY <1>1, <1>12, <2>1, <2>3 DEF writeToGuest, ThreadInv
    <2> QED BY <1>12, <2>2, <2>3 DEF writeToGuest
  <1> QED BY <1>2, <1>4, <1>5, <1>6, <1>7, <1>9, <1>10, <1>11, <1>12
          DEF Next, GuestStep, ThreadStep, SaveStep, Send, onGuestRecv, onGuestRecv_copy,
              SetWakeBit, onGuestWantWakeOn, setWantedEvents, WakeUp, waitUntilReady, Deliver,
              onSave, save, resume, vars
-----------------------------------------------------------------------------
(* Closing, and waking. *)

(* Only the two ends of a channel close its queues and drop its callback, *)
(* and mState follows the queues.                                         *)
LEMMA OnlyStopCloses ==
    ASSUME ChannelInv, [Next]_vars, ~stop, ~stopFromHost
    PROVE  /\ mFromGuest'.mClosed = mFromGuest.mClosed /\ mToGuest'.mClosed = mToGuest.mClosed
           /\ mEventCallback' = mEventCallback
           /\ gpc' = "closed" <=> gpc = "closed"
           /\ ctl' = "stopped" <=> ctl = "stopped"
           /\ mState = StateOf(mFromGuest, mToGuest) => mState' = StateOf(mFromGuest', mToGuest')
  <1>1. /\ QueueOK(mFromGuest) /\ QueueOK(mToGuest) /\ sent \in Nat /\ gsize \in Nat
        /\ replied \in Nat /\ ReplyUnits \in Nat /\ gop \in {"read", "write"}
    BY Constants DEF ChannelInv, TypeOK, ChanOK, GuestOK, ThreadOK
  <1>2. CASE UNCHANGED <<mFromGuest, mToGuest, mState, mEventCallback, ctl, gpc>>
    BY <1>2
  <1>3. CASE /\ UNCHANGED <<mFromGuest, mToGuest, mState, mEventCallback, ctl>>
             /\ gpc # "closed" /\ gpc' # "closed"
    BY <1>3
  <1>4. CASE tryWrite
    <2>1. Units(sent, gsize) \in Seq(Nat)
      BY <1>1, UnitsFollow
    <2>2. tryPushed(mFromGuest, Units(sent, gsize)).mClosed = mFromGuest.mClosed
      BY <1>1, <2>1, PushAppends
    <2> QED BY <1>4, <2>2 DEF tryWrite, TryAgain, UpdateQuietly, Update, snap
  <1>5. CASE onGuestRecv_tryRead
    <2>1. tryPopResult(mToGuest) = "Ok" => tryPopped(mToGuest).mClosed = mToGuest.mClosed
      BY <1>1, PopOk, PopTakesOldest
    <2> QED BY <1>5, <2>1 DEF onGuestRecv_tryRead, TryAgain, UpdateQuietly, Update, chan, snap
  <1>6. CASE readFromGuest
    <2>1. tryPopResult(mFromGuest) = "Ok" => tryPopped(mFromGuest).mClosed = mFromGuest.mClosed
      BY <1>1, PopOk, PopTakesOldest
    <2> QED BY <1>1, <1>6, <2>1 DEF readFromGuest, UpdateAndNotify, Update, WakeGuest, chan, snap
  <1>7. CASE writeToGuest
    <2>1. Units(replied, ReplyUnits) \in Seq(Nat)
      BY <1>1, UnitsFollow
    <2>2. tryPushed(mToGuest, Units(replied, ReplyUnits)).mClosed = mToGuest.mClosed
      BY <1>1, <2>1, PushAppends
    <2> QED BY <1>1, <1>7, <2>2 DEF writeToGuest, UpdateAndNotify, Update, WakeGuest, chan, snap
  <1>8. ASSUME NEW on \in BOOLEAN, mFromGuest' = setSnapshotMode(mFromGuest, on),
               mToGuest' = setSnapshotMode(mToGuest, on)
        PROVE  /\ mFromGuest'.mClosed = mFromGuest.mClosed /\ mToGuest'.mClosed = mToGuest.mClosed
               /\ StateOf(mFromGuest', mToGuest') = StateOf(mFromGuest, mToGuest)
    <2>1. /\ mFromGuest'.mClosed = mFromGuest.mClosed /\ mFromGuest'.mCount = mFromGuest.mCount
          /\ Size(mFromGuest') = Size(mFromGuest)
      BY <1>1, <1>8, ModeKeepsContents
    <2>2. mToGuest'.mClosed = mToGuest.mClosed /\ mToGuest'.mCount = mToGuest.mCount
      BY <1>1, <1>8, ModeKeepsContents
    <2> QED BY <2>1, <2>2 DEF StateOf, canPush, canPop
  <1>9. CASE pausePreSnapshot
    BY <1>8, <1>9 DEF pausePreSnapshot, guest
  <1>10. CASE resume
    BY <1>8, <1>10 DEF resume, guest
  <1>11. CASE onSave \/ save
    BY <1>11 DEF onSave, save, chan, guest
  <1>12. CASE (\E n \in SendSizes, ask \in BOOLEAN : Send(n, ask))
              \/ (\E n \in RecvSizes : onGuestRecv(n)) \/ onGuestRecv_copy
    BY <1>3, <1>12 DEF Send, onGuestRecv, onGuestRecv_copy, chan, snap
  <1>13. CASE SetWakeBit \/ onGuestWantWakeOn \/ setWantedEvents \/ WakeUp \/ waitUntilReady
    BY <1>1, <1>3, <1>13
       DEF SetWakeBit, onGuestWantWakeOn, setWantedEvents, WakeUp, waitUntilReady, chan, snap
  <1>14. CASE Deliver \/ (\E n \in 1 .. MaxWanted : getData(n)) \/ readRaw_copy \/ readRaw_full
              \/ decode \/ doSnapshotOperation \/ snapshotOperation \/ setFinished
    BY <1>2, <1>14 DEF Deliver, getData, readRaw_copy, readRaw_full, decode,
           doSnapshotOperation, snapshotOperation, setFinished, chan, guest, snap
  <1>15. CASE UNCHANGED vars
    BY <1>2, <1>15 DEF vars, chan, guest, snap
  <1> QED BY <1>4, <1>5, <1>6, <1>7, <1>9, <1>10, <1>11, <1>12, <1>13, <1>14, <1>15
          DEF Next, GuestStep, ThreadStep, SaveStep

LEMMA ClosedKept ==
    ASSUME ChannelInv, [Next]_vars
    PROVE  ClosedInv'
  <1>1. ClosedInv /\ QueueOK(mFromGuest) /\ QueueOK(mToGuest) /\ mEventCallback \in BOOLEAN
    BY DEF ChannelInv, TypeOK, ChanOK
  <1>2. CASE stop \/ stopFromHost
    <2>1. closed(mFromGuest).mClosed /\ closed(mToGuest).mClosed
      BY <1>1, CloseKeepsContents
    <2>2. /\ mFromGuest' = closed(mFromGuest) /\ mToGuest' = closed(mToGuest)
          /\ mEventCallback' = FALSE /\ (gpc' = "closed" \/ ctl' = "stopped")
      BY <1>2 DEF stop, stopFromHost, CloseQueues
    <2> QED BY <2>1, <2>2 DEF ClosedInv
  <1>3. CASE ~stop /\ ~stopFromHost
    <2>1. /\ mFromGuest'.mClosed = mFromGuest.mClosed /\ mToGuest'.mClosed = mToGuest.mClosed
          /\ mEventCallback' = mEventCallback
          /\ gpc' = "closed" <=> gpc = "closed"
          /\ ctl' = "stopped" <=> ctl = "stopped"
          /\ mState = StateOf(mFromGuest, mToGuest) => mState' = StateOf(mFromGuest', mToGuest')
      BY <1>3, OnlyStopCloses
    <2>2. StateOf(mFromGuest, mToGuest)' = StateOf(mFromGuest', mToGuest')
      BY DEF StateOf, canPop, canPush, Size
    <2> QED BY <1>1, <2>1, <2>2 DEF ClosedInv
  <1> QED BY <1>2, <1>3

(* Nobody waits on a condition variable for what is there. *)
LEMMA WaitsKept ==
    ASSUME ChannelInv, [Next]_vars
    PROVE  WaitsForReason'
  <1>1. /\ WaitsForReason /\ QueueOK(mFromGuest) /\ QueueOK(mToGuest) /\ sent \in Nat
        /\ gsize \in Nat /\ replied \in Nat /\ ReplyUnits \in Nat /\ gop \in {"read", "write"}
    BY Constants DEF ChannelInv, TypeOK, ChanOK, GuestOK, ThreadOK
  <1>2. /\ Size(mFromGuest) \in Nat /\ mFromGuest.mCount \in 0 .. Size(mFromGuest)
        /\ Size(mToGuest) \in Nat /\ mToGuest.mCount \in 0 .. Size(mToGuest)
    BY <1>1, QueueFacts
  <1> DEFINE Goal ==
        /\ hpc' = "popWait" => popBlocked(mFromGuest')
        /\ hpc' = "pushWait" => pushBlocked(mToGuest')
        /\ gpc' = "blocked" => IF gop' = "read" THEN ~canPop(mToGuest') ELSE ~canPush(mFromGuest')
  <1> SUFFICES Goal
    BY DEF WaitsForReason, popBlocked, pushBlocked, canPop, canPush, Size
  <1>3. CASE /\ UNCHANGED <<mFromGuest, mToGuest, gop>>
             /\ hpc' \in {"popWait", "pushWait"} => hpc' = hpc
             /\ gpc' = "blocked" => gpc = "blocked"
    BY <1>1, <1>3 DEF WaitsForReason
  <1>4. CASE tryWrite
    <2>1. Units(sent, gsize) \in Seq(Nat)
      BY <1>1, UnitsFollow
    <2>2. CASE tryPushResult(mFromGuest) = "Ok"
      <3>1. hpc' = "popWait" => hpc = "popWait" /\ mFromGuest.mCount # 0
        BY <1>4, <2>2 DEF tryWrite, WakeThread, pushWakesPopper
      <3>2. hpc' = "pushWait" => hpc = "pushWait"
        BY <1>4, <2>2 DEF tryWrite, WakeThread
      <3>3. mToGuest' = mToGuest /\ gpc' # "blocked"
        BY <1>4, <2>2 DEF tryWrite, UpdateQuietly, Update
      <3> QED BY <1>1, <3>1, <3>2, <3>3 DEF WaitsForReason, popBlocked
    <2>3. CASE tryPushResult(mFromGuest) # "Ok"
      BY <1>3, <1>4, <2>3 DEF tryWrite, TryAgain, UpdateQuietly, Update
    <2> QED BY <2>2, <2>3
  <1>5. CASE onGuestRecv_tryRead
    <2>1. gpc' # "blocked" /\ mFromGuest' = mFromGuest
      BY <1>5 DEF onGuestRecv_tryRead, TryAgain, UpdateQuietly, Update, chan
    <2>2. hpc' = "popWait" => hpc = "popWait"
      BY <1>5 DEF onGuestRecv_tryRead, WakeThread
    <2>3. hpc' = "pushWait" => hpc = "pushWait" /\ (mToGuest' = mToGuest \/ mToGuest.mCount # Size(mToGuest))
      BY <1>5 DEF onGuestRecv_tryRead, WakeThread, popWakesPusher, UpdateQuietly, Update, chan
    <2> QED BY <1>1, <2>1, <2>2, <2>3 DEF WaitsForReason, pushBlocked
  <1>6. CASE readFromGuest
    <2>1. CASE blocking /\ popBlocked(mFromGuest) /\ hpc' = "popWait" /\ UNCHANGED <<chan, gpc>>
      BY <1>1, <1>6, <2>1 DEF readFromGuest, chan, guestRest, WaitsForReason
    <2>2. CASE /\ tryPopResult(mFromGuest) = "Ok" /\ UpdateAndNotify(tryPopped(mFromGuest), mToGuest)
               /\ WakeGuest(popWakesPusher(mFromGuest), "write") /\ UNCHANGED hpc
      <3>1. hpc' = "readRaw" /\ mToGuest' = mToGuest /\ mFromGuest' = tryPopped(mFromGuest) /\ gop' = gop
        BY <1>6, <2>2 DEF readFromGuest, UpdateAndNotify, Update, guestRest
      <3>2. mFromGuest'.mClosed = mFromGuest.mClosed
        BY <1>1, <2>2, <3>1, PopOk, PopTakesOldest
      <3>3. gpc' = "blocked" => gpc = "blocked" /\ (gop = "write" => mFromGuest.mCount # Size(mFromGuest))
        BY <1>1, <2>2 DEF WakeGuest, popWakesPusher
      <3>4. gpc' = "blocked" => IF gop' = "read" THEN ~canPop(mToGuest') ELSE ~canPush(mFromGuest')
        BY <1>1, <1>2, <3>1, <3>2, <3>3 DEF WaitsForReason, canPush
      <3> QED BY <3>1, <3>4
    <2>3. CASE UpdateAndNotify(mFromGuest, mToGuest) /\ hpc' \in {"top", "ended"} /\ UNCHANGED gpc
      BY <1>3, <1>6, <2>3 DEF readFromGuest, UpdateAndNotify, Update, guestRest
    <2> QED BY <1>6, <2>1, <2>2, <2>3 DEF readFromGuest, readRaw_return
  <1>7. CASE writeToGuest
    <2>1. Units(replied, ReplyUnits) \in Seq(Nat)
      BY <1>1, UnitsFollow
    <2>2. CASE pushBlocked(mToGuest) /\ hpc' = "pushWait" /\ UNCHANGED <<chan, gpc>>
      BY <1>1, <1>7, <2>2 DEF writeToGuest, chan, guestRest, WaitsForReason
    <2>3. CASE /\ UpdateAndNotify(mFromGuest, tryPushed(mToGuest, Units(replied, ReplyUnits)))
               /\ WakeGuest(pushWakesPopper(mToGuest), "read") /\ hpc' \in {"top", "push"}
      <3>1. mFromGuest' = mFromGuest /\ gop' = gop
        BY <1>7, <2>3 DEF writeToGuest, UpdateAndNotify, Update, guestRest
      <3>2. gpc' = "blocked" => gpc = "blocked" /\ (gop = "read" => mToGuest.mCount # 0)
        BY <1>1, <2>3 DEF WakeGuest, pushWakesPopper
      <3>3. gpc' = "blocked" => IF gop' = "read" THEN ~canPop(mToGuest') ELSE ~canPush(mFromGuest')
        BY <1>1, <1>2, <3>1, <3>2 DEF WaitsForReason, canPop
      <3> QED BY <2>3, <3>3
    <2>4. CASE UpdateAndNotify(mFromGuest, mToGuest) /\ hpc' \in {"top", "push"} /\ UNCHANGED gpc
      BY <1>3, <1>7, <2>4 DEF writeToGuest, UpdateAndNotify, Update, guestRest
    <2> QED BY <1>7, <2>2, <2>3, <2>4 DEF writeToGuest
  <1>8. CASE stop \/ stopFromHost
    <2>1. /\ mFromGuest' = closed(mFromGuest) /\ mToGuest' = closed(mToGuest) /\ gop' = gop
          /\ gpc' = "blocked" => gpc = "blocked"
      BY <1>8 DEF stop, stopFromHost, CloseQueues, guestRest
    <2>2. hpc' # "popWait"
      BY <1>1, <1>8 DEF stop, stopFromHost, CloseQueues, wakeAllWakesPopper, wakeAllWakesPusher,
                        WaitsForReason, popBlocked
    <2>3. hpc' # "pushWait"
      BY <1>1, <1>8 DEF stop, stopFromHost, CloseQueues, wakeAllWakesPopper, wakeAllWakesPusher,
                        WaitsForReason, pushBlocked
    <2>4. mFromGuest'.mClosed /\ mToGuest'.mCount = mToGuest.mCount
      BY <1>1, <2>1, CloseKeepsContents
    <2> QED BY <1>1, <2>1, <2>2, <2>3, <2>4 DEF WaitsForReason, canPop, canPush
  <1>9. ASSUME NEW on \in BOOLEAN, mFromGuest' = setSnapshotMode(mFromGuest, on),
               mToGuest' = setSnapshotMode(mToGuest, on), gpc' = gpc, gop' = gop,
               hpc' \in {"popWait", "pushWait"} => hpc' = hpc /\ ~on
        PROVE  Goal
    <2>1. /\ mFromGuest'.mClosed = mFromGuest.mClosed /\ mFromGuest'.mCount = mFromGuest.mCount
          /\ Size(mFromGuest') = Size(mFromGuest)
      BY <1>1, <1>9, ModeKeepsContents
    <2>2. mFromGuest'.mSnapshotMode = on
      BY <1>1, <1>9, ModeKeepsContents
    <2>3. /\ mToGuest'.mClosed = mToGuest.mClosed /\ mToGuest'.mCount = mToGuest.mCount
          /\ Size(mToGuest') = Size(mToGuest)
      BY <1>1, <1>9, ModeKeepsContents
    <2>4. mToGuest'.mSnapshotMode = on
      BY <1>1, <1>9, ModeKeepsContents
    <2>5. hpc' = "popWait" => popBlocked(mFromGuest')
      BY <1>1, <1>9, <2>1, <2>2 DEF WaitsForReason, popBlocked
    <2>6. hpc' = "pushWait" => pushBlocked(mToGuest')
      BY <1>1, <1>9, <2>3, <2>4 DEF WaitsForReason, pushBlocked
    <2>7. gpc' = "blocked" => IF gop' = "read" THEN ~canPop(mToGuest') ELSE ~canPush(mFromGuest')
      BY <1>1, <1>9, <2>1, <2>3 DEF WaitsForReason, canPop, canPush
    <2> QED BY <2>5, <2>6, <2>7
  <1>10. CASE pausePreSnapshot
    <2>1. hpc' \notin {"popWait", "pushWait"}
      BY <1>1, <1>10 DEF pausePreSnapshot, snapshotWakes, wakeAllWakesPopper, wakeAllWakesPusher,
                         WaitsForReason, popBlocked, pushBlocked
    <2> QED BY <1>9, <1>10, <2>1 DEF pausePreSnapshot, guest, guestRest
  <1>11. CASE resume
    BY <1>9, <1>11 DEF resume, guest, guestRest, thread
  <1>12. CASE waitUntilReady
    BY <1>1, <1>12 DEF waitUntilReady, WaitsForReason, chan, guestRest, thread
  <1>13. CASE (\E n \in SendSizes, ask \in BOOLEAN : Send(n, ask))
              \/ (\E n \in RecvSizes : onGuestRecv(n)) \/ onGuestRecv_copy
    <2>1. UNCHANGED <<mFromGuest, mToGuest, hpc>> /\ gpc' # "blocked"
      BY <1>13 DEF Send, onGuestRecv, onGuestRecv_copy, chan, thread
    <2> QED BY <1>1, <2>1 DEF WaitsForReason
  <1>14. CASE SetWakeBit \/ onGuestWantWakeOn \/ setWantedEvents \/ WakeUp \/ Deliver
    BY <1>1, <1>3, <1>14
       DEF SetWakeBit, onGuestWantWakeOn, setWantedEvents, WakeUp, Deliver, chan, guestRest, thread
  <1>15. CASE (\E n \in 1 .. MaxWanted : getData(n)) \/ readRaw_copy \/ readRaw_full \/ decode
              \/ doSnapshotOperation \/ snapshotOperation \/ setFinished \/ onSave \/ save
    BY <1>3, <1>15 DEF getData, readRaw_copy, readRaw_full, readRaw_return, decode,
           doSnapshotOperation, snapshotOperation, setFinished, onSave, save, chan, guest, guestRest, thread
  <1>16. CASE UNCHANGED vars
    BY <1>3, <1>16 DEF vars, chan, guest, guestRest, thread
  <1> QED BY <1>4, <1>5, <1>6, <1>7, <1>8, <1>10, <1>11, <1>12, <1>13, <1>14, <1>15, <1>16
          DEF Next, GuestStep, ThreadStep, SaveStep

(* A guest that sleeps will hear of what it waits for. *)
LEMMA WakeKept ==
    ASSUME ChannelInv, [Next]_vars
    PROVE  WakeInv'
  <1> DEFINE Stopped == ctl = "stopped" /\ gpc # "closed" => gclosed \/ "Closed" \in wake
             Asleep == gpc = "sleep" /\ Event \in gwait =>
                          \/ gclosed \/ wake \cap {Event, "Closed"} # {}
                          \/ Event \in mWantedEvents \ mState
  <1>1. /\ Stopped /\ Asleep /\ ClosedInv /\ GuestInv /\ gop \in {"read", "write"}
        /\ gpc # "closed" /\ ctl # "stopped" => mEventCallback
    BY DEF ChannelInv, TypeOK, GuestOK, WakeInv, ClosedInv
  <1> SUFFICES Stopped' /\ Asleep'
    BY DEF WakeInv
  <1>2. CASE UNCHANGED <<mState, mWantedEvents, wake, gpc, gop, gclosed, gwait>>
             /\ (ctl' = "stopped" => ctl = "stopped")
    BY <1>1, <1>2 DEF Event
  <1>3. CASE UNCHANGED <<wake, gclosed>> /\ gpc' # "sleep" /\ (ctl' = "stopped" => ctl = "stopped")
             /\ (gpc = "closed" => gpc' = "closed")
    BY <1>1, <1>3
  <1>4. ASSUME NEW st, NEW w,
               mWantedEvents' = IF st \cap (w \cup {"Stopped"}) = {} THEN w ELSE w \ st,
               wake' = IF ~mEventCallback THEN wake
                       ELSE IF "Stopped" \in st \cap (w \cup {"Stopped"}) THEN wake \cup {"Closed"}
                       ELSE wake \cup (st \cap (w \cup {"Stopped"}))
        PROVE  /\ wake \subseteq wake'
               /\ mEventCallback /\ Event \in w /\ Event \in st => wake' \cap {Event, "Closed"} # {}
               /\ Event \in w /\ Event \notin st => Event \in mWantedEvents'
               /\ mEventCallback /\ "Stopped" \in st => "Closed" \in wake'
    <2> HIDE DEF Event
    <2> QED BY <1>4
  <1>5. ASSUME NEW st, NEW w, mWantedEvents \subseteq w, mState' = st,
               mWantedEvents' = IF st \cap (w \cup {"Stopped"}) = {} THEN w ELSE w \ st,
               wake' = IF ~mEventCallback THEN wake
                       ELSE IF "Stopped" \in st \cap (w \cup {"Stopped"}) THEN wake \cup {"Closed"}
                       ELSE wake \cup (st \cap (w \cup {"Stopped"})),
               UNCHANGED <<gop, gclosed, gwait>>, ctl' = ctl,
               gpc' = gpc \/ (gpc = "blocked" /\ gpc' = gop) \/ (gpc' = "sleep" /\ gpc # "closed" /\ Event \in w)
        PROVE  Stopped' /\ Asleep'
    <2>1. /\ wake \subseteq wake'
          /\ mEventCallback /\ Event \in w /\ Event \in st => wake' \cap {Event, "Closed"} # {}
          /\ Event \in w /\ Event \notin st => Event \in mWantedEvents'
      BY <1>4, <1>5
    <2>2. Event' = Event
      BY <1>5 DEF Event
    <2>3. Stopped'
      BY <1>1, <1>5, <2>1
    <2>4. Asleep'
      <3> SUFFICES ASSUME gpc' = "sleep", Event \in gwait, ~gclosed, wake' \cap {Event, "Closed"} = {}
                   PROVE  Event \in mWantedEvents' \ mState'
        BY <1>5, <2>2
      <3>1. mEventCallback
        BY <1>1, <1>5, <2>1
      <3>2. Event \in w
        BY <1>1, <1>5, <2>1
      <3> QED BY <1>5, <2>1, <3>1, <3>2
    <2> QED BY <2>3, <2>4
  <1>6. CASE onGuestWantWakeOn
    <2>1. Event' = Event /\ UNCHANGED <<gwait, gclosed, ctl>> /\ wake \subseteq wake' /\ gpc # "closed"
      BY <1>6 DEF onGuestWantWakeOn, guestRest, snap, Event
    <2>2. gpc' = "sleep" => gclosed \/ Event \in wake'
      BY <1>6 DEF onGuestWantWakeOn
    <2> QED BY <1>1, <2>1, <2>2
  <1>7. CASE setWantedEvents
    <2> DEFINE w == mWantedEvents \cup {Event}
    <2>1. mWantedEvents \subseteq w /\ Event \in w /\ mState' = mState
      BY <1>7 DEF setWantedEvents
    <2>2. /\ mWantedEvents' = IF mState \cap (w \cup {"Stopped"}) = {} THEN w ELSE w \ mState
          /\ wake' = IF ~mEventCallback THEN wake
                     ELSE IF "Stopped" \in mState \cap (w \cup {"Stopped"}) THEN wake \cup {"Closed"}
                     ELSE wake \cup (mState \cap (w \cup {"Stopped"}))
      BY <1>7 DEF setWantedEvents, notifyStateChange
    <2>3. UNCHANGED <<gop, gclosed, gwait>> /\ ctl' = ctl /\ gpc' = "sleep" /\ gpc # "closed"
      BY <1>7 DEF setWantedEvents, guestRest, snap
    <2> HIDE DEF w
    <2> QED BY <1>5, <2>1, <2>2, <2>3
  <1>8. ASSUME NEW from, NEW to, UpdateAndNotify(from, to), UNCHANGED guestRest, ctl' = ctl,
               gpc' = gpc \/ (gpc = "blocked" /\ gpc' = gop)
        PROVE  Stopped' /\ Asleep'
    <2>1. /\ mState' = StateOf(from, to)
          /\ mWantedEvents' = IF StateOf(from, to) \cap (mWantedEvents \cup {"Stopped"}) = {}
                              THEN mWantedEvents ELSE mWantedEvents \ StateOf(from, to)
          /\ wake' = IF ~mEventCallback THEN wake
                     ELSE IF "Stopped" \in StateOf(from, to) \cap (mWantedEvents \cup {"Stopped"})
                          THEN wake \cup {"Closed"}
                     ELSE wake \cup (StateOf(from, to) \cap (mWantedEvents \cup {"Stopped"}))
      BY <1>8 DEF UpdateAndNotify, Update, notifyStateChange
    <2>2. UNCHANGED <<gop, gclosed, gwait>> /\ mWantedEvents \subseteq mWantedEvents
      BY <1>8 DEF guestRest
    <2> QED BY <1>5, <1>8, <2>1, <2>2
  <1>9. CASE readFromGuest
    <2>1. CASE UNCHANGED <<chan, gpc>>
      BY <1>2, <1>9, <2>1 DEF readFromGuest, chan, guestRest, snap
    <2>2. CASE \E from, to : UpdateAndNotify(from, to)
      BY <1>8, <1>9, <2>2 DEF readFromGuest, WakeGuest, chan, snap
    <2> QED BY <1>9, <2>1, <2>2 DEF readFromGuest
  <1>10. CASE writeToGuest
    <2>1. CASE UNCHANGED <<chan, gpc>>
      BY <1>2, <1>10, <2>1 DEF writeToGuest, chan, guestRest, snap
    <2>2. CASE \E from, to : UpdateAndNotify(from, to)
      BY <1>8, <1>10, <2>2 DEF writeToGuest, WakeGuest, chan, snap
    <2> QED BY <1>10, <2>1, <2>2 DEF writeToGuest
  <1>11. CASE stopFromHost
    <2>1. /\ mWantedEvents' = IF mState' \cap (mWantedEvents \cup {"Stopped"}) = {}
                              THEN mWantedEvents ELSE mWantedEvents \ mState'
          /\ wake' = IF ~mEventCallback THEN wake
                     ELSE IF "Stopped" \in mState' \cap (mWantedEvents \cup {"Stopped"})
                          THEN wake \cup {"Closed"}
                     ELSE wake \cup (mState' \cap (mWantedEvents \cup {"Stopped"}))
          /\ "Stopped" \in mState'
      BY <1>11 DEF stopFromHost, notifyStateChange
    <2>2. mEventCallback => "Closed" \in wake'
      BY <2>1
    <2>3. gpc' # "closed" => mEventCallback
      BY <1>1, <1>11 DEF stopFromHost
    <2>4. gpc' # "closed" => "Closed" \in wake'
      BY <2>2, <2>3
    <2> QED BY <2>4
  <1>12. CASE stop
    BY <1>12 DEF stop
  <1>13. CASE Deliver
    <2>1. /\ UNCHANGED <<mState, mWantedEvents, gpc, gop, ctl>> /\ Event' = Event
          /\ gwait' \subseteq gwait \ wake /\ gclosed' = (gclosed \/ "Closed" \in wake)
      BY <1>13 DEF Deliver, snap, Event
    <2> QED BY <1>1, <2>1
  <1>14. CASE tryWrite
    BY <1>3, <1>14 DEF tryWrite, TryAgain, UpdateQuietly, snap
  <1>15. CASE onGuestRecv_tryRead
    BY <1>3, <1>15 DEF onGuestRecv_tryRead, TryAgain, UpdateQuietly, chan, snap
  <1>16. CASE (\E n \in SendSizes, ask \in BOOLEAN : Send(n, ask))
              \/ (\E n \in RecvSizes : onGuestRecv(n)) \/ onGuestRecv_copy
    BY <1>3, <1>16 DEF Send, onGuestRecv, onGuestRecv_copy, chan, snap
  <1>17. CASE SetWakeBit \/ WakeUp \/ waitUntilReady
    BY <1>1, <1>3, <1>17 DEF SetWakeBit, WakeUp, waitUntilReady, chan, guestRest, snap
  <1>18. CASE (\E n \in 1 .. MaxWanted : getData(n)) \/ readRaw_copy \/ readRaw_full \/ decode
              \/ doSnapshotOperation \/ snapshotOperation \/ setFinished
    BY <1>2, <1>18 DEF getData, readRaw_copy, readRaw_full, decode, doSnapshotOperation,
           snapshotOperation, setFinished, chan, guest, guestRest, snap
  <1>19. CASE pausePreSnapshot \/ onSave \/ save \/ resume
    BY <1>2, <1>19 DEF pausePreSnapshot, onSave, save, resume, chan, guest, guestRest
  <1>20. CASE UNCHANGED vars
    BY <1>2, <1>20 DEF vars, chan, guest, guestRest, snap
  <1> QED BY <1>6, <1>7, <1>9, <1>10, <1>11, <1>12, <1>13, <1>14, <1>15, <1>16, <1>17, <1>18, <1>19, <1>20
          DEF Next, GuestStep, ThreadStep, SaveStep
-----------------------------------------------------------------------------
(* The stream of commands. *)

(* The queue q holds the units after the first t, up to s. *)
InQueue(q, t, s) ==
    /\ Consecutive(Contents(q), t, s) /\ t <= s
    /\ \A k \in 1 .. s : k <= t \/ Holds(Contents(q), k)
    /\ \A b \in 1 .. q.mCount : Last(Contents(q)[b]) <= s

LEMMA InQueuePush ==
    ASSUME NEW q, QueueOK(q), NEW t \in Nat, NEW s \in Nat, InQueue(q, t, s), NEW n \in Nat, n > 0
    PROVE  InQueue(tryPushed(q, Units(s, n)), t, s + n)
  <1> DEFINE b == Units(s, n)
             r == tryPushed(q, b)
             old == Contents(q)
             new == Contents(r)
  <1>1. b \in Seq(Nat) /\ Len(b) = n /\ Following(b, s) /\ b # <<>>
    BY UnitsFollow, EmptyIs
  <1> HIDE DEF b
  <1>2. r.mCount = q.mCount + 1 /\ new = Append(old, b)
    BY <1>1, PushAppends
  <1>3. old \in Seq(Seq(Nat)) /\ Len(old) = q.mCount /\ q.mCount \in Nat
    BY ContentsFacts, QueueFacts
  <1> HIDE DEF r, old, new
  <1>4. Consecutive(new, t, s + n)
    BY <1>1, <1>2, <1>3, ConsecutiveAppend DEF InQueue, old
  <1>5. ASSUME NEW k \in 1 .. (s + n), k > t PROVE Holds(new, k)
    <2>1. CASE k <= s
      <3>1. Holds(old, k)
        BY <1>5, <2>1 DEF InQueue, old
      <3> QED BY <1>1, <1>2, <1>3, <3>1, HoldsAppend
    <2>2. CASE k > s
      <3>1. k - s \in 1 .. Len(b) /\ b[k - s] = k
        BY <1>1, <2>2 DEF Following
      <3>2. k \in Nat /\ \E j \in 1 .. Len(b) : b[j] = k
        BY <3>1
      <3> QED BY <1>1, <1>2, <1>3, <3>2, HoldsAppend
    <2> QED BY <2>1, <2>2
  <1>6. ASSUME NEW i \in 1 .. (q.mCount + 1) PROVE Last(new[i]) <= s + n
    <2>1. CASE i \in 1 .. q.mCount
      <3>1. old[i] \in Seq(Nat) /\ new[i] = old[i] /\ Last(old[i]) <= s
        BY <1>1, <1>2, <1>3, <2>1, AppendProperties DEF InQueue, old
      <3>2. old[i] # <<>>
        BY <1>3, <2>1 DEF InQueue, old, Consecutive
      <3>3. Last(old[i]) \in Nat
        BY <3>1, <3>2 DEF Last
      <3> QED BY <3>1, <3>3
    <2>2. CASE i = q.mCount + 1
      <3>1. new[i] = b
        BY <1>1, <1>2, <1>3, <2>2, AppendProperties
      <3>2. Last(b) = s + n
        BY <1>1, LastFollows
      <3> QED BY <3>1, <3>2
    <2> QED BY <1>3, <2>1, <2>2
  <1>7. t <= s + n
    BY DEF InQueue
  <1>8. \A k \in 1 .. (s + n) : k <= t \/ Holds(new, k)
    BY <1>5
  <1>9. \A i \in 1 .. r.mCount : Last(new[i]) <= s + n
    BY <1>2, <1>6
  <1>10. InQueue(r, t, s + n)
    BY <1>4, <1>7, <1>8, <1>9 DEF InQueue, new
  <1> QED BY <1>10 DEF r, b

LEMMA InQueuePop ==
    ASSUME NEW q, QueueOK(q), NEW t \in Nat, NEW s \in Nat, InQueue(q, t, s), q.mCount > 0
    PROVE  /\ Oldest(q) \in Seq(Nat) /\ Following(Oldest(q), t)
           /\ InQueue(tryPopped(q), t + Len(Oldest(q)), s)
  <1> DEFINE b == Oldest(q)
             r == tryPopped(q)
             old == Contents(q)
             new == Contents(r)
  <1>1. r.mCount = q.mCount - 1 /\ new = Tail(old) /\ b = old[1]
    BY PopTakesOldest
  <1>2. old \in Seq(Seq(Nat)) /\ Len(old) = q.mCount /\ q.mCount \in Nat /\ old # <<>>
    BY ContentsFacts, QueueFacts
  <1> HIDE DEF r, old, new, b
  <1>3. /\ b \in Seq(Nat) /\ b # <<>> /\ Following(b, t) /\ Last(b) = t + Len(b)
        /\ Consecutive(new, t + Len(b), s)
    BY <1>1, <1>2, ConsecutiveTail DEF InQueue, old
  <1>4. t + Len(b) <= s
    <2>1. 1 \in 1 .. q.mCount
      BY <1>2
    <2>2. Last(old[1]) <= s
      BY <2>1 DEF InQueue, old
    <2> QED BY <1>1, <1>3, <2>2
  <1>5. ASSUME NEW k \in 1 .. s, k > t + Len(b) PROVE Holds(new, k)
    <2>1. Holds(old, k)
      <3>1. k > t
        BY <1>3, <1>5
      <3> QED BY <3>1 DEF InQueue, old
    <2>2. ASSUME NEW j \in 1 .. Len(b), b[j] = k PROVE FALSE
      <3>1. k = t + j
        BY <1>3, <2>2 DEF Following
      <3> QED BY <1>3, <1>5, <3>1
    <2>3. k \in Nat
      OBVIOUS
    <2>4. Holds(Tail(old), k) \/ \E j \in 1 .. Len(old[1]) : old[1][j] = k
      BY <1>2, <2>1, <2>3, HoldsTail
    <2> QED BY <1>1, <2>2, <2>4
  <1>6. ASSUME NEW i \in 1 .. (q.mCount - 1) PROVE Last(new[i]) <= s
    <2>1. i + 1 \in 1 .. q.mCount /\ new[i] = old[i + 1]
      <3>1. Len(Tail(old)) = q.mCount - 1 /\ \A j \in 1 .. Len(Tail(old)) : Tail(old)[j] = old[j + 1]
        BY <1>2, HeadTailProperties
      <3>2. i + 1 \in 1 .. q.mCount /\ i \in 1 .. Len(Tail(old))
        BY <1>2, <3>1
      <3> QED BY <1>1, <3>1, <3>2
    <2> QED BY <2>1 DEF InQueue, old
  <1>7. InQueue(r, t + Len(b), s)
    <2>1. \A k \in 1 .. s : k <= t + Len(b) \/ Holds(new, k)
      BY <1>3, <1>5
    <2>2. \A i \in 1 .. r.mCount : Last(new[i]) <= s
      BY <1>1, <1>6
    <2> QED BY <1>3, <1>4, <2>1, <2>2 DEF InQueue, new
  <1> QED BY <1>3, <1>7 DEF r, b

(* No step loses, repeats or reorders a unit of the stream. *)
LEMMA StreamKept ==
    ASSUME ChannelInv, [Next]_vars
    PROVE  StreamExact' /\ QueueInv' /\ Taken' \in Nat /\ Taken' >= Taken
  <1> DEFINE Held(e, buf, got, rest) == /\ Following(buf, e) /\ Following(got, e + Len(buf))
                                        /\ Following(rest, e + Len(buf) + Len(got))
             taken == executed + Len(readBuf) + Len(hgot) + Len(mReadBuffer)
             takenNext == executed' + Len(readBuf') + Len(hgot') + Len(mReadBuffer')
             Goal == /\ Held(executed', readBuf', hgot', mReadBuffer')
                     /\ InQueue(mFromGuest', takenNext, sent')
                     /\ takenNext \in Nat /\ takenNext >= taken
  <1>1. /\ QueueOK(mFromGuest) /\ sent \in Nat /\ gsize \in Nat /\ executed \in Nat /\ hwanted \in Nat
        /\ readBuf \in Seq(Nat) /\ hgot \in Seq(Nat) /\ mReadBuffer \in Seq(Nat) /\ ThreadInv
    BY Constants DEF ChannelInv, TypeOK, ChanOK, GuestOK, ThreadOK
  <1>2. /\ Held(executed, readBuf, hgot, mReadBuffer) /\ InQueue(mFromGuest, taken, sent)
        /\ taken \in Nat
    BY <1>1 DEF ChannelInv, StreamExact, QueueInv, Taken, InQueue
  <1> SUFFICES Goal
    BY DEF StreamExact, QueueInv, Taken, InQueue
  <1>3. CASE UNCHANGED <<mFromGuest, sent, threadRest>>
    BY <1>2, <1>3 DEF threadRest
  <1>4. CASE tryWrite
    <2>1. UNCHANGED threadRest
      BY <1>4 DEF tryWrite
    <2>2. CASE tryPushResult(mFromGuest) = "Ok"
      <3>1. mFromGuest' = tryPushed(mFromGuest, Units(sent, gsize)) /\ sent' = sent + gsize
        BY <1>4, <2>2 DEF tryWrite, UpdateQuietly, Update
      <3>2. gsize > 0
        BY <1>4 DEF tryWrite, ChannelInv, GuestInv
      <3>3. InQueue(mFromGuest', taken, sent')
        BY <1>1, <1>2, <3>1, <3>2, InQueuePush
      <3> QED BY <1>2, <2>1, <3>3 DEF threadRest
    <2>3. CASE tryPushResult(mFromGuest) # "Ok"
      BY <1>3, <1>4, <2>1, <2>3 DEF tryWrite, UpdateQuietly, Update
    <2> QED BY <2>2, <2>3
  <1>5. ASSUME UNCHANGED threadRest, UNCHANGED sent, QueueOK(mFromGuest'),
               Contents(mFromGuest') = Contents(mFromGuest), mFromGuest'.mCount = mFromGuest.mCount
        PROVE  Goal
    BY <1>2, <1>5 DEF threadRest, InQueue
  <1>6. CASE stop \/ stopFromHost
    <2>1. mFromGuest' = closed(mFromGuest) /\ UNCHANGED threadRest /\ UNCHANGED sent
      BY <1>6 DEF stop, stopFromHost, CloseQueues, guestRest
    <2> QED BY <1>1, <1>5, <2>1, CloseKeepsContents
  <1>7. CASE pausePreSnapshot \/ resume
    <2>1. PICK on \in BOOLEAN : mFromGuest' = setSnapshotMode(mFromGuest, on)
      BY <1>7 DEF pausePreSnapshot, resume
    <2>2. UNCHANGED threadRest /\ UNCHANGED sent
      BY <1>7 DEF pausePreSnapshot, resume, guest, guestRest, thread
    <2> QED BY <1>1, <1>5, <2>1, <2>2, ModeKeepsContents
  <1>8. ASSUME NEW n \in 1 .. MaxWanted, getData(n) PROVE Goal
    <2>1. UNCHANGED <<executed, readBuf, hgot, mReadBuffer, mFromGuest, sent>>
      BY <1>1, <1>8 DEF getData, ThreadInv, chan, guest, guestRest
    <2> QED BY <1>2, <2>1
  <1>9. CASE readRaw_copy
    <2> DEFINE avail == Min({hwanted - Len(hgot), Len(mReadBuffer)})
               first == SubSeq(mReadBuffer, 1, avail)
               rest == Drop(mReadBuffer, avail)
               e == executed + Len(readBuf)
    <2>1. avail \in 0 .. Len(mReadBuffer)
      <3>1. hwanted \in Nat /\ Len(hgot) \in Nat /\ Len(hgot) < hwanted /\ Len(mReadBuffer) \in Nat
        BY <1>1, <1>9 DEF readRaw_copy
      <3>2. PICK a \in Nat : a = hwanted - Len(hgot)
        BY <3>1
      <3> QED BY <3>1, <3>2, MinOf
    <2>2. /\ hgot' = hgot \o first /\ mReadBuffer' = rest
          /\ UNCHANGED <<executed, readBuf, mFromGuest, sent>>
      BY <1>9 DEF readRaw_copy, chan, guest, guestRest
    <2> HIDE DEF avail
    <2>3. e \in Nat /\ e + Len(hgot) \in Nat /\ Following(hgot, e) /\ Following(mReadBuffer, e + Len(hgot))
      BY <1>1, <1>2
    <2> HIDE DEF e
    <2>4. /\ first \in Seq(Nat) /\ Len(first) = avail /\ Following(first, e + Len(hgot))
          /\ rest \in Seq(Nat) /\ Len(rest) = Len(mReadBuffer) - avail
          /\ Following(rest, e + Len(hgot) + avail)
      BY <1>1, <2>1, <2>3, FollowingSplit
    <2> HIDE DEF first, rest
    <2>5. /\ hgot \o first \in Seq(Nat) /\ Len(hgot \o first) = Len(hgot) + Len(first)
          /\ Following(hgot \o first, e)
      BY <1>1, <2>3, <2>4, FollowingConcat
    <2>6. Len(hgot') = Len(hgot) + avail /\ Len(mReadBuffer') = Len(mReadBuffer) - avail
      BY <2>2, <2>4, <2>5
    <2>7. takenNext = taken /\ e + Len(hgot') = e + Len(hgot) + avail
      BY <1>1, <2>1, <2>2, <2>3, <2>6
    <2>8. Held(executed', readBuf', hgot', mReadBuffer')
      BY <1>2, <2>2, <2>4, <2>5, <2>7 DEF e
    <2> QED BY <1>2, <2>2, <2>7, <2>8
  <1>10. ASSUME readRaw_return, hpc = "readRaw", hgot # <<>>, UNCHANGED <<mFromGuest, sent, mReadBuffer>>
         PROVE  Goal
    <2>1. hgot' = <<>> /\ Len(hgot') = 0 /\ Len(hgot) \in Nat /\ Len(hgot) > 0
      BY <1>1, <1>10, EmptyIs, EmptyFollows DEF readRaw_return
    <2>2. CASE started
      <3>1. readBuf' = readBuf \o hgot /\ executed' = executed
        BY <1>10, <2>2 DEF readRaw_return
      <3>2. readBuf' \in Seq(Nat) /\ Len(readBuf') = Len(readBuf) + Len(hgot) /\ Following(readBuf', executed)
        BY <1>1, <1>2, <3>1, FollowingConcat
      <3>3. takenNext = taken /\ executed' + Len(readBuf') + Len(hgot') = executed + Len(readBuf) + Len(hgot)
        BY <1>1, <1>10, <2>1, <3>1, <3>2
      <3>4. Following(hgot', executed' + Len(readBuf'))
        BY <1>1, <2>1, <3>1, <3>2, EmptyFollows
      <3> QED BY <1>2, <1>10, <3>1, <3>2, <3>3, <3>4
    <2>3. CASE ~started
      <3>1. Len(hgot) = 1 /\ executed = 0 /\ readBuf = <<>> /\ Len(readBuf) = 0
        <4>1. executed = 0 /\ readBuf = <<>>
          BY <1>1, <1>10, <2>3 DEF ThreadInv
        <4>2. Len(readBuf) = 0
          BY <1>1, <4>1, EmptyIs
        <4>3. Len(hgot) = 1
          <5>1. PICK n \in Nat : n = Len(hgot) /\ n > 0
            BY <2>1
          <5>2. n <= 1
            BY <1>1, <1>10, <2>3, <5>1 DEF ThreadInv
          <5> QED BY <5>1, <5>2
        <4> QED BY <4>1, <4>2, <4>3
      <3>2. executed' = 1 /\ readBuf' = <<>> /\ Len(readBuf') = 0
        BY <1>10, <2>3, <3>1 DEF readRaw_return
      <3>3. takenNext = taken /\ executed' + Len(readBuf') + Len(hgot') = executed + Len(readBuf) + Len(hgot)
        BY <1>1, <1>10, <2>1, <3>1, <3>2
      <3>4. Following(hgot', executed' + Len(readBuf')) /\ Following(readBuf', executed')
        BY <2>1, <3>2, EmptyFollows
      <3> QED BY <1>2, <1>10, <3>3, <3>4
    <2> QED BY <2>2, <2>3
  <1>11. CASE readRaw_full
    <2>1. hgot # <<>>
      BY <1>1, <1>11, EmptyIs DEF readRaw_full, ThreadInv
    <2> QED BY <1>10, <1>11, <2>1 DEF readRaw_full, chan, guest, guestRest
  <1>12. CASE readFromGuest
    <2>1. CASE UNCHANGED <<mFromGuest, executed, readBuf, hgot, mReadBuffer>>
      BY <1>2, <1>12, <2>1 DEF readFromGuest, guestRest
    <2>2. CASE /\ tryPopResult(mFromGuest) = "Ok" /\ mReadBuffer' = Oldest(mFromGuest)
               /\ mFromGuest' = tryPopped(mFromGuest) /\ UNCHANGED <<executed, readBuf, hgot>>
      <3>1. mFromGuest.mCount > 0
        BY <1>1, <2>2, PopOk
      <3>2. /\ mReadBuffer' \in Seq(Nat) /\ Following(mReadBuffer', taken)
            /\ InQueue(mFromGuest', taken + Len(mReadBuffer'), sent)
        BY <1>1, <1>2, <2>2, <3>1, InQueuePop
      <3>3. Len(mReadBuffer) = 0 /\ sent' = sent
        BY <1>12, EmptyFollows DEF readFromGuest, guestRest
      <3>4. taken = executed + Len(readBuf) + Len(hgot) /\ takenNext = taken + Len(mReadBuffer')
            /\ takenNext \in Nat /\ takenNext >= taken
        BY <1>1, <2>2, <3>2, <3>3
      <3> QED BY <1>2, <2>2, <3>2, <3>3, <3>4
    <2>3. CASE hgot # <<>> /\ readRaw_return /\ UNCHANGED <<mFromGuest, mReadBuffer>>
      BY <1>10, <1>12, <2>3 DEF readFromGuest, guestRest
    <2> QED BY <1>12, <2>1, <2>2, <2>3 DEF readFromGuest, UpdateAndNotify, Update, chan
  <1>13. CASE decode
    <2>1. /\ readBuf' = Drop(readBuf, PacketSize) /\ executed' = executed + PacketSize
          /\ UNCHANGED <<mFromGuest, sent, hgot, mReadBuffer>> /\ PacketSize \in 0 .. Len(readBuf)
      BY <1>1, <1>13, Constants DEF decode, chan, guest, guestRest
    <2>2. Len(readBuf') = Len(readBuf) - PacketSize /\ Following(readBuf', executed')
      BY <1>1, <1>2, <2>1, FollowingSplit
    <2>3. takenNext = taken /\ executed' + Len(readBuf') = executed + Len(readBuf)
      BY <1>1, <2>1, <2>2
    <2> QED BY <1>2, <2>1, <2>2, <2>3
  <1>14. CASE writeToGuest
    <2>1. UNCHANGED <<mFromGuest, sent, executed, readBuf, hgot, mReadBuffer>>
      BY <1>14 DEF writeToGuest, UpdateAndNotify, Update, chan, guestRest
    <2> QED BY <1>2, <2>1
  <1>15. CASE onGuestRecv_tryRead
    BY <1>3, <1>15 DEF onGuestRecv_tryRead, UpdateQuietly, Update, chan
  <1>16. CASE (\E n \in SendSizes, ask \in BOOLEAN : Send(n, ask))
              \/ (\E n \in RecvSizes : onGuestRecv(n)) \/ onGuestRecv_copy
    BY <1>3, <1>16 DEF Send, onGuestRecv, onGuestRecv_copy, chan, thread
  <1>17. CASE SetWakeBit \/ onGuestWantWakeOn \/ setWantedEvents \/ WakeUp \/ waitUntilReady \/ Deliver
    BY <1>3, <1>17 DEF SetWakeBit, onGuestWantWakeOn, setWantedEvents, WakeUp, waitUntilReady,
                       Deliver, chan, guestRest, thread
  <1>18. CASE doSnapshotOperation \/ snapshotOperation \/ setFinished \/ onSave \/ save
    BY <1>3, <1>18 DEF doSnapshotOperation, snapshotOperation, setFinished, onSave, save, chan,
                       guest, guestRest, thread
  <1>19. CASE UNCHANGED vars
    BY <1>3, <1>19 DEF vars, chan, guest, guestRest, thread
  <1> QED BY <1>4, <1>6, <1>7, <1>8, <1>9, <1>11, <1>12, <1>13, <1>14, <1>15, <1>16, <1>17, <1>18, <1>19
          DEF Next, GuestStep, ThreadStep, SaveStep
-----------------------------------------------------------------------------
(* The replies. *)

LEMMA MulOrder ==
    ASSUME NEW n \in Nat \ {0}, NEW a \in Int, NEW b \in Int
    PROVE  a <= b <=> a * n <= b * n
  <1>1. n * (b - a) = n * b - n * a /\ n * (a - b) = n * a - n * b
    BY Distribute
  <1>2. n * a = a * n /\ n * b = b * n /\ a * n \in Int /\ b * n \in Int
    OBVIOUS
  <1>3. a <= b => n * (b - a) >= 0
    <2>1. a < b => n * (b - a) >= n
      <3>1. b - a \in Int /\ (a < b => b - a >= 1)
        OBVIOUS
      <3> QED BY <3>1, MulAtLeast
    <2>2. a = b => n * (b - a) = 0
      OBVIOUS
    <2> QED BY <2>1, <2>2
  <1>4. a > b => n * (a - b) >= n
    <2>1. a - b \in Int /\ (a > b => a - b >= 1)
      OBVIOUS
    <2> QED BY <2>1, MulAtLeast
  <1> QED BY <1>1, <1>2, <1>3, <1>4

(* The requests that have been decoded when e units have been. *)
AnsweredOf(a, e) == {c \in a : c * PacketSize + 1 <= e}

LEMMA AnsweredFinite ==
    ASSUME NEW a, a \subseteq 1 .. MaxUnits, NEW e
    PROVE  IsFiniteSet(AnsweredOf(a, e)) /\ Cardinality(AnsweredOf(a, e)) \in Nat
  <1>1. IsFiniteSet(1 .. MaxUnits)
    BY Constants, FS_Interval
  <1>2. AnsweredOf(a, e) \subseteq 1 .. MaxUnits
    BY DEF AnsweredOf
  <1>3. IsFiniteSet(AnsweredOf(a, e))
    BY <1>1, <1>2, FS_Subset
  <1> QED BY <1>3, FS_CardinalityType

(* Decoding a command answers its request, and no other. *)
LEMMA AnsweredDecode ==
    ASSUME NEW a, a \subseteq 1 .. MaxUnits, NEW e \in Nat, e > 0, (e - 1) % PacketSize = 0
    PROVE  Cardinality(AnsweredOf(a, e + PacketSize)) =
             IF (e + PacketSize - 1) \div PacketSize \in a
             THEN Cardinality(AnsweredOf(a, e)) + 1 ELSE Cardinality(AnsweredOf(a, e))
  <1>1. PICK P \in Nat \ {0} : P = PacketSize
    BY Constants
  <1>2. PICK s \in Nat : s = e + P /\ s > 1
    BY <1>1
  <1>3. (s - 1) % PacketSize = 0
    <2>1. s - 1 = (e - 1) + P * 1 /\ e - 1 \in Int /\ 1 \in Int
      BY <1>2
    <2>2. ((e - 1) + P * 1) % P = (e - 1) % P
      BY <2>1, ModShift
    <2> QED BY <1>1, <2>1, <2>2
  <1>4. PICK c0 \in Nat : c0 = (s - 1) \div PacketSize /\ c0 >= 1 /\ c0 * P + 1 = s
    BY <1>1, <1>2, <1>3, CommandOf
  <1>5. ASSUME NEW c \in 1 .. MaxUnits
        PROVE  /\ c * P + 1 <= s <=> c <= c0
               /\ c * P + 1 <= e <=> c <= c0 - 1
    <2>1. c \in Int /\ c0 \in Int /\ c0 - 1 \in Int /\ c * P \in Int /\ c0 * P \in Int
      BY Constants
    <2>2. c <= c0 <=> c * P <= c0 * P
      BY <2>1, MulOrder
    <2>3. c <= c0 - 1 <=> c * P <= (c0 - 1) * P
      BY <2>1, MulOrder
    <2>4. (c0 - 1) * P = c0 * P - P
      OBVIOUS
    <2>5. c * P + 1 <= s <=> c <= c0
      BY <1>4, <2>1, <2>2
    <2>6. e = c0 * P + 1 - P
      BY <1>2, <1>4, <2>1
    <2>7. c * P + 1 <= e <=> c <= c0 - 1
      BY <2>1, <2>3, <2>4, <2>6
    <2> QED BY <2>5, <2>7
  <1>6. ASSUME NEW c \in a
        PROVE  c \in AnsweredOf(a, s) <=> (c \in AnsweredOf(a, e) \/ c = c0)
    <2>1. c \in 1 .. MaxUnits /\ c \in Int
      BY Constants
    <2>2. c <= c0 <=> (c <= c0 - 1 \/ c = c0)
      BY <2>1
    <2>3. c \in AnsweredOf(a, s) <=> c <= c0
      BY <1>1, <1>5, <2>1 DEF AnsweredOf
    <2>4. c \in AnsweredOf(a, e) <=> c <= c0 - 1
      BY <1>1, <1>5, <2>1 DEF AnsweredOf
    <2> QED BY <2>2, <2>3, <2>4
  <1>7. c0 \notin AnsweredOf(a, e)
    <2> SUFFICES ASSUME c0 \in AnsweredOf(a, e) PROVE FALSE
      OBVIOUS
    <2>1. c0 \in 1 .. MaxUnits /\ c0 * P + 1 <= e
      BY <1>1 DEF AnsweredOf
    <2>2. c0 <= c0 - 1
      BY <1>5, <2>1
    <2> QED BY <2>2
  <1>8. AnsweredOf(a, s) \subseteq a /\ AnsweredOf(a, e) \subseteq a
    BY DEF AnsweredOf
  <1>9. (e + PacketSize - 1) \div PacketSize = c0 /\ s = e + PacketSize
    BY <1>1, <1>2, <1>4
  <1>10. CASE c0 \in a
    <2>1. AnsweredOf(a, s) = AnsweredOf(a, e) \cup {c0}
      BY <1>6, <1>8, <1>10
    <2>2. Cardinality(AnsweredOf(a, e) \cup {c0}) = Cardinality(AnsweredOf(a, e)) + 1
      BY <1>7, AnsweredFinite, FS_AddElement
    <2> QED BY <1>9, <1>10, <2>1, <2>2
  <1>11. CASE c0 \notin a
    <2>1. AnsweredOf(a, s) = AnsweredOf(a, e)
      BY <1>6, <1>8, <1>11
    <2> QED BY <1>9, <1>11, <2>1
  <1> QED BY <1>10, <1>11

LEMMA AsksKept ==
    ASSUME ChannelInv, [Next]_vars
    PROVE  AsksInv' /\ (asks' = asks \/ \E c \in Nat : asks' = asks \cup {c} /\ c * PacketSize + 1 = sent' /\ sent' > sent)
  <1>1. AsksInv /\ asks \subseteq Nat /\ sent \in Nat /\ gsize \in Nat /\ PacketSize \in Nat
    BY Constants DEF ChannelInv, TypeOK, GuestOK
  <1>2. CASE UNCHANGED <<asks, sent>>
    BY <1>1, <1>2 DEF AsksInv
  <1>3. CASE tryWrite
    <2>1. CASE tryPushResult(mFromGuest) = "Ok"
      <3>1. sent' = sent + gsize /\ asks' = IF gask THEN asks \cup {(sent' - 1) \div PacketSize} ELSE asks
        BY <1>3, <2>1 DEF tryWrite
      <3>2. gsize > 0 /\ (gask => sent + gsize > 1 /\ (sent + gsize - 1) % PacketSize = 0)
        BY <1>3 DEF tryWrite, ChannelInv, GuestInv
      <3>3. PICK s \in Nat : s = sent' /\ s > sent
        BY <1>1, <3>1, <3>2
      <3>4. \A c \in asks : c * PacketSize + 1 <= s
        <4>1. ASSUME NEW c \in asks PROVE c * PacketSize + 1 <= s
          <5>1. c * PacketSize + 1 <= sent /\ c * PacketSize + 1 \in Int
            BY <1>1 DEF AsksInv
          <5> QED BY <1>1, <3>3, <5>1
        <4> QED BY <4>1
      <3>5. CASE gask
        <4>1. s > 1 /\ (s - 1) % PacketSize = 0
          BY <1>1, <3>1, <3>2, <3>3, <3>5
        <4>2. PICK c \in Nat : c = (s - 1) \div PacketSize /\ c * PacketSize + 1 = s
          BY <4>1, CommandOf
        <4>3. asks' = asks \cup {c}
          BY <3>1, <3>3, <3>5, <4>2
        <4>4. AsksInv'
          BY <3>3, <3>4, <4>2, <4>3 DEF AsksInv
        <4> QED BY <3>3, <4>2, <4>3, <4>4
      <3>6. CASE ~gask
        BY <3>1, <3>3, <3>4, <3>6 DEF AsksInv
      <3> QED BY <3>5, <3>6
    <2>2. CASE tryPushResult(mFromGuest) # "Ok"
      BY <1>2, <1>3, <2>2 DEF tryWrite
    <2> QED BY <2>1, <2>2
  <1>4. CASE Next /\ ~tryWrite
    BY <1>2, <1>4
       DEF Next, GuestStep, ThreadStep, SaveStep, Send, onGuestRecv, onGuestRecv_copy,
           onGuestRecv_tryRead, SetWakeBit, onGuestWantWakeOn, setWantedEvents, WakeUp,
           waitUntilReady, Deliver, stop, stopFromHost, getData, readRaw_copy, readRaw_full,
           readFromGuest, decode, writeToGuest, doSnapshotOperation, snapshotOperation,
           setFinished, pausePreSnapshot, onSave, save, resume, guest, guestRest
  <1>5. CASE UNCHANGED vars
    BY <1>2, <1>5 DEF vars, guest, guestRest
  <1> QED BY <1>3, <1>4, <1>5

(* No step loses, repeats or reorders a unit of the replies. *)
LEMMA RepliesInOrder ==
    ASSUME ChannelInv, [Next]_vars
    PROVE  /\ Following(gotten', 0) /\ Following(mDataForReading', Len(gotten'))
           /\ Consecutive(Contents(mToGuest'), Len(gotten') + Len(mDataForReading'), replied')
  <1> DEFINE received == Len(gotten) + Len(mDataForReading)
  <1>1. /\ QueueOK(mToGuest) /\ replied \in Nat /\ ReplyUnits \in Nat /\ ReplyUnits > 0
        /\ gotten \in Seq(Nat) /\ mDataForReading \in Seq(Nat) /\ gsize \in Nat
    BY Constants DEF ChannelInv, TypeOK, ChanOK, GuestOK, ThreadOK
  <1>2. /\ Following(gotten, 0) /\ Following(mDataForReading, Len(gotten))
        /\ Consecutive(Contents(mToGuest), received, replied) /\ received \in Nat
    BY <1>1 DEF ChannelInv, RepliesExact, Received
  <1>3. /\ Contents(mToGuest) \in Seq(Seq(Nat)) /\ Len(Contents(mToGuest)) = mToGuest.mCount
        /\ mToGuest.mCount \in Nat
    BY <1>1, ContentsFacts, QueueFacts
  <1>4. CASE UNCHANGED <<gotten, mDataForReading, replied>> /\ Contents(mToGuest') = Contents(mToGuest)
    BY <1>2, <1>4
  <1>5. CASE onGuestRecv_copy
    <2> DEFINE curSize == Min({gsize, Len(mDataForReading)})
               first == SubSeq(mDataForReading, 1, curSize)
               rest == Drop(mDataForReading, curSize)
    <2>1. curSize \in 0 .. Len(mDataForReading)
      <3>1. Len(mDataForReading) \in Nat /\ gsize \in Nat
        BY <1>1
      <3> QED BY <3>1, MinOf
    <2>2. gotten' = gotten \o first /\ mDataForReading' = rest /\ UNCHANGED <<mToGuest, replied>>
      BY <1>5 DEF onGuestRecv_copy, chan, thread, threadRest
    <2> HIDE DEF curSize
    <2>3. Len(gotten) \in Nat /\ 0 + Len(gotten) = Len(gotten) /\ Len(mDataForReading) \in Nat
      BY <1>1
    <2>4. /\ first \in Seq(Nat) /\ Len(first) = curSize /\ Following(first, Len(gotten))
          /\ rest \in Seq(Nat) /\ Len(rest) = Len(mDataForReading) - curSize
          /\ Following(rest, Len(gotten) + curSize)
      BY <1>1, <1>2, <2>1, <2>3, FollowingSplit
    <2> HIDE DEF first, rest
    <2>5. /\ Len(gotten \o first) = Len(gotten) + Len(first) /\ Following(gotten \o first, 0)
      <3>1. Following(first, 0 + Len(gotten))
        BY <2>3, <2>4
      <3> QED BY <1>1, <1>2, <2>4, <3>1, FollowingConcat
    <2>6. Len(gotten') = Len(gotten) + curSize /\ Len(mDataForReading') = Len(mDataForReading) - curSize
      BY <2>2, <2>4, <2>5
    <2>7. Len(gotten') + Len(mDataForReading') = received
      BY <2>1, <2>3, <2>6
    <2> QED BY <1>2, <2>2, <2>4, <2>5, <2>6, <2>7
  <1>6. CASE onGuestRecv_tryRead
    <2>1. CASE UNCHANGED <<mToGuest, mDataForReading>>
      BY <1>4, <1>6, <2>1 DEF onGuestRecv_tryRead, threadRest
    <2>2. CASE /\ tryPopResult(mToGuest) = "Ok" /\ mDataForReading' = Oldest(mToGuest)
               /\ mToGuest' = tryPopped(mToGuest)
      <3>1. mToGuest.mCount > 0 /\ Contents(mToGuest) # <<>>
        BY <1>1, <2>2, PopOk
      <3>2. Contents(mToGuest') = Tail(Contents(mToGuest)) /\ mDataForReading' = Contents(mToGuest)[1]
        BY <1>1, <2>2, <3>1, PopTakesOldest
      <3>3. UNCHANGED <<gotten, replied>> /\ Len(mDataForReading) = 0
        BY <1>6, EmptyFollows DEF onGuestRecv_tryRead, threadRest
      <3>4. received = Len(gotten)
        BY <1>1, <3>3
      <3>5. /\ Following(mDataForReading', received)
            /\ Consecutive(Contents(mToGuest'), received + Len(mDataForReading'), replied)
        BY <1>1, <1>2, <1>3, <3>1, <3>2, ConsecutiveTail
      <3> QED BY <1>2, <3>3, <3>4, <3>5
    <2> QED BY <1>6, <2>1, <2>2 DEF onGuestRecv_tryRead, UpdateQuietly, Update, chan
  <1>7. CASE writeToGuest
    <2>1. CASE UNCHANGED <<mToGuest, replied>>
      BY <1>4, <1>7, <2>1 DEF writeToGuest, guestRest
    <2>2. CASE /\ mToGuest' = tryPushed(mToGuest, Units(replied, ReplyUnits))
               /\ replied' = replied + ReplyUnits
      <3>1. PICK b \in Seq(Nat) : b = Units(replied, ReplyUnits) /\ Len(b) = ReplyUnits /\ Following(b, replied)
        BY <1>1, UnitsFollow
      <3>2. b # <<>>
        BY <1>1, <3>1, EmptyIs
      <3>3. Contents(mToGuest') = Append(Contents(mToGuest), b)
        BY <1>1, <2>2, <3>1, PushAppends
      <3>4. Consecutive(Contents(mToGuest'), received, replied')
        BY <1>1, <1>2, <1>3, <2>2, <3>1, <3>2, <3>3, ConsecutiveAppend
      <3>5. UNCHANGED <<gotten, mDataForReading>>
        BY <1>7 DEF writeToGuest, guestRest
      <3> QED BY <1>2, <3>4, <3>5
    <2> QED BY <1>7, <2>1, <2>2 DEF writeToGuest, UpdateAndNotify, Update, chan
  <1>8. CASE stop \/ stopFromHost
    <2>1. mToGuest' = closed(mToGuest) /\ UNCHANGED <<gotten, mDataForReading, replied>>
      BY <1>8 DEF stop, stopFromHost, CloseQueues, guestRest, threadRest
    <2> QED BY <1>1, <1>4, <2>1, CloseKeepsContents
  <1>9. CASE pausePreSnapshot \/ resume
    <2>1. PICK on \in BOOLEAN : mToGuest' = setSnapshotMode(mToGuest, on)
      BY <1>9 DEF pausePreSnapshot, resume
    <2>2. UNCHANGED <<gotten, mDataForReading, replied>>
      BY <1>9 DEF pausePreSnapshot, resume, guest, guestRest, thread, threadRest
    <2> QED BY <1>1, <1>4, <2>1, <2>2, ModeKeepsContents
  <1>10. CASE tryWrite
    <2>1. UNCHANGED <<gotten, mDataForReading, replied, mToGuest>>
      BY <1>10 DEF tryWrite, UpdateQuietly, Update, threadRest
    <2> QED BY <1>4, <2>1
  <1>11. CASE readFromGuest
    <2>1. UNCHANGED <<gotten, mDataForReading, replied, mToGuest>>
      BY <1>11 DEF readFromGuest, UpdateAndNotify, Update, chan, guestRest
    <2> QED BY <1>4, <2>1
  <1>12. CASE UNCHANGED <<gotten, mDataForReading, replied, mToGuest>>
    BY <1>4, <1>12
  <1>13. CASE (\E n \in SendSizes, ask \in BOOLEAN : Send(n, ask)) \/ (\E n \in RecvSizes : onGuestRecv(n))
              \/ SetWakeBit \/ onGuestWantWakeOn \/ setWantedEvents \/ WakeUp \/ waitUntilReady \/ Deliver
    <2>1. UNCHANGED <<gotten, mDataForReading, replied, mToGuest>>
      BY <1>13 DEF Send, onGuestRecv, SetWakeBit, onGuestWantWakeOn, setWantedEvents, WakeUp,
                   waitUntilReady, Deliver, chan, guestRest, thread, threadRest
    <2> QED BY <1>12, <2>1
  <1>14. CASE (\E n \in 1 .. MaxWanted : getData(n)) \/ readRaw_copy \/ readRaw_full \/ decode
              \/ doSnapshotOperation \/ snapshotOperation \/ setFinished \/ onSave \/ save
    <2>1. UNCHANGED <<gotten, mDataForReading, replied, mToGuest>>
      BY <1>14 DEF getData, readRaw_copy, readRaw_full, decode, doSnapshotOperation,
                   snapshotOperation, setFinished, onSave, save, chan, guest, guestRest, thread, threadRest
    <2> QED BY <1>12, <2>1
  <1>15. CASE UNCHANGED vars
    BY <1>12, <1>15 DEF vars, chan, guest, guestRest, thread, threadRest
  <1> QED BY <1>5, <1>6, <1>7, <1>8, <1>9, <1>10, <1>11, <1>13, <1>14, <1>15
          DEF Next, GuestStep, ThreadStep, SaveStep

(* What has been decoded has been answered, or its answer is owed. *)
LEMMA OwedKept ==
    ASSUME ChannelInv, [Next]_vars, ~mToGuest'.mClosed
    PROVE  replied' + owed' * ReplyUnits = ReplySize * Cardinality(AnsweredOf(asks', executed'))
  <1>1. /\ QueueOK(mToGuest) /\ replied \in Nat /\ owed \in Nat /\ ReplyUnits \in Nat
        /\ ReplyBuffers \in Nat /\ ReplySize \in Nat /\ ReplySize = ReplyBuffers * ReplyUnits
        /\ PacketSize \in Nat \ {0} /\ executed \in Nat /\ sent \in Nat /\ ThreadInv
        /\ asks \subseteq 1 .. MaxUnits /\ mToGuest.mClosed \in BOOLEAN
    BY Constants, QueueFacts DEF ChannelInv, TypeOK, ChanOK, GuestOK, ThreadOK
  <1>2. ~mToGuest.mClosed
    <2>1. CASE stop \/ stopFromHost
      BY <1>1, <2>1, CloseKeepsContents DEF stop, stopFromHost, CloseQueues
    <2>2. CASE ~stop /\ ~stopFromHost
      BY <2>2, OnlyStopCloses
    <2> QED BY <2>1, <2>2
  <1>3. PICK k \in Nat : k = Cardinality(AnsweredOf(asks, executed))
    BY <1>1, AnsweredFinite
  <1>4. replied + owed * ReplyUnits = ReplySize * k
    BY <1>2, <1>3 DEF ChannelInv, RepliesExact, Answered, AnsweredOf
  <1>5. CASE UNCHANGED <<replied, owed>> /\ AnsweredOf(asks', executed') = AnsweredOf(asks, executed)
    BY <1>3, <1>4, <1>5
  <1>6. CASE tryWrite
    <2>1. UNCHANGED <<replied, owed, executed>>
      BY <1>6 DEF tryWrite, threadRest
    <2>2. executed <= sent
      <3>1. Taken <= sent /\ readBuf \in Seq(Nat) /\ hgot \in Seq(Nat) /\ mReadBuffer \in Seq(Nat)
        BY DEF ChannelInv, QueueInv, TypeOK, ThreadOK
      <3>2. Len(readBuf) \in Nat /\ Len(hgot) \in Nat /\ Len(mReadBuffer) \in Nat
        BY <3>1
      <3> QED BY <1>1, <3>1, <3>2 DEF Taken
    <2>3. CASE asks' = asks
      BY <1>5, <2>1, <2>3
    <2>4. CASE \E c \in Nat : asks' = asks \cup {c} /\ c * PacketSize + 1 = sent' /\ sent' > sent
      <3>1. PICK c \in Nat : asks' = asks \cup {c} /\ c * PacketSize + 1 = sent' /\ sent' > sent
        BY <2>4
      <3>2. sent' \in Nat
        BY GuestTyped, Constants DEF GuestOK
      <3>3. ~(c * PacketSize + 1 <= executed)
        BY <1>1, <2>2, <3>1, <3>2
      <3>4. AnsweredOf(asks \cup {c}, executed) = AnsweredOf(asks, executed)
        BY <3>3 DEF AnsweredOf
      <3> QED BY <1>5, <2>1, <3>1, <3>4
    <2> QED BY <2>3, <2>4, AsksKept
  <1>7. ASSUME readRaw_return, UNCHANGED <<replied, owed, asks>>
        PROVE  UNCHANGED <<replied, owed>> /\ AnsweredOf(asks', executed') = AnsweredOf(asks, executed)
    <2>1. CASE started
      BY <1>7, <2>1 DEF readRaw_return
    <2>2. CASE ~started
      <3>1. executed = 0 /\ executed' = 1
        BY <1>1, <1>7, <2>2 DEF readRaw_return, ThreadInv
      <3>2. ASSUME NEW c \in asks PROVE ~(c * PacketSize + 1 <= 1) /\ ~(c * PacketSize + 1 <= 0)
        <4>1. c \in Nat /\ c >= 1
          BY <1>1, Constants
        <4>2. PacketSize * c >= PacketSize /\ c * PacketSize = PacketSize * c /\ PacketSize * c \in Int
          BY <1>1, <4>1, MulAtLeast
        <4> QED BY <1>1, <4>2
      <3>3. AnsweredOf(asks, 1) = AnsweredOf(asks, 0)
        BY <3>2 DEF AnsweredOf
      <3> QED BY <1>7, <3>1, <3>3
    <2> QED BY <2>1, <2>2
  <1>8. CASE readRaw_full
    <2>1. readRaw_return /\ UNCHANGED <<replied, owed, asks>>
      BY <1>8 DEF readRaw_full, guest, guestRest
    <2> QED BY <1>5, <1>7, <2>1
  <1>9. CASE readFromGuest
    <2>1. UNCHANGED <<replied, owed, asks>> /\ (executed' = executed \/ readRaw_return)
      BY <1>9 DEF readFromGuest, guestRest
    <2> QED BY <1>5, <1>7, <2>1
  <1>10. CASE decode
    <2>1. /\ executed > 0 /\ (executed - 1) % PacketSize = 0 /\ owed = 0
      BY <1>1, <1>10 DEF decode, ThreadInv
    <2> DEFINE reply == (executed + PacketSize - 1) \div PacketSize \in asks
    <2>2. /\ executed' = executed + PacketSize /\ UNCHANGED <<replied, asks>>
          /\ owed' = IF reply THEN ReplyBuffers ELSE 0
      <3>1. executed' = executed + PacketSize /\ UNCHANGED <<replied, asks>>
        BY <1>10 DEF decode, guest, guestRest
      <3>2. owed' = IF (executed' - 1) \div PacketSize \in asks THEN ReplyBuffers ELSE 0
        BY <1>10 DEF decode
      <3>3. executed' - 1 = executed + PacketSize - 1
        BY <1>1, <3>1
      <3> QED BY <3>1, <3>2, <3>3
    <2>3. Cardinality(AnsweredOf(asks', executed')) = IF reply THEN k + 1 ELSE k
      BY <1>1, <1>3, <2>1, <2>2, AnsweredDecode
    <2> HIDE DEF reply
    <2>4. replied = ReplySize * k
      BY <1>1, <1>4, <2>1
    <2>5. CASE reply
      <3>1. ReplySize * (k + 1) = ReplySize * k + ReplySize
        BY <1>1
      <3>2. replied' + owed' * ReplyUnits = ReplySize * k + ReplySize
        BY <1>1, <2>2, <2>4, <2>5
      <3> QED BY <2>3, <2>5, <3>1, <3>2
    <2>6. CASE ~reply
      BY <1>1, <2>2, <2>3, <2>4, <2>6
    <2> QED BY <2>5, <2>6
  <1>11. CASE writeToGuest
    <2>1. owed > 0 /\ UNCHANGED <<asks, executed>>
      BY <1>1, <1>11 DEF writeToGuest, ThreadInv, guestRest
    <2>2. CASE UNCHANGED <<owed, replied>>
      BY <1>5, <2>1, <2>2
    <2>3. CASE ~pushBlocked(mToGuest) /\ owed' = owed - 1
      <3>1. tryPushResult(mToGuest) = "Ok"
        <4>1. Size(mToGuest) \in Nat /\ mToGuest.mCount \in 0 .. Size(mToGuest)
          BY <1>1, QueueFacts
        <4> QED BY <1>2, <2>3, <4>1 DEF pushBlocked, tryPushResult
      <3>2. replied' = replied + ReplyUnits
        BY <1>1, <1>11, <2>1, <2>3, <3>1 DEF writeToGuest
      <3>3. (owed - 1) * ReplyUnits = owed * ReplyUnits - ReplyUnits
        BY <1>1
      <3> QED BY <1>1, <1>3, <1>4, <2>1, <2>3, <3>2, <3>3
    <2> QED BY <1>11, <2>2, <2>3 DEF writeToGuest
  <1>12. CASE UNCHANGED <<replied, owed, asks, executed>>
    BY <1>5, <1>12
  <1>13. CASE (\E n \in SendSizes, ask \in BOOLEAN : Send(n, ask)) \/ (\E n \in RecvSizes : onGuestRecv(n))
              \/ onGuestRecv_copy \/ onGuestRecv_tryRead \/ SetWakeBit \/ onGuestWantWakeOn
              \/ setWantedEvents \/ WakeUp \/ waitUntilReady \/ Deliver \/ stop \/ stopFromHost
    <2>1. UNCHANGED <<replied, owed, asks, executed>>
      BY <1>13 DEF Send, onGuestRecv, onGuestRecv_copy, onGuestRecv_tryRead, SetWakeBit,
                   onGuestWantWakeOn, setWantedEvents, WakeUp, waitUntilReady, Deliver, stop,
                   stopFromHost, guestRest, thread, threadRest
    <2> QED BY <1>12, <2>1
  <1>14. CASE (\E n \in 1 .. MaxWanted : getData(n)) \/ readRaw_copy \/ doSnapshotOperation
              \/ snapshotOperation \/ setFinished \/ pausePreSnapshot \/ onSave \/ save \/ resume
    <2>1. UNCHANGED <<replied, owed, asks, executed>>
      BY <1>14 DEF getData, readRaw_copy, doSnapshotOperation, snapshotOperation, setFinished,
                   pausePreSnapshot, onSave, save, resume, guest, guestRest, thread, threadRest
    <2> QED BY <1>12, <2>1
  <1>15. CASE UNCHANGED vars
    BY <1>12, <1>15 DEF vars, guest, guestRest, thread, threadRest
  <1> QED BY <1>6, <1>8, <1>9, <1>10, <1>11, <1>13, <1>14, <1>15
          DEF Next, GuestStep, ThreadStep, SaveStep

LEMMA RepliesKept ==
    ASSUME ChannelInv, [Next]_vars
    PROVE  RepliesExact'
  <1>1. ~mToGuest'.mClosed =>
           replied' + owed' * ReplyUnits = ReplySize * Cardinality(AnsweredOf(asks', executed'))
    BY OwedKept
  <1>2. Answered' = AnsweredOf(asks', executed')
    BY DEF Answered, AnsweredOf
  <1> QED BY <1>1, <1>2, RepliesInOrder DEF RepliesExact, Received
-----------------------------------------------------------------------------
(* Snapshots. *)

(* While a snapshot is taken the guest sends nothing. *)
LEMMA SentKept ==
    ASSUME ChannelInv, [Next]_vars, ~Running
    PROVE  sent' = sent
  BY DEF Next, GuestStep, ThreadStep, SaveStep, Send, tryWrite, onGuestRecv, onGuestRecv_copy,
         onGuestRecv_tryRead, SetWakeBit, onGuestWantWakeOn, setWantedEvents, WakeUp,
         waitUntilReady, Deliver, stop, stopFromHost, getData, readRaw_copy, readRaw_full,
         readFromGuest, decode, writeToGuest, doSnapshotOperation, snapshotOperation,
         setFinished, pausePreSnapshot, onSave, save, resume, vars, guest, guestRest

LEMMA SnapshotKept ==
    ASSUME ChannelInv, [Next]_vars
    PROVE  SnapshotInv'
  <1> DEFINE Places == /\ mSnapshot = "Empty" <=> ctl \in {"run", "stopped"}
                       /\ mSnapshot = "InProgress" <=> hpc = "saving"
                       /\ mFinished => hpc = "finished"
                       /\ mSnapshot = "Finished" => hpc = "parked"
                       /\ image.saved = "thread" => mSnapshot = "Finished"
             Counted == mSnapshot = "Finished" => ThreadUnits = Taken
             Covered == ctl \in {"save", "saved"} /\ ~mFromGuest.mClosed =>
                           \A k \in 1 .. sent : k <= Taken \/ Holds(image.from, k)
  <1>1. /\ Places /\ Counted /\ Covered /\ SnapOK /\ ThreadInv /\ QueueInv /\ executed \in Nat
        /\ readBuf \in Seq(Nat) /\ mReadBuffer \in Seq(Nat) /\ hgot \in Seq(Nat) /\ Taken \in Nat
    BY DEF ChannelInv, SnapshotInv, TypeOK, ThreadOK, Taken
  <1>2. Taken' \in Nat /\ Taken' >= Taken
    BY StreamKept
  <1> SUFFICES Places' /\ Counted' /\ Covered'
    BY DEF SnapshotInv
  <1>3. Places'
    <2>1. CASE UNCHANGED snap /\ (hpc' = hpc \/ (/\ hpc \notin {"saving", "parked", "finished"}
                                                /\ hpc' \notin {"saving", "parked", "finished"}))
      BY <1>1, <2>1 DEF snap
    <2>2. CASE tryWrite \/ onGuestRecv_tryRead \/ stop
      BY <2>1, <2>2 DEF tryWrite, onGuestRecv_tryRead, WakeThread, stop, CloseQueues
    <2>3. CASE stopFromHost
      BY <1>1, <2>3 DEF stopFromHost, CloseQueues
    <2>4. CASE (\E n \in 1 .. MaxWanted : getData(n)) \/ readRaw_copy \/ readRaw_full
               \/ readFromGuest \/ decode \/ writeToGuest
      BY <2>1, <2>4 DEF getData, readRaw_copy, readRaw_full, readFromGuest, readRaw_return,
                        decode, writeToGuest
    <2>5. CASE doSnapshotOperation
      BY <1>1, <2>5 DEF doSnapshotOperation
    <2>6. CASE snapshotOperation
      <3>1. image'.saved = image.saved
        BY <1>1, <2>6 DEF snapshotOperation, SnapOK
      <3> QED BY <1>1, <2>6, <3>1 DEF snapshotOperation
    <2>7. CASE setFinished
      BY <1>1, <2>7 DEF setFinished
    <2>8. CASE pausePreSnapshot
      BY <1>1, <2>8 DEF pausePreSnapshot
    <2>9. CASE onSave
      <3>1. image'.saved = image.saved
        BY <1>1, <2>9 DEF onSave, SnapOK
      <3> QED BY <1>1, <2>9, <3>1 DEF onSave, thread
    <2>10. CASE save
      <3>1. image'.saved = IF mSnapshot = "Finished" THEN "thread" ELSE "none"
        BY <1>1, <2>10 DEF save, SnapOK
      <3> QED BY <1>1, <2>10, <3>1 DEF save, thread
    <2>11. CASE resume
      <3>1. image'.saved = "no"
        BY <2>11 DEF resume, NoImage
      <3> QED BY <1>1, <2>11, <3>1 DEF resume, SnapshotComplete, thread
    <2>12. CASE (\E n \in SendSizes, ask \in BOOLEAN : Send(n, ask)) \/ (\E n \in RecvSizes : onGuestRecv(n))
                \/ onGuestRecv_copy \/ SetWakeBit \/ onGuestWantWakeOn \/ setWantedEvents
                \/ WakeUp \/ waitUntilReady \/ Deliver
      BY <2>1, <2>12 DEF Send, onGuestRecv, onGuestRecv_copy, SetWakeBit, onGuestWantWakeOn,
                         setWantedEvents, WakeUp, waitUntilReady, Deliver, thread
    <2>13. CASE UNCHANGED vars
      BY <2>1, <2>13 DEF vars, thread
    <2> QED BY <2>2, <2>3, <2>4, <2>5, <2>6, <2>7, <2>8, <2>9, <2>10, <2>11, <2>12, <2>13
            DEF Next, GuestStep, ThreadStep, SaveStep
  <1>4. Counted'
    <2> SUFFICES ASSUME mSnapshot' = "Finished" PROVE ThreadUnits' = Taken'
      OBVIOUS
    <2>1. CASE snapshotOperation /\ hpc = "saving"
      <3>1. image' = [image EXCEPT !.readBuf = savedReadBuf, !.executed = executed] /\ UNCHANGED threadRest
        BY <1>1, <2>1 DEF snapshotOperation
      <3>2. image'.executed = executed /\ image'.readBuf = readBuf \o mReadBuffer
        BY <1>1, <3>1 DEF SnapOK, savedReadBuf
      <3>3. Len(readBuf \o mReadBuffer) = Len(readBuf) + Len(mReadBuffer)
        BY <1>1
      <3>4. hgot = <<>> /\ Len(hgot) = 0
        BY <1>1, <2>1, EmptyFollows DEF ThreadInv
      <3>5. Len(readBuf) \in Nat /\ Len(mReadBuffer) \in Nat
        BY <1>1
      <3>6. Taken' = executed + Len(readBuf) + 0 + Len(mReadBuffer)
        BY <3>1, <3>4 DEF Taken, threadRest
      <3>7. ThreadUnits' = executed + (Len(readBuf) + Len(mReadBuffer))
        BY <3>2, <3>3 DEF ThreadUnits
      <3> QED BY <1>1, <3>5, <3>6, <3>7
    <2>2. CASE mSnapshot = "Finished" /\ UNCHANGED threadRest
               /\ image'.executed = image.executed /\ image'.readBuf = image.readBuf
      BY <1>1, <2>2 DEF ThreadUnits, Taken, threadRest
    <2>3. CASE ~(snapshotOperation /\ hpc = "saving")
      <3>1. mSnapshot = "Finished"
        BY <1>1, <2>3
           DEF Next, GuestStep, ThreadStep, SaveStep, Send, tryWrite, onGuestRecv, onGuestRecv_copy,
               onGuestRecv_tryRead, SetWakeBit, onGuestWantWakeOn, setWantedEvents, WakeUp,
               waitUntilReady, Deliver, stop, stopFromHost, getData, readRaw_copy, readRaw_full,
               readFromGuest, decode, writeToGuest, doSnapshotOperation, snapshotOperation,
               setFinished, pausePreSnapshot, onSave, save, resume, vars, snap
      <3>2. hpc = "parked"
        BY <1>1, <3>1
      <3>3. UNCHANGED threadRest /\ (image' = image \/ onSave \/ save)
        BY <2>3, <3>1, <3>2
           DEF Next, GuestStep, ThreadStep, SaveStep, Send, tryWrite, onGuestRecv, onGuestRecv_copy,
               onGuestRecv_tryRead, SetWakeBit, onGuestWantWakeOn, setWantedEvents, WakeUp,
               waitUntilReady, Deliver, stop, stopFromHost, getData, readRaw_copy, readRaw_full,
               readFromGuest, decode, writeToGuest, doSnapshotOperation, snapshotOperation,
               setFinished, pausePreSnapshot, onSave, save, resume, vars, snap, thread
      <3>4. image'.executed = image.executed /\ image'.readBuf = image.readBuf
        BY <1>1, <3>3 DEF onSave, save, SnapOK
      <3> QED BY <2>2, <3>1, <3>3, <3>4
    <2> QED BY <2>1, <2>3
  <1>5. Covered'
    <2> SUFFICES ASSUME ctl' \in {"save", "saved"}, ~mFromGuest'.mClosed, NEW k \in 1 .. sent',
                        k > Taken'
                 PROVE  Holds(image'.from, k)
      BY <1>2, GuestTyped, Constants DEF GuestOK
    <2>1. CASE onSave
      <3>1. UNCHANGED <<mFromGuest, sent>> /\ Taken' = Taken
        BY <2>1 DEF onSave, chan, guest, guestRest, thread, threadRest, Taken
      <3>2. image'.from = Contents(mFromGuest)
        BY <1>1, <2>1, <3>1 DEF onSave, SnapOK
      <3>3. Holds(Contents(mFromGuest), k)
        BY <1>1, <3>1 DEF QueueInv
      <3> QED BY <3>2, <3>3
    <2>2. CASE ~onSave
      <3>1. ctl \in {"save", "saved"} /\ (UNCHANGED image \/ save \/ snapshotOperation)
        BY <2>2
           DEF Next, GuestStep, ThreadStep, SaveStep, Send, tryWrite, onGuestRecv, onGuestRecv_copy,
               onGuestRecv_tryRead, SetWakeBit, onGuestWantWakeOn, setWantedEvents, WakeUp,
               waitUntilReady, Deliver, stop, stopFromHost, getData, readRaw_copy, readRaw_full,
               readFromGuest, decode, writeToGuest, doSnapshotOperation, snapshotOperation,
               setFinished, pausePreSnapshot, save, resume, vars, snap
      <3>2. sent' = sent
        BY <3>1, SentKept DEF Running
      <3>3. ~mFromGuest.mClosed
        <4>1. ~stop /\ ~stopFromHost
          BY <3>1 DEF stop, stopFromHost, Running
        <4> QED BY <4>1, OnlyStopCloses
      <3>4. image'.from = image.from
        BY <1>1, <3>1 DEF save, snapshotOperation, SnapOK
      <3>5. k > Taken /\ k \in 1 .. sent
        BY <1>1, <1>2, <3>2
      <3> QED BY <1>1, <3>1, <3>3, <3>4, <3>5
    <2> QED BY <2>1, <2>2
  <1> QED BY <1>3, <1>4, <1>5
-----------------------------------------------------------------------------
(* The theorems. *)

LEMMA InitChannel ==
    ASSUME Init
    PROVE  ChannelInv
  <1> USE Constants
  <1>1. /\ QueueOK(mFromGuest) /\ Contents(mFromGuest) = <<>> /\ mFromGuest.mCount = 0
        /\ ~mFromGuest.mClosed
    BY NewQueueOK DEF Init, NewQueue
  <1>2. QueueOK(mToGuest) /\ Contents(mToGuest) = <<>> /\ ~mToGuest.mClosed
    BY NewQueueOK DEF Init, NewQueue
  <1>3. <<>> \in Seq(Nat) /\ <<>> \in Seq(Seq(Nat)) /\ Len(<<>>) = 0 /\ Following(<<>>, 0)
    BY EmptyFollows
  <1>4. ChanOK
    BY <1>1, <1>2, StateTyped DEF Init, ChanOK
  <1>5. GuestOK
    <2>1. gleft \in 0 .. ReplySize /\ sent \in 0 .. MaxUnits /\ gsize \in Nat
      BY DEF Init
    <2>2. mDataForReading \in Seq(Nat) /\ gotten \in Seq(Nat)
      BY <1>3 DEF Init
    <2>3. /\ gpc = "idle" /\ gop = "write" /\ gask = FALSE /\ gany = FALSE /\ gclosed = FALSE
          /\ gwait = {} /\ asks = {}
      BY DEF Init
    <2> QED BY <2>1, <2>2, <2>3 DEF GuestOK
  <1>6. ThreadOK
    <2>1. hwanted \in 0 .. MaxWanted /\ executed \in Nat /\ owed \in 0 .. ReplyBuffers /\ replied \in Nat
      BY DEF Init
    <2>2. hgot \in Seq(Nat) /\ mReadBuffer \in Seq(Nat) /\ readBuf \in Seq(Nat)
      BY <1>3 DEF Init
    <2>3. hpc = "top" /\ started = FALSE
      BY DEF Init
    <2> QED BY <2>1, <2>2, <2>3 DEF ThreadOK
  <1>7. SnapOK
    BY <1>3 DEF Init, NoImage, SnapOK
  <1>8. GuestInv /\ WakeInv
    BY DEF Init, GuestInv, WakeInv, Waiting
  <1>9. ThreadInv
    BY DEF Init, ThreadInv
  <1>10. ClosedInv
    BY <1>1, <1>2 DEF Init, ClosedInv
  <1>11. WaitsForReason
    BY DEF Init, WaitsForReason
  <1>12. Taken = 0 /\ Received = 0
    BY <1>3 DEF Init, Taken, Received
  <1>13. Consecutive(<<>>, 0, 0)
    BY ConsecutiveEmpty
  <1>14. StreamExact
    BY <1>1, <1>3, <1>12, <1>13 DEF Init, StreamExact
  <1>15. QueueInv /\ AsksInv
    BY <1>1, <1>12 DEF Init, QueueInv, AsksInv
  <1>16. Answered = {}
    BY DEF Init, Answered
  <1>17. Cardinality(Answered) = 0
    BY <1>16, FS_EmptySet
  <1>18. RepliesExact
    BY <1>2, <1>3, <1>12, <1>13, <1>17 DEF Init, RepliesExact
  <1>19. SnapshotInv
    BY DEF Init, NoImage, SnapshotInv
  <1> QED BY <1>4, <1>5, <1>6, <1>7, <1>8, <1>9, <1>10, <1>11, <1>14, <1>15, <1>18, <1>19
          DEF ChannelInv, TypeOK

(* Every step of guest, render thread, host and snapshotter keeps the      *)
(* inductive invariant of the channel.                                     *)
THEOREM ChannelInvariant == Spec => []ChannelInv
  <1>1. Init => ChannelInv
    BY InitChannel
  <1>2. ChannelInv /\ [Next]_vars => ChannelInv'
    <2> SUFFICES ASSUME ChannelInv, [Next]_vars PROVE ChannelInv'
      OBVIOUS
    <2>1. TypeOK'
      BY ChanTyped, GuestTyped, ThreadTyped, SnapTyped DEF TypeOK
    <2> QED BY <2>1, GuestKept, ThreadKept, ClosedKept, WakeKept, WaitsKept, StreamKept,
               AsksKept, RepliesKept, SnapshotKept DEF ChannelInv
  <1> QED BY <1>1, <1>2, PTL DEF Spec, Safety

(* The positions and counts of the queues stay within their rings, and     *)
(* every process stays within its own code.                                *)
THEOREM TypeCorrect == Spec => []TypeOK
  <1>1. ChannelInv => TypeOK
    BY DEF ChannelInv
  <1> QED BY <1>1, ChannelInvariant, PTL

(* Every unit that the guest sends through onGuestSend reaches the         *)
(* decoder once and in order, whatever the queue wraps, grows or waits.    *)
THEOREM StreamReachesThread == Spec => []StreamExact
  <1>1. ChannelInv => StreamExact
    BY DEF ChannelInv
  <1> QED BY <1>1, ChannelInvariant, PTL

(* The guest reads the replies in order, and every command that has been   *)
(* decoded is answered by exactly its reply until the channel is closed.   *)
THEOREM RepliesReachGuest == Spec => []RepliesExact
  <1>1. ChannelInv => RepliesExact
    BY DEF ChannelInv
  <1> QED BY <1>1, ChannelInvariant, PTL

(* A thread that waits on a condition variable of the channel waits for    *)
(* something that is not there, although only the edges are signalled.     *)
THEOREM WaitersHaveReason == Spec => []WaitsForReason
  <1>1. ChannelInv => WaitsForReason
    BY DEF ChannelInv
  <1> QED BY <1>1, ChannelInvariant, PTL

(* A guest that sleeps for an event that is there, or on a channel that    *)
(* the host has stopped, is being woken: WakeInv says by whom, and         *)
(* ClosedInv that mState is what the queues are.                           *)
THEOREM GuestNeverForgotten == Spec => []GuestNotForgotten
  <1>1. ChannelInv => GuestNotForgotten
    <2> SUFFICES ASSUME ChannelInv, gpc = "sleep", gwait # {}, ~gclosed, wake = {}
                 PROVE  /\ "CanRead" \in gwait => ~canPop(mToGuest)
                        /\ "CanWrite" \in gwait => ~canPush(mFromGuest)
                        /\ ctl # "stopped"
      BY DEF GuestNotForgotten
    <2>1. gwait \subseteq {Event} /\ WakeInv /\ ClosedInv
      BY DEF ChannelInv, GuestInv
    <2>2. ctl # "stopped"
      BY <2>1 DEF WakeInv
    <2>3. mState = StateOf(mFromGuest, mToGuest)
      BY <2>1, <2>2 DEF ClosedInv
    <2>4. gwait = {Event} /\ Event \notin mState
      BY <2>1 DEF WakeInv
    <2> QED BY <2>2, <2>3, <2>4 DEF StateOf
  <1> QED BY <1>1, ChannelInvariant, PTL

(* When a snapshot is complete, every unit that the guest had sent is in   *)
(* the saved thread or in the saved queue, however onSave and the render   *)
(* thread were interleaved.                                                *)
THEOREM NothingMissed == Spec => []NoCommandMissed
  <1>1. ChannelInv => NoCommandMissed
    BY DEF ChannelInv, SnapshotInv, NoCommandMissed
  <1> QED BY <1>1, ChannelInvariant, PTL
=============================================================================
