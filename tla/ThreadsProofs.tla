--------------------------- MODULE ThreadsProofs ---------------------------
(***************************************************************************)
(* For any queue length, timers and burst of requests: the mutexes, the    *)
(* bounds of the queues, the wake-up of the scheduler and the place of the *)
(* timer's message.                                                        *)
(***************************************************************************)
EXTENDS Threads, TLAPS

\* The places of the three threads, and what a mutex says of them, one by one.
Places ==
    /\ pc["timer"] \in {"asleep", "lock", "test", "drop", "append", "signal"}
    /\ pc["sched"] \in {"lock", "test", "wait", "waiting", "rewait", "handler", "add", "signal"}
    /\ pc["net"] \in {"lock", "test_snd", "test_rcv", "wait", "waiting", "rewait", "unlock",
                      "lock_snd", "send", "lock_rcv", "receive", "nap"}

Owners ==
    /\ owner["rcv"] = "timer" <=> pc["timer"] \in {"test", "append"}
    /\ owner["rcv"] = "sched" <=> pc["sched"] \in {"test", "wait", "handler", "add", "signal"}
    /\ owner["rcv"] = "net" <=> pc["net"] \in {"receive", "nap"}
    /\ owner["snd"] # "timer"
    /\ owner["snd"] = "sched" <=> pc["sched"] = "add"
    /\ owner["snd"] = "net" <=> pc["net"] = "send"
    /\ owner["mgr"] # "timer"
    /\ owner["mgr"] # "sched"
    /\ owner["mgr"] = "net" <=> pc["net"] \in {"test_snd", "test_rcv", "wait", "unlock"}

LEMMA PlacesDef == (\A t \in Thread : pc[t] \in Labels[t]) <=> Places
BY DEF Thread, Labels, Places

LEMMA OwnersDef == MutexesHeld <=> Owners
BY DEF MutexesHeld, Mutex, Thread, Holds, Owners

\* The rest of the types.
DataTypes ==
    /\ DOMAIN pc = Thread
    /\ owner \in [Mutex -> Thread \cup {"none"}]
    /\ rcvQ \in Seq(Message)
    /\ sndQ \in Nat
    /\ tick \in Nat
    /\ at \in 0 .. NumTimers
    /\ m \in Message
    /\ left \in Nat

\* The parts of IInv that are about the queues and the message at hand.
Queued == QueuesBounded /\ Known /\ NoLostWakeup /\ TimerMessageFirst

LEMMA IInvDef == IInv <=> Places /\ Owners /\ DataTypes /\ Queued
BY PlacesDef, OwnersDef DEF IInv, TypeOK, DataTypes, Queued

LEMMA TimerStep ==
    ASSUME Places, Owners, DataTypes, Queued, Timer
    PROVE  Places' /\ Owners' /\ DataTypes' /\ Queued'
<1> USE QueueAssumption, TimerAssumption, BurstAssumption
<1> USE DEF Goto, SignalAndGoto, Acquire, Release, Thread, Mutex, Packet, Message
<1>1. CASE TimerWake
  <2>1. Places'
    BY <1>1 DEF TimerWake, NextDue, DueFrom, Places, DataTypes
  <2>2. Owners'
    BY <1>1 DEF TimerWake, NextDue, DueFrom, Places, Owners, DataTypes
  <2>3. DataTypes'
    BY <1>1 DEF TimerWake, NextDue, DueFrom, DataTypes, Queued, Known, Timers
  <2>4. Queued'
    BY <1>1 DEF TimerWake, NextDue, DueFrom, Places, Owners, DataTypes, Queued, QueuesBounded, Known, NoLostWakeup, TimerMessageFirst
  <2> QED
    BY <2>1, <2>2, <2>3, <2>4
<1>2. CASE TimerLock
  <2>1. Places'
    BY <1>2 DEF TimerLock, Places, DataTypes
  <2>2. Owners'
    BY <1>2 DEF TimerLock, Places, Owners, DataTypes
  <2>3. DataTypes'
    BY <1>2 DEF TimerLock, DataTypes, Queued, Known, Timers
  <2>4. Queued'
    BY <1>2 DEF TimerLock, Places, Owners, DataTypes, Queued, QueuesBounded, Known, NoLostWakeup, TimerMessageFirst
  <2> QED
    BY <2>1, <2>2, <2>3, <2>4
<1>3. CASE TimerFull
  <2>1. Places'
    BY <1>3 DEF TimerFull, Places, DataTypes
  <2>2. Owners'
    BY <1>3 DEF TimerFull, Places, Owners, DataTypes
  <2>3. DataTypes'
    BY <1>3 DEF TimerFull, DataTypes, Queued, Known, Timers
  <2>4. Queued'
    BY <1>3 DEF TimerFull, Places, Owners, DataTypes, Queued, QueuesBounded, Known, NoLostWakeup, TimerMessageFirst
  <2> QED
    BY <2>1, <2>2, <2>3, <2>4
<1>4. CASE TimerDrop
  <2>1. Places'
    BY <1>4 DEF TimerDrop, Places, DataTypes
  <2>2. Owners'
    BY <1>4 DEF TimerDrop, Places, Owners, DataTypes
  <2>3. DataTypes'
    BY <1>4 DEF TimerDrop, DataTypes, Queued, Known, Timers
  <2>4. Queued'
    BY <1>4 DEF TimerDrop, Places, Owners, DataTypes, Queued, QueuesBounded, Known, NoLostWakeup, TimerMessageFirst
  <2> QED
    BY <2>1, <2>2, <2>3, <2>4
<1>5. CASE TimerRoom
  <2>1. Places'
    BY <1>5 DEF TimerRoom, Places, DataTypes
  <2>2. Owners'
    BY <1>5 DEF TimerRoom, Places, Owners, DataTypes
  <2>3. DataTypes'
    BY <1>5 DEF TimerRoom, DataTypes, Queued, Known, Timers
  <2>4. Queued'
    BY <1>5 DEF TimerRoom, Places, Owners, DataTypes, Queued, QueuesBounded, Known, NoLostWakeup, TimerMessageFirst
  <2> QED
    BY <2>1, <2>2, <2>3, <2>4
<1>6. CASE TimerAppend
  <2>1. Places'
    BY <1>6 DEF TimerAppend, Places, DataTypes
  <2>2. Owners'
    BY <1>6 DEF TimerAppend, Places, Owners, DataTypes
  <2>3. DataTypes'
    BY <1>6 DEF TimerAppend, DataTypes, Queued, Known, Timers
  <2>4. Queued'
    BY <1>6 DEF TimerAppend, Places, Owners, DataTypes, Queued, QueuesBounded, Known, NoLostWakeup, TimerMessageFirst
  <2> QED
    BY <2>1, <2>2, <2>3, <2>4
<1>7. CASE TimerSignal
  <2>1. Places'
    BY <1>7 DEF TimerSignal, NextDue, DueFrom, Places, DataTypes
  <2>2. Owners'
    BY <1>7 DEF TimerSignal, NextDue, DueFrom, Places, Owners, DataTypes
  <2>3. DataTypes'
    BY <1>7 DEF TimerSignal, NextDue, DueFrom, DataTypes, Queued, Known, Timers
  <2>4. Queued'
    BY <1>7 DEF TimerSignal, NextDue, DueFrom, Places, Owners, DataTypes, Queued, QueuesBounded, Known, NoLostWakeup, TimerMessageFirst
  <2> QED
    BY <2>1, <2>2, <2>3, <2>4
<1> QED
  BY <1>1, <1>2, <1>3, <1>4, <1>5, <1>6, <1>7 DEF Timer

LEMMA SchedStep ==
    ASSUME Places, Owners, DataTypes, Queued, Sched
    PROVE  Places' /\ Owners' /\ DataTypes' /\ Queued'
<1> USE QueueAssumption, TimerAssumption, BurstAssumption
<1> USE DEF Goto, SignalAndGoto, Acquire, Release, Thread, Mutex, Packet, Message
<1>1. CASE SchedLock
  <2>1. Places'
    BY <1>1 DEF SchedLock, Places, DataTypes
  <2>2. Owners'
    BY <1>1 DEF SchedLock, Places, Owners, DataTypes
  <2>3. DataTypes'
    BY <1>1 DEF SchedLock, DataTypes, Queued, Known, Timers
  <2>4. Queued'
    BY <1>1 DEF SchedLock, Places, Owners, DataTypes, Queued, QueuesBounded, Known, NoLostWakeup, TimerMessageFirst
  <2> QED
    BY <2>1, <2>2, <2>3, <2>4
<1>2. CASE SchedEmpty
  <2>1. Places'
    BY <1>2 DEF SchedEmpty, Places, DataTypes
  <2>2. Owners'
    BY <1>2 DEF SchedEmpty, Places, Owners, DataTypes
  <2>3. DataTypes'
    BY <1>2 DEF SchedEmpty, DataTypes, Queued, Known, Timers
  <2>4. Queued'
    BY <1>2 DEF SchedEmpty, Places, Owners, DataTypes, Queued, QueuesBounded, Known, NoLostWakeup, TimerMessageFirst
  <2> QED
    BY <2>1, <2>2, <2>3, <2>4
<1>3. CASE SchedWait
  <2>1. Places'
    BY <1>3 DEF SchedWait, Places, DataTypes
  <2>2. Owners'
    BY <1>3 DEF SchedWait, Places, Owners, DataTypes
  <2>3. DataTypes'
    BY <1>3 DEF SchedWait, DataTypes, Queued, Known, Timers
  <2>4. Queued'
    BY <1>3 DEF SchedWait, Places, Owners, DataTypes, Queued, QueuesBounded, Known, NoLostWakeup, TimerMessageFirst
  <2> QED
    BY <2>1, <2>2, <2>3, <2>4
<1>4. CASE SchedRewait
  <2>1. Places'
    BY <1>4 DEF SchedRewait, Places, DataTypes
  <2>2. Owners'
    BY <1>4 DEF SchedRewait, Places, Owners, DataTypes
  <2>3. DataTypes'
    BY <1>4 DEF SchedRewait, DataTypes, Queued, Known, Timers
  <2>4. Queued'
    BY <1>4 DEF SchedRewait, Places, Owners, DataTypes, Queued, QueuesBounded, Known, NoLostWakeup, TimerMessageFirst
  <2> QED
    BY <2>1, <2>2, <2>3, <2>4
<1>5. CASE SchedTake
  <2>1. Places'
    BY <1>5 DEF SchedTake, Places, DataTypes
  <2>2. Owners'
    BY <1>5 DEF SchedTake, Places, Owners, DataTypes
  <2>3. DataTypes'
    <3>1. Head(rcvQ) \in Message /\ Tail(rcvQ) \in Seq(Message)
      BY <1>5 DEF SchedTake, DataTypes
    <3>2. Queues(Head(rcvQ)) \subseteq Nat
      BY DEF Queues, HandleRcvMsg, HandleOnPing, HandleOnFindNode, HandleOnGetPeer,
             HandlePingRsp, HandleFindNodeRsp, PeriodPing, MsgTimeoutHandler
    <3> QED
      BY <1>5, <3>1, <3>2 DEF SchedTake, DataTypes
  <2>4. Queued'
    BY <1>5 DEF SchedTake, Places, Owners, DataTypes, Queued, QueuesBounded, Known, NoLostWakeup, TimerMessageFirst
  <2> QED
    BY <2>1, <2>2, <2>3, <2>4
<1>6. CASE SchedQueue
  <2>1. Places'
    BY <1>6 DEF SchedQueue, Places, DataTypes
  <2>2. Owners'
    BY <1>6 DEF SchedQueue, Places, Owners, DataTypes
  <2>3. DataTypes'
    BY <1>6 DEF SchedQueue, DataTypes, Queued, Known, Timers
  <2>4. Queued'
    BY <1>6 DEF SchedQueue, Places, Owners, DataTypes, Queued, QueuesBounded, Known, NoLostWakeup, TimerMessageFirst
  <2> QED
    BY <2>1, <2>2, <2>3, <2>4
<1>7. CASE SchedAdd
  <2>1. Places'
    BY <1>7 DEF SchedAdd, Places, DataTypes
  <2>2. Owners'
    BY <1>7 DEF SchedAdd, Places, Owners, DataTypes
  <2>3. DataTypes'
    BY <1>7 DEF SchedAdd, DataTypes, Queued, Known, Timers
  <2>4. Queued'
    BY <1>7 DEF SchedAdd, Places, Owners, DataTypes, Queued, QueuesBounded, Known, NoLostWakeup, TimerMessageFirst
  <2> QED
    BY <2>1, <2>2, <2>3, <2>4
<1>8. CASE SchedSignal
  <2>1. Places'
    BY <1>8 DEF SchedSignal, Places, DataTypes
  <2>2. Owners'
    BY <1>8 DEF SchedSignal, Places, Owners, DataTypes
  <2>3. DataTypes'
    BY <1>8 DEF SchedSignal, DataTypes, Queued, Known, Timers
  <2>4. Queued'
    BY <1>8 DEF SchedSignal, Places, Owners, DataTypes, Queued, QueuesBounded, Known, NoLostWakeup, TimerMessageFirst
  <2> QED
    BY <2>1, <2>2, <2>3, <2>4
<1>9. CASE SchedDone
  <2>1. Places'
    BY <1>9 DEF SchedDone, Places, DataTypes
  <2>2. Owners'
    BY <1>9 DEF SchedDone, Places, Owners, DataTypes
  <2>3. DataTypes'
    <3>1. m # Packet => Tail(rcvQ) \in Seq(Message)
      BY <1>9 DEF SchedDone, DataTypes, Queued, TimerMessageFirst
    <3>2. rcvQ' \in Seq(Message)
      BY <1>9, <3>1 DEF SchedDone, DataTypes
    <3>3. DOMAIN pc' = Thread /\ owner' \in [Mutex -> Thread \cup {"none"}] /\ m' \in Message
      BY <1>9 DEF SchedDone, DataTypes
    <3>4. UNCHANGED << sndQ, tick, at, left >>
      BY <1>9 DEF SchedDone
    <3> QED
      BY <3>2, <3>3, <3>4 DEF DataTypes
  <2>4. Queued'
    BY <1>9 DEF SchedDone, Places, Owners, DataTypes, Queued, QueuesBounded, Known, NoLostWakeup, TimerMessageFirst
  <2> QED
    BY <2>1, <2>2, <2>3, <2>4
<1> QED
  BY <1>1, <1>2, <1>3, <1>4, <1>5, <1>6, <1>7, <1>8, <1>9 DEF Sched

LEMMA NetStep ==
    ASSUME Places, Owners, DataTypes, Queued, Net
    PROVE  Places' /\ Owners' /\ DataTypes' /\ Queued'
<1> USE QueueAssumption, TimerAssumption, BurstAssumption
<1> USE DEF Goto, SignalAndGoto, Acquire, Release, Thread, Mutex, Packet, Message
<1>1. CASE NetLockMgr
  <2>1. Places'
    BY <1>1 DEF NetLockMgr, Places, DataTypes
  <2>2. Owners'
    BY <1>1 DEF NetLockMgr, Places, Owners, DataTypes
  <2>3. DataTypes'
    BY <1>1 DEF NetLockMgr, DataTypes, Queued, Known, Timers
  <2>4. Queued'
    BY <1>1 DEF NetLockMgr, Places, Owners, DataTypes, Queued, QueuesBounded, Known, NoLostWakeup, TimerMessageFirst
  <2> QED
    BY <2>1, <2>2, <2>3, <2>4
<1>2. CASE NetTestSnd
  <2>1. Places'
    BY <1>2 DEF NetTestSnd, Places, DataTypes
  <2>2. Owners'
    BY <1>2 DEF NetTestSnd, Places, Owners, DataTypes
  <2>3. DataTypes'
    BY <1>2 DEF NetTestSnd, DataTypes, Queued, Known, Timers
  <2>4. Queued'
    BY <1>2 DEF NetTestSnd, Places, Owners, DataTypes, Queued, QueuesBounded, Known, NoLostWakeup, TimerMessageFirst
  <2> QED
    BY <2>1, <2>2, <2>3, <2>4
<1>3. CASE NetTestRcv
  <2>1. Places'
    BY <1>3 DEF NetTestRcv, Places, DataTypes
  <2>2. Owners'
    BY <1>3 DEF NetTestRcv, Places, Owners, DataTypes
  <2>3. DataTypes'
    BY <1>3 DEF NetTestRcv, DataTypes, Queued, Known, Timers
  <2>4. Queued'
    BY <1>3 DEF NetTestRcv, Places, Owners, DataTypes, Queued, QueuesBounded, Known, NoLostWakeup, TimerMessageFirst
  <2> QED
    BY <2>1, <2>2, <2>3, <2>4
<1>4. CASE NetWait
  <2>1. Places'
    BY <1>4 DEF NetWait, Places, DataTypes
  <2>2. Owners'
    BY <1>4 DEF NetWait, Places, Owners, DataTypes
  <2>3. DataTypes'
    BY <1>4 DEF NetWait, DataTypes, Queued, Known, Timers
  <2>4. Queued'
    BY <1>4 DEF NetWait, Places, Owners, DataTypes, Queued, QueuesBounded, Known, NoLostWakeup, TimerMessageFirst
  <2> QED
    BY <2>1, <2>2, <2>3, <2>4
<1>5. CASE NetRewait
  <2>1. Places'
    BY <1>5 DEF NetRewait, Places, DataTypes
  <2>2. Owners'
    BY <1>5 DEF NetRewait, Places, Owners, DataTypes
  <2>3. DataTypes'
    BY <1>5 DEF NetRewait, DataTypes, Queued, Known, Timers
  <2>4. Queued'
    BY <1>5 DEF NetRewait, Places, Owners, DataTypes, Queued, QueuesBounded, Known, NoLostWakeup, TimerMessageFirst
  <2> QED
    BY <2>1, <2>2, <2>3, <2>4
<1>6. CASE NetUnlockMgr
  <2>1. Places'
    BY <1>6 DEF NetUnlockMgr, Places, DataTypes
  <2>2. Owners'
    BY <1>6 DEF NetUnlockMgr, Places, Owners, DataTypes
  <2>3. DataTypes'
    BY <1>6 DEF NetUnlockMgr, DataTypes, Queued, Known, Timers
  <2>4. Queued'
    BY <1>6 DEF NetUnlockMgr, Places, Owners, DataTypes, Queued, QueuesBounded, Known, NoLostWakeup, TimerMessageFirst
  <2> QED
    BY <2>1, <2>2, <2>3, <2>4
<1>7. CASE NetLockSnd
  <2>1. Places'
    BY <1>7 DEF NetLockSnd, Places, DataTypes
  <2>2. Owners'
    BY <1>7 DEF NetLockSnd, Places, Owners, DataTypes
  <2>3. DataTypes'
    BY <1>7 DEF NetLockSnd, DataTypes, Queued, Known, Timers
  <2>4. Queued'
    BY <1>7 DEF NetLockSnd, Places, Owners, DataTypes, Queued, QueuesBounded, Known, NoLostWakeup, TimerMessageFirst
  <2> QED
    BY <2>1, <2>2, <2>3, <2>4
<1>8. CASE NetSend
  <2>1. Places'
    BY <1>8 DEF NetSend, Places, DataTypes
  <2>2. Owners'
    BY <1>8 DEF NetSend, Places, Owners, DataTypes
  <2>3. DataTypes'
    BY <1>8 DEF NetSend, DataTypes, Queued, Known, Timers
  <2>4. Queued'
    BY <1>8 DEF NetSend, Places, Owners, DataTypes, Queued, QueuesBounded, Known, NoLostWakeup, TimerMessageFirst
  <2> QED
    BY <2>1, <2>2, <2>3, <2>4
<1>9. CASE NetLockRcv
  <2>1. Places'
    BY <1>9 DEF NetLockRcv, Places, DataTypes
  <2>2. Owners'
    BY <1>9 DEF NetLockRcv, Places, Owners, DataTypes
  <2>3. DataTypes'
    BY <1>9 DEF NetLockRcv, DataTypes, Queued, Known, Timers
  <2>4. Queued'
    BY <1>9 DEF NetLockRcv, Places, Owners, DataTypes, Queued, QueuesBounded, Known, NoLostWakeup, TimerMessageFirst
  <2> QED
    BY <2>1, <2>2, <2>3, <2>4
<1>10. CASE NetReceive
  <2>1. Places'
    BY <1>10 DEF NetReceive, Places, DataTypes
  <2>2. Owners'
    BY <1>10 DEF NetReceive, Places, Owners, DataTypes
  <2>3. DataTypes'
    <3>1. Append(rcvQ, Packet) \in Seq(Message)
      BY DEF DataTypes
    <3>2. DOMAIN pc' = Thread /\ rcvQ' \in Seq(Message)
      BY <1>10, <3>1 DEF NetReceive, DataTypes
    <3> QED
      BY <1>10, <3>2 DEF NetReceive, DataTypes
  <2>4. Queued'
    BY <1>10 DEF NetReceive, Places, Owners, DataTypes, Queued, QueuesBounded, Known, NoLostWakeup, TimerMessageFirst
  <2> QED
    BY <2>1, <2>2, <2>3, <2>4
<1>11. CASE NetNoRoom
  <2>1. Places'
    BY <1>11 DEF NetNoRoom, Places, DataTypes
  <2>2. Owners'
    BY <1>11 DEF NetNoRoom, Places, Owners, DataTypes
  <2>3. DataTypes'
    BY <1>11 DEF NetNoRoom, DataTypes, Queued, Known, Timers
  <2>4. Queued'
    BY <1>11 DEF NetNoRoom, Places, Owners, DataTypes, Queued, QueuesBounded, Known, NoLostWakeup, TimerMessageFirst
  <2> QED
    BY <2>1, <2>2, <2>3, <2>4
<1>12. CASE NetNap
  <2>1. Places'
    BY <1>12 DEF NetNap, Places, DataTypes
  <2>2. Owners'
    BY <1>12 DEF NetNap, Places, Owners, DataTypes
  <2>3. DataTypes'
    BY <1>12 DEF NetNap, DataTypes, Queued, Known, Timers
  <2>4. Queued'
    BY <1>12 DEF NetNap, Places, Owners, DataTypes, Queued, QueuesBounded, Known, NoLostWakeup, TimerMessageFirst
  <2> QED
    BY <2>1, <2>2, <2>3, <2>4
<1> QED
  BY <1>1, <1>2, <1>3, <1>4, <1>5, <1>6, <1>7, <1>8, <1>9, <1>10, <1>11, <1>12 DEF Net

LEMMA SpuriousStep ==
    ASSUME Places, Owners, DataTypes, Queued, NEW t \in Thread, Spurious(t)
    PROVE  Places' /\ Owners' /\ DataTypes' /\ Queued'
<1>1. Places'
  BY DEF Spurious, Goto, Thread, Places, DataTypes
<1>2. Owners'
  BY DEF Spurious, Goto, Thread, Places, Owners, DataTypes
<1>3. DataTypes'
  BY DEF Spurious, Goto, Thread, DataTypes
<1>4. Queued'
  BY DEF Spurious, Goto, Thread, Places, DataTypes, Queued, QueuesBounded, Known,
         NoLostWakeup, TimerMessageFirst
<1> QED
  BY <1>1, <1>2, <1>3, <1>4

LEMMA IInvInit == Init => IInv
<1> SUFFICES ASSUME Init PROVE Places /\ Owners /\ DataTypes /\ Queued
  BY IInvDef
<1> USE QueueAssumption, TimerAssumption DEF Init, Thread, Packet, Message
<1>1. Places /\ DataTypes
  BY DEF Places, DataTypes, Mutex
<1>2. Owners
  BY DEF Owners, Mutex
<1>3. Queued
  BY DEF Queued, QueuesBounded, Known, NoLostWakeup, TimerMessageFirst
<1> QED
  BY <1>1, <1>2, <1>3

LEMMA IInvNext == IInv /\ [Next]_vars => IInv'
<1> SUFFICES ASSUME Places, Owners, DataTypes, Queued, [Next]_vars
             PROVE  Places' /\ Owners' /\ DataTypes' /\ Queued'
  BY IInvDef, PTL
<1>1. CASE UNCHANGED vars
  BY <1>1 DEF vars, Places, Owners, DataTypes, Queued, QueuesBounded, Known,
              NoLostWakeup, TimerMessageFirst
<1> QED
  BY <1>1, TimerStep, SchedStep, NetStep, SpuriousStep DEF Next

THEOREM ThreadsInvariance == Spec => []IInv
<1> QED
  BY IInvInit, IInvNext, PTL DEF Spec

\* Every variable of the three threads keeps its type.
THEOREM ThreadsTypeCorrect == Spec => []TypeOK
<1>1. IInv => TypeOK
  BY DEF IInv
<1> QED
  BY <1>1, ThreadsInvariance, PTL

\* Each mutex is held by the thread that stands where the code holds it.
THEOREM MutualExclusion == Spec => []MutexesHeld
<1>1. IInv => MutexesHeld
  BY DEF IInv
<1> QED
  BY <1>1, ThreadsInvariance, PTL

\* Neither queue ever gets longer than MAX_MSG_QUEUE_SIZE.
THEOREM QueuesStayBounded == Spec => []QueuesBounded
<1>1. IInv => QueuesBounded
  BY DEF IInv
<1> QED
  BY <1>1, ThreadsInvariance, PTL

\* Whoever holds snd_q.mutex waits for no other mutex.
THEOREM NoDeadlyEmbrace == Spec => []NoCircularWait
<1>1. IInv => NoCircularWait
  <2> SUFFICES ASSUME Places, Owners
               PROVE  NoCircularWait
    BY IInvDef
  <2> QED
    BY DEF NoCircularWait, WaitsForMutex, Thread, Places, Owners
<1> QED
  BY <1>1, ThreadsInvariance, PTL

\* The scheduler never sleeps beside a message unless its wake-up is on the way.
THEOREM SchedulerIsWoken == Spec => []NoLostWakeup
<1>1. IInv => NoLostWakeup
  BY DEF IInv
<1> QED
  BY <1>1, ThreadsInvariance, PTL

\* The message of the timer that is being handled stays first in the queue.
THEOREM MessageStaysFirst == Spec => []TimerMessageFirst
<1>1. IInv => TimerMessageFirst
  BY DEF IInv
<1> QED
  BY <1>1, ThreadsInvariance, PTL
=============================================================================
