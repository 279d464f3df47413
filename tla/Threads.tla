------------------------------ MODULE Threads ------------------------------
(***************************************************************************)
(* The three threads of tools/dht_spider.cpp and the two queues between    *)
(* them.  timer_thread puts a message into rcv_q for every timer that is   *)
(* due, net_thread receives packets into rcv_q and sends what is in snd_q, *)
(* and msg_schedule_thread runs the handlers, which fill snd_q.            *)
(*                                                                         *)
(* A step is what a thread does between two points where another thread    *)
(* can see the difference: a mutex taken or released, a condition waited   *)
(* for or signalled, a shared counter read or written.  The contents of    *)
(* packets and replies, and what a handler does to the tables that only    *)
(* the scheduler touches, are left out.                                    *)
(***************************************************************************)
EXTENDS Integers, Sequences

CONSTANTS
    MaxQueue,   \* MAX_MSG_QUEUE_SIZE
    NumTimers,  \* number of timers in timer_map
    Interval,   \* timer_arg_t.interval of each timer, in ticks
    PingTimer,  \* the timer whose handler is period_ping
    Cycle,      \* bound: ticks are counted modulo a multiple of all intervals
    MaxRequests \* bound: requests that one run of period_ping queues

Timers == 1 .. NumTimers   \* in the order of map_for_each

ASSUME QueueAssumption == MaxQueue \in Nat \ {0}
ASSUME TimerAssumption == /\ NumTimers \in Nat
                          /\ Interval \in [Timers -> Nat \ {0}]
                          /\ Cycle \in Nat \ {0}
                          /\ \A t \in Timers : Cycle % Interval[t] = 0
                          /\ PingTimer \in Timers
ASSUME BurstAssumption == MaxRequests \in Nat

VARIABLES
    pc,      \* where each thread stands
    owner,   \* the thread that holds each mutex, or "none"
    rcvQ,    \* q_mgr.rcv_q: the list and msg_cnt, its length
    sndQ,    \* q_mgr.snd_q.msg_cnt
    tick,    \* timer_thread: tick
    at,      \* timer_thread: the timer its loop stands on
    m,       \* msg_schedule_thread: m, the message it works on
    left     \* msg_schedule_thread: messages the running handler will still queue

vars == <<pc, owner, rcvQ, sndQ, tick, at, m, left>>

Thread == {"timer", "sched", "net"}
Mutex  == {"rcv", "snd", "mgr"}   \* rcv_q.mutex, snd_q.mutex, q_mgr.mutex

\* A message of rcv_q: a timer's TIMEOUT_MSG, or 0 for a packet (RECV_MSG).
Packet  == 0
Message == 0 .. NumTimers

-----------------------------------------------------------------------------
\* pthread_mutex_lock and pthread_mutex_unlock.
Acquire(t, x) == owner[x] = "none" /\ owner' = [owner EXCEPT ![x] = t]
Release(x)    == owner' = [owner EXCEPT ![x] = "none"]

Goto(t, label) == pc' = [pc EXCEPT ![t] = label]

\* Each condition has one thread that waits for it: sched for rcv_q.cond, net
\* for q_mgr.cond.  A signal sends it on to take its mutex again, if it waits,
\* and is lost otherwise.
SignalAndGoto(waiter, t, label) ==
    pc' = [pc EXCEPT ![t] = label, ![waiter] = IF @ = "waiting" THEN "rewait" ELSE @]

-----------------------------------------------------------------------------
(***************************************************************************)
(* timer_thread                                                            *)
(***************************************************************************)
DueFrom(i) == {t \in i .. NumTimers : tick % Interval[t] = 0}

NextDue(label, i) ==
    \/ /\ DueFrom(i) = {}
       /\ label = "asleep" /\ tick' = (tick + 1) % Cycle /\ at' = 0
    \/ \E t \in DueFrom(i) :
          /\ \A u \in DueFrom(i) : t <= u
          /\ label = "lock" /\ tick' = tick /\ at' = t

\* Sleep(1000) is over: the loop over timer_map begins.
TimerWake ==
    /\ pc["timer"] = "asleep"
    /\ \E label \in {"asleep", "lock"} : NextDue(label, 1) /\ Goto("timer", label)
    /\ UNCHANGED <<owner, rcvQ, sndQ, m, left>>

TimerLock ==
    /\ pc["timer"] = "lock"
    /\ Acquire("timer", "rcv")
    /\ Goto("timer", "test")
    /\ UNCHANGED <<rcvQ, sndQ, tick, at, m, left>>

\* rcv_q is full: unlock, then signal q_mgr.cond.
TimerFull ==
    /\ pc["timer"] = "test"
    /\ Len(rcvQ) >= MaxQueue
    /\ Release("rcv")
    /\ Goto("timer", "drop")
    /\ UNCHANGED <<rcvQ, sndQ, tick, at, m, left>>

\* The message is dropped and the loop left: timers behind this one wait for
\* their next tick.
TimerDrop ==
    /\ pc["timer"] = "drop"
    /\ SignalAndGoto("net", "timer", "asleep")
    /\ tick' = (tick + 1) % Cycle
    /\ at' = 0
    /\ UNCHANGED <<owner, rcvQ, sndQ, m, left>>

TimerRoom ==
    /\ pc["timer"] = "test"
    /\ Len(rcvQ) < MaxQueue
    /\ Goto("timer", "append")
    /\ UNCHANGED <<owner, rcvQ, sndQ, tick, at, m, left>>

TimerAppend ==
    /\ pc["timer"] = "append"
    /\ rcvQ' = Append(rcvQ, at)
    /\ Release("rcv")
    /\ Goto("timer", "signal")
    /\ UNCHANGED <<sndQ, tick, at, m, left>>

TimerSignalMgr ==    \* Mutant: signals q_mgr.cond
    /\ pc["timer"] = "signal"
    /\ \E label \in {"asleep", "lock"} :
          NextDue(label, at + 1) /\ SignalAndGoto("net", "timer", label)
    /\ UNCHANGED <<owner, rcvQ, sndQ, m, left>>

\* Signal rcv_q.cond, and on to the next timer that is due.
TimerSignal ==
    /\ pc["timer"] = "signal"
    /\ \E label \in {"asleep", "lock"} :
          NextDue(label, at + 1) /\ SignalAndGoto("sched", "timer", label)
    /\ UNCHANGED <<owner, rcvQ, sndQ, m, left>>

-----------------------------------------------------------------------------
(***************************************************************************)
(* msg_schedule_thread                                                     *)
(***************************************************************************)
\* How many messages a handler queues.  A request is answered once, or not at
\* all when something is missing in it; responses are not answered.
HandleOnPing      == 0 .. 1
HandleOnFindNode  == 0 .. 1
HandleOnGetPeer   == 0 .. 1
HandlePingRsp     == {0}
HandleFindNodeRsp == {0}

\* handle_rcv_msg; an announce and a packet that has no type run no handler.
HandleRcvMsg == HandleOnPing \cup HandleOnFindNode \cup HandleOnGetPeer
                    \cup HandlePingRsp \cup HandleFindNodeRsp

\* Two rounds of requests to the peers that are due; nothing when route_num
\* is 0.
PeriodPing == 0 .. MaxRequests

MsgTimeoutHandler == {0}

Queues(msg) == IF msg = Packet THEN HandleRcvMsg
               ELSE IF msg = PingTimer THEN PeriodPing ELSE MsgTimeoutHandler

SchedLock ==
    /\ pc["sched"] = "lock"
    /\ Acquire("sched", "rcv")
    /\ Goto("sched", "test")
    /\ UNCHANGED <<rcvQ, sndQ, tick, at, m, left>>

SchedEmptyUnlocks ==    \* Mutant: rcv_q.mutex is given back before the wait
    /\ pc["sched"] = "test"
    /\ Len(rcvQ) <= 0
    /\ Goto("sched", "wait")
    /\ Release("rcv")
    /\ UNCHANGED <<rcvQ, sndQ, tick, at, m, left>>

SchedEmpty ==
    /\ pc["sched"] = "test"
    /\ Len(rcvQ) <= 0
    /\ Goto("sched", "wait")
    /\ UNCHANGED <<owner, rcvQ, sndQ, tick, at, m, left>>

\* pthread_cond_wait gives the mutex back and waits, in one step.
SchedWait ==
    /\ pc["sched"] = "wait"
    /\ Release("rcv")
    /\ Goto("sched", "waiting")
    /\ UNCHANGED <<rcvQ, sndQ, tick, at, m, left>>

SchedRewait ==
    /\ pc["sched"] = "rewait"
    /\ Acquire("sched", "rcv")
    /\ Goto("sched", "test")
    /\ UNCHANGED <<rcvQ, sndQ, tick, at, m, left>>

SchedTakeDeletes ==    \* Mutant: deletes a timer message here and in SchedDone
    /\ pc["sched"] = "test"
    /\ Len(rcvQ) > 0
    /\ m' = Head(rcvQ)
    /\ left' \in Queues(Head(rcvQ))
    /\ rcvQ' = Tail(rcvQ)
    /\ Goto("sched", "handler")
    /\ UNCHANGED <<owner, sndQ, tick, at>>

\* handle_rcv_msg takes a packet out of the queue before its handler runs; a
\* timer's message stays in front of the queue while the handler runs.
SchedTake ==
    /\ pc["sched"] = "test"
    /\ Len(rcvQ) > 0
    /\ m' = Head(rcvQ)
    /\ left' \in Queues(Head(rcvQ))
    /\ rcvQ' = IF Head(rcvQ) = Packet THEN Tail(rcvQ) ELSE rcvQ
    /\ Goto("sched", "handler")
    /\ UNCHANGED <<owner, sndQ, tick, at>>

SchedQueueOneMore ==    \* Mutant: the loop of refresh_route runs once too often
    /\ pc["sched"] = "handler"
    /\ left >= 0
    /\ Acquire("sched", "snd")
    /\ Goto("sched", "add")
    /\ UNCHANGED <<rcvQ, sndQ, tick, at, m, left>>

\* __add_to_msg_queue, called from a handler that then goes on.
SchedQueue ==
    /\ pc["sched"] = "handler"
    /\ left > 0
    /\ Acquire("sched", "snd")
    /\ Goto("sched", "add")
    /\ UNCHANGED <<rcvQ, sndQ, tick, at, m, left>>

SchedAdd ==
    /\ pc["sched"] = "add"
    /\ sndQ' = IF sndQ >= MaxQueue THEN sndQ ELSE sndQ + 1
    /\ left' = left - 1
    /\ Release("snd")
    /\ Goto("sched", "signal")
    /\ UNCHANGED <<rcvQ, tick, at, m>>

SchedSignal ==
    /\ pc["sched"] = "signal"
    /\ SignalAndGoto("net", "sched", "handler")
    /\ UNCHANGED <<owner, rcvQ, sndQ, tick, at, m, left>>

\* The handler is through: list_del of a timer's message, and unlock.
SchedDone ==
    /\ pc["sched"] = "handler"
    /\ left = 0
    /\ rcvQ' = IF m = Packet THEN rcvQ ELSE Tail(rcvQ)
    /\ m' = Packet
    /\ Release("rcv")
    /\ Goto("sched", "lock")
    /\ UNCHANGED <<sndQ, tick, at, left>>

-----------------------------------------------------------------------------
(***************************************************************************)
(* net_thread                                                              *)
(***************************************************************************)
NetLockMgr ==
    /\ pc["net"] = "lock"
    /\ Acquire("net", "mgr")
    /\ Goto("net", "test_snd")
    /\ UNCHANGED <<rcvQ, sndQ, tick, at, m, left>>

\* The loop condition reads the two counters one after the other, under a
\* mutex that nobody else takes.
NetTestSnd ==
    /\ pc["net"] = "test_snd"
    /\ Goto("net", IF sndQ <= 0 THEN "test_rcv" ELSE "unlock")
    /\ UNCHANGED <<owner, rcvQ, sndQ, tick, at, m, left>>

NetTestRcv ==
    /\ pc["net"] = "test_rcv"
    /\ Goto("net", IF Len(rcvQ) >= MaxQueue THEN "wait" ELSE "unlock")
    /\ UNCHANGED <<owner, rcvQ, sndQ, tick, at, m, left>>

NetWait ==
    /\ pc["net"] = "wait"
    /\ Release("mgr")
    /\ Goto("net", "waiting")
    /\ UNCHANGED <<rcvQ, sndQ, tick, at, m, left>>

NetRewait ==
    /\ pc["net"] = "rewait"
    /\ Acquire("net", "mgr")
    /\ Goto("net", "test_snd")
    /\ UNCHANGED <<rcvQ, sndQ, tick, at, m, left>>

NetUnlockMgr ==
    /\ pc["net"] = "unlock"
    /\ Release("mgr")
    /\ Goto("net", "lock_snd")
    /\ UNCHANGED <<rcvQ, sndQ, tick, at, m, left>>

NetLockSnd ==
    /\ pc["net"] = "lock_snd"
    /\ Acquire("net", "snd")
    /\ Goto("net", "send")
    /\ UNCHANGED <<rcvQ, sndQ, tick, at, m, left>>

NetSendKeepsMutex ==    \* Mutant: snd_q.mutex is released at the end of the round
    /\ pc["net"] = "send"
    /\ sndQ' = 0
    /\ Goto("net", "lock_rcv")
    /\ UNCHANGED <<owner, rcvQ, tick, at, m, left>>

\* _send_first_msg sends all there is.
NetSend ==
    /\ pc["net"] = "send"
    /\ sndQ' = 0
    /\ Release("snd")
    /\ Goto("net", "lock_rcv")
    /\ UNCHANGED <<rcvQ, tick, at, m, left>>

NetLockRcv ==
    /\ pc["net"] = "lock_rcv"
    /\ Acquire("net", "rcv")
    /\ Goto("net", "receive")
    /\ UNCHANGED <<rcvQ, sndQ, tick, at, m, left>>

NetReceiveAlways ==    \* Mutant: receives into a full queue
    /\ pc["net"] = "receive"
    /\ \/ /\ rcvQ' = Append(rcvQ, Packet)
          /\ SignalAndGoto("sched", "net", "nap")
       \/ /\ Goto("net", "nap")
          /\ UNCHANGED rcvQ
    /\ UNCHANGED <<owner, sndQ, tick, at, m, left>>

\* rcv_msg does not block; a packet may have arrived or not.
NetReceive ==
    /\ pc["net"] = "receive"
    /\ Len(rcvQ) < MaxQueue
    /\ \/ /\ rcvQ' = Append(rcvQ, Packet)
          /\ SignalAndGoto("sched", "net", "nap")
       \/ /\ Goto("net", "nap")
          /\ UNCHANGED rcvQ
    /\ UNCHANGED <<owner, sndQ, tick, at, m, left>>

NetNoRoom ==
    /\ pc["net"] = "receive"
    /\ Len(rcvQ) >= MaxQueue
    /\ Goto("net", "nap")
    /\ UNCHANGED <<owner, rcvQ, sndQ, tick, at, m, left>>

\* Sleep(50), when there was room, and unlock.
NetNap ==
    /\ pc["net"] = "nap"
    /\ Release("rcv")
    /\ Goto("net", "lock")
    /\ UNCHANGED <<rcvQ, sndQ, tick, at, m, left>>

-----------------------------------------------------------------------------
Init ==
    /\ pc = [t \in Thread |-> IF t = "timer" THEN "asleep" ELSE "lock"]
    /\ owner = [x \in Mutex |-> "none"]
    /\ rcvQ = <<>>
    /\ sndQ = 0
    /\ tick = 0
    /\ at = 0
    /\ m = Packet
    /\ left = 0

Timer == TimerWake \/ TimerLock \/ TimerFull \/ TimerDrop \/ TimerRoom
            \/ TimerAppend \/ TimerSignal
Sched == SchedLock \/ SchedEmpty \/ SchedWait \/ SchedRewait \/ SchedTake
            \/ SchedQueue \/ SchedAdd \/ SchedSignal \/ SchedDone
Net   == NetLockMgr \/ NetTestSnd \/ NetTestRcv \/ NetWait \/ NetRewait
            \/ NetUnlockMgr \/ NetLockSnd \/ NetSend \/ NetLockRcv
            \/ NetReceive \/ NetNoRoom \/ NetNap

\* pthread_cond_wait may return without a signal.
Spurious(t) ==
    /\ pc[t] = "waiting"
    /\ Goto(t, "rewait")
    /\ UNCHANGED <<owner, rcvQ, sndQ, tick, at, m, left>>

Next == Timer \/ Sched \/ Net \/ \E t \in Thread : Spurious(t)

Spec == Init /\ [][Next]_vars

\* While timer_thread sleeps its second the other two have the mutexes to
\* themselves.
OthersInTheSecond == pc["timer"] = "asleep" /\ (Sched \/ Net)

\* When net_thread finds its block condition in that second, nobody but the
\* scheduler wants rcv_q.mutex.
SchedUndisturbed ==
    /\ pc["timer"] = "asleep"
    /\ pc["net"] \in {"test_snd", "test_rcv", "wait", "waiting", "rewait"}
    /\ sndQ <= 0
    /\ Len(rcvQ) >= MaxQueue
    /\ SchedLock \/ SchedRewait

\* No thread is left standing for ever where it can go on, and what is free for a
\* second, again and again, is used in it.  The mutexes are not fair: net_thread,
\* which naps with rcv_q.mutex and takes it back at once, may keep the scheduler
\* from it for ever.  Packets need not arrive.
FairSpec == Spec /\ WF_vars(Timer) /\ WF_vars(Sched) /\ WF_vars(Net)
                 /\ SF_vars(OthersInTheSecond) /\ SF_vars(SchedUndisturbed)

\* The same threads with mutexes that every thread gets in its turn, which is more
\* than POSIX promises: what fails here does not fail by starvation.
FairMutexSpec == Spec /\ SF_vars(Timer) /\ SF_vars(Sched) /\ SF_vars(Net)

-----------------------------------------------------------------------------
(***************************************************************************)
(* Properties                                                              *)
(***************************************************************************)
\* Where the threads may stand.
Labels == [
    timer |-> {"asleep", "lock", "test", "drop", "append", "signal"},
    sched |-> {"lock", "test", "wait", "waiting", "rewait", "handler", "add", "signal"},
    net   |-> {"lock", "test_snd", "test_rcv", "wait", "waiting", "rewait", "unlock",
               "lock_snd", "send", "lock_rcv", "receive", "nap"}]

\* Every variable stays in its type.
TypeOK ==
    /\ DOMAIN pc = Thread /\ \A t \in Thread : pc[t] \in Labels[t]
    /\ owner \in [Mutex -> Thread \cup {"none"}]
    /\ rcvQ \in Seq(Message)
    /\ sndQ \in Nat
    /\ tick \in Nat
    /\ at \in 0 .. NumTimers
    /\ m \in Message
    /\ left \in Nat

\* The places of a thread at which it holds a mutex.
Holds == [
    timer |-> [rcv |-> {"test", "append"}, snd |-> {}, mgr |-> {}],
    sched |-> [rcv |-> {"test", "wait", "handler", "add", "signal"},
               snd |-> {"add"}, mgr |-> {}],
    net   |-> [rcv |-> {"receive", "nap"}, snd |-> {"send"},
               mgr |-> {"test_snd", "test_rcv", "wait", "unlock"}]]

\* A mutex is held by the thread that stands where it holds it, so by one.
MutexesHeld ==
    \A x \in Mutex, t \in Thread : owner[x] = t <=> pc[t] \in Holds[t][x]

\* rcv_q is filled by two threads, each of which tests its length first: it
\* never gets longer than MAX_MSG_QUEUE_SIZE, and neither does snd_q.
QueuesBounded == Len(rcvQ) <= MaxQueue /\ sndQ <= MaxQueue

\* The scheduler takes snd_q.mutex while it holds rcv_q.mutex; whoever holds
\* snd_q.mutex can go on without a mutex, so that no two threads wait for each
\* other.
WaitsForMutex == [
    timer |-> {"lock"},
    sched |-> {"lock", "rewait"} \cup (IF left > 0 THEN {"handler"} ELSE {}),
    net   |-> {"lock", "rewait", "lock_snd", "lock_rcv"}]

NoCircularWait ==
    \A t \in Thread : owner["snd"] = t => pc[t] \notin WaitsForMutex[t]

\* The scheduler never sleeps on a message: when it waits and there is one, the
\* thread that put it there is about to signal.
NoLostWakeup ==
    pc["sched"] = "waiting" /\ rcvQ # <<>> => pc["timer"] = "signal"

\* While the handler of a timer runs, and when its message is deleted from the
\* list, that message is still the first: the pointer taken before the handler
\* ran still points to what the scheduler means.
TimerMessageFirst ==
    pc["sched"] \in {"handler", "add", "signal"} /\ m # Packet =>
        rcvQ # <<>> /\ Head(rcvQ) = m

\* net_thread has room in the queue whenever it looks, and the scheduler does not
\* get the mutex that net_thread takes back after every nap.
Starved ==
    /\ pc["sched"] \in {"lock", "rewait"}
    /\ Len(rcvQ) < MaxQueue
    /\ pc["net"] # "waiting"

\* Whatever is in rcv_q is handled in the end, unless the polling net_thread
\* starves the scheduler for ever.  It can do so only while the queue has room:
\* a full queue, which makes timer_thread drop its messages, is always drained.
HandledOrStarved ==
    \A msg \in Message :
        (\E i \in 1 .. Len(rcvQ) : rcvQ[i] = msg)
            ~> (pc["sched"] = "handler" /\ m = msg) \/ []Starved

-----------------------------------------------------------------------------
(***************************************************************************)
(* The inductive invariant of the proofs in ThreadsProofs.                 *)
(***************************************************************************)
\* What a thread has found out under a mutex it still holds, and which message
\* is at hand.
Known ==
    /\ pc["timer"] = "append" => Len(rcvQ) < MaxQueue
    /\ pc["sched"] = "wait" => rcvQ = <<>>
    /\ pc["sched"] = "add" => left > 0
    /\ pc["sched"] \notin {"handler", "add", "signal"} => m = Packet

IInv == /\ TypeOK
        /\ MutexesHeld
        /\ QueuesBounded
        /\ Known
        /\ NoLostWakeup
        /\ TimerMessageFirst

-----------------------------------------------------------------------------
(***************************************************************************)
(* What the source says of the threads and the code does not keep.         *)
(***************************************************************************)
\* "block condition: receive_q is full and send_q is empty when other thread op
\* receiv_q or send_q, then signal cur thread" (lines 2231-2232): a net_thread
\* that waits although the block condition is over is woken.
NetWoken ==
    pc["net"] = "waiting" /\ (sndQ > 0 \/ Len(rcvQ) < MaxQueue)
        ~> pc["net"] # "waiting" \/ (sndQ = 0 /\ Len(rcvQ) >= MaxQueue)
=============================================================================
