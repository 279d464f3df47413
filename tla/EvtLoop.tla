------------------------------ MODULE EvtLoop ------------------------------
(***************************************************************************)
(* The event loop of platform/evt.c that drives the program: evt_loop      *)
(* sleeps in select until a packet comes or the nearest timer is due, lets *)
(* the socket handler read one packet, and then runs the handlers of the   *)
(* timers that are due.  A time is a pair of seconds and milliseconds, as  *)
(* in the code; the clock of the model counts milliseconds, PerSec to a    *)
(* second.  Handlers take time: the clock also moves while they run.       *)
(***************************************************************************)
EXTENDS Integers, Sequences

CONSTANTS
    PerSec,    \* milliseconds in a second, 1000 in the code
    Timers,    \* the timers main() creates
    List,      \* evt_mgr->timer_head: the timers, the last created first
    Interval,  \* interval_ms of each timer
    Starts,    \* times at which the timers may have been created
    MaxBusy,   \* bound: milliseconds the handlers of one round take
    MaxNow     \* bound: clock

ASSUME ClockAssumption == /\ PerSec \in Nat \ {0}
                          /\ MaxBusy \in Nat
                          /\ MaxNow \in Nat
                          /\ Starts \subseteq 0 .. MaxNow
ASSUME TimerAssumption == /\ List \in Seq(Timers)
                          /\ Timers = {List[i] : i \in 1 .. Len(List)}
                          /\ Timers # {}
                          /\ Interval \in [Timers -> Nat \ {0}]
\* main() creates its timers and enters the loop before the first one is due.
ASSUME StartAssumption == \A t \in Timers : \A s, u \in Starts : u - s <= Interval[t]

VARIABLES
    now,     \* the clock
    when,    \* when_sec and when_ms of each timer
    phase,   \* where evt_loop is
    wakeAt,  \* when select gives up waiting
    snap,    \* the time process_timer_evt compares with
    todo,    \* the timers it has yet to look at
    busy,    \* time spent in the handlers of this round
    start,   \* history: when each timer was created
    fired    \* history: how often each timer's handler ran

vars == <<now, when, phase, wakeAt, snap, todo, busy, start, fired>>

-----------------------------------------------------------------------------
\* get_time.
Clock(n) == [sec |-> n \div PerSec, ms |-> n % PerSec]
Millis(w) == w.sec * PerSec + w.ms

LaterNoCarry(w, interval) ==    \* Mutant: no carry into the seconds
    [sec |-> w.sec + (interval \div PerSec), ms |-> w.ms + (interval % PerSec)]

\* when plus the interval, with the carry of create_timer_evt and
\* process_timer_evt.
Later(w, interval) ==
    LET sec == w.sec + (interval \div PerSec)
        ms  == w.ms + (interval % PerSec)
    IN  IF ms >= PerSec THEN [sec |-> sec + 1, ms |-> ms - PerSec]
                        ELSE [sec |-> sec, ms |-> ms]

Earlier(v, w) == v.sec < w.sec \/ (v.sec = w.sec /\ v.ms < w.ms)

\* get_near_timer.
Nearest == CHOOSE w \in {when[t] : t \in Timers} : \A t \in Timers : ~Earlier(when[t], w)

SelectTimeoutNoBorrow(near, at) ==    \* Mutant: no borrow from the seconds
    LET sec == near.sec - at.sec
        ms  == near.ms - at.ms + (IF near.ms > at.ms THEN 0 ELSE PerSec)
    IN  IF near.sec < at.sec THEN [sec |-> 0, ms |-> 0]
        ELSE [sec |-> sec, ms |-> ms]

\* The timeout evt_loop gives to select.
SelectTimeout(near, at) ==
    LET sec == near.sec - at.sec - (IF near.ms > at.ms THEN 0 ELSE 1)
        ms  == near.ms - at.ms + (IF near.ms > at.ms THEN 0 ELSE PerSec)
    IN  IF near.sec < at.sec THEN [sec |-> 0, ms |-> 0]
        ELSE [sec |-> IF sec < 0 THEN 0 ELSE sec, ms |-> ms]

-----------------------------------------------------------------------------
Sleep ==
    /\ phase = "arm"
    /\ wakeAt' = now + Millis(SelectTimeout(Nearest, Clock(now)))
    /\ phase' = "select"
    /\ busy' = 0
    /\ UNCHANGED <<now, when, snap, todo, start, fired>>

\* Time passes while select waits.
Wait ==
    /\ phase = "select"
    /\ now < wakeAt
    /\ now < MaxNow
    /\ now' = now + 1
    /\ UNCHANGED <<when, phase, wakeAt, snap, todo, busy, start, fired>>

\* A packet makes the socket readable: rcv_msg runs.
Packet ==
    /\ phase = "select"
    /\ phase' = "read"
    /\ UNCHANGED <<now, when, wakeAt, snap, todo, busy, start, fired>>

\* A handler, of the socket or of a timer, takes time.
Work ==
    /\ phase \in {"read", "timers"}
    /\ busy < MaxBusy
    /\ now < MaxNow
    /\ busy' = busy + 1
    /\ now' = now + 1
    /\ UNCHANGED <<when, phase, wakeAt, snap, todo, start, fired>>

BeginTimersWhenIdle ==    \* Mutant: a round that read a packet runs no timers
    \/ /\ phase = "read"
       /\ phase' = "arm"
       /\ UNCHANGED <<now, when, wakeAt, snap, todo, busy, start, fired>>
    \/ /\ phase = "select" /\ now >= wakeAt
       /\ phase' = "timers"
       /\ snap' = Clock(now)
       /\ todo' = List
       /\ UNCHANGED <<now, when, wakeAt, busy, start, fired>>

\* process_timer_evt begins, after a packet was read or select timed out.
BeginTimers ==
    /\ \/ phase = "read"
       \/ phase = "select" /\ now >= wakeAt
    /\ phase' = "timers"
    /\ snap' = Clock(now)
    /\ todo' = List
    /\ UNCHANGED <<now, when, wakeAt, busy, start, fired>>

NextTimerFromNow ==    \* Mutant: counts the interval from the time it ran
    /\ phase = "timers"
    /\ todo # <<>>
    /\ todo' = Tail(todo)
    /\ LET t == Head(todo)
       IN  IF Earlier(snap, when[t])
           THEN UNCHANGED <<when, fired>>
           ELSE /\ when' = [when EXCEPT ![t] = Later(snap, Interval[t])]
                /\ fired' = [fired EXCEPT ![t] = @ + 1]
    /\ UNCHANGED <<now, phase, wakeAt, snap, busy, start>>

\* The next timer on the list: its handler runs if it is due.
NextTimer ==
    /\ phase = "timers"
    /\ todo # <<>>
    /\ todo' = Tail(todo)
    /\ LET t == Head(todo)
       IN  IF Earlier(snap, when[t])
           THEN UNCHANGED <<when, fired>>
           ELSE /\ when' = [when EXCEPT ![t] = Later(@, Interval[t])]
                /\ fired' = [fired EXCEPT ![t] = @ + 1]
    /\ UNCHANGED <<now, phase, wakeAt, snap, busy, start>>

EndTimers ==
    /\ phase = "timers"
    /\ todo = <<>>
    /\ phase' = "arm"
    /\ UNCHANGED <<now, when, wakeAt, snap, todo, busy, start, fired>>

-----------------------------------------------------------------------------
\* main() has created its timers (create_timer_evt), each at its own time, and
\* calls evt_loop.
Init ==
    /\ start \in [Timers -> Starts]
    /\ now \in Starts
    /\ \A t \in Timers : start[t] <= now
    /\ when = [t \in Timers |-> Later(Clock(start[t]), Interval[t])]
    /\ phase = "arm"
    /\ wakeAt = 0
    /\ snap = Clock(now)
    /\ todo = <<>>
    /\ busy = 0
    /\ fired = [t \in Timers |-> 0]

Next == Sleep \/ Wait \/ Packet \/ Work \/ BeginTimers \/ NextTimer \/ EndTimers

Spec == Init /\ [][Next]_vars

-----------------------------------------------------------------------------
Time == [sec : Nat, ms : 0 .. PerSec - 1]

\* Every variable stays in its type; when_ms in particular stays below a second.
TypeOK ==
    /\ now \in Nat
    /\ when \in [Timers -> Time]
    /\ phase \in {"arm", "select", "read", "timers"}
    /\ wakeAt \in Nat
    /\ snap \in Time
    /\ todo \in Seq(Timers)
    /\ busy \in 0 .. MaxBusy
    /\ start \in [Timers -> Starts]
    /\ fired \in [Timers -> Nat]

\* A timer keeps to its grid: after k runs it is due k intervals after it was
\* first due, however late its handlers ran, and it never ran before its time.
KeepsItsGrid ==
    \A t \in Timers :
        /\ Millis(when[t]) = start[t] + (fired[t] + 1) * Interval[t]
        /\ start[t] + fired[t] * Interval[t] <= now

\* The loop sleeps past the time of the nearest timer only when that timer was
\* due already as it went to sleep, and then ends within a second of it.
WakesInTime ==
    phase = "select" /\ now < wakeAt =>
        wakeAt <= Millis(Nearest) \/ (Millis(Nearest) <= now /\ wakeAt <= Millis(Nearest) + PerSec)

\* As long as the handlers of a round take no second, and less than an interval
\* leaves, every timer's handler runs at most a second and one round of handlers
\* late: a stream of packets does not hold the timers up, nor does one timer
\* another.
Unhurried == MaxBusy <= PerSec /\ \A t \in Timers : Interval[t] > PerSec + MaxBusy

LatenessBounded ==
    Unhurried => \A t \in Timers : now - Millis(when[t]) <= PerSec + MaxBusy

-----------------------------------------------------------------------------
(***************************************************************************)
(* The inductive invariant behind these: what a round of the loop knows of *)
(* the timers at each of its phases.                                       *)
(***************************************************************************)
Late(t) == now - Millis(when[t])
Ahead   == {todo[i] : i \in 1 .. Len(todo)}

\* The time the round compares with is not ahead of the clock, and the
\* handlers' time makes up the difference.
SnapOK == phase = "timers" => Millis(snap) <= now /\ now <= Millis(snap) + busy

\* select waits for the nearest timer or, if that one is due, at most until a
\* second after it was.
WaitOK ==
    phase = "select" =>
        \/ wakeAt <= Millis(Nearest)
        \/ Millis(Nearest) <= now /\ wakeAt <= Millis(Nearest) + PerSec
        \/ wakeAt <= now

\* How late a timer can be in each phase.  One that the round has passed is due
\* after the time the round compares with.
PhaseOK ==
    \A t \in Timers :
        /\ phase \in {"arm", "select"} => Late(t) <= PerSec
        /\ phase \in {"read", "timers"} => Late(t) <= PerSec + busy
        /\ phase = "timers" /\ t \notin Ahead => Millis(when[t]) > Millis(snap)

IInv == TypeOK /\ KeepsItsGrid /\ SnapOK /\ WaitOK /\ (Unhurried => PhaseOK)
=============================================================================
