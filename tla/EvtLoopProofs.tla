--------------------------- MODULE EvtLoopProofs ---------------------------
(***************************************************************************)
(* Theorems about the event loop, for every number of timers, all their    *)
(* intervals and any length of a second: timers keep their grid, select    *)
(* does not sleep past one, and a round of handlers delays none by more    *)
(* than a second and the round itself.                                     *)
(***************************************************************************)
EXTENDS EvtLoop, LeastNumber, TLAPS

-----------------------------------------------------------------------------
(***************************************************************************)
(* Lemmas about the time arithmetic.                                       *)
(***************************************************************************)
LEMMA DivMod ==
    ASSUME NEW n \in Nat, NEW p \in Nat \ {0}
    PROVE  n \div p \in Nat /\ n % p \in 0 .. p - 1 /\ n = (n \div p) * p + (n % p)
OBVIOUS

\* A time has as many milliseconds as its seconds make and its own.
LEMMA MillisType ==
    ASSUME NEW w \in Time
    PROVE  Millis(w) \in Nat /\ Millis(w) >= w.sec * PerSec
           /\ Millis(w) < (w.sec + 1) * PerSec
<1>1. w.sec \in Nat /\ w.ms \in 0 .. PerSec - 1 /\ PerSec \in Nat
  BY ClockAssumption DEF Time
<1>2. w.sec * PerSec \in Nat /\ (w.sec + 1) * PerSec = w.sec * PerSec + PerSec
  BY <1>1
<1> QED
  BY <1>1, <1>2 DEF Millis

LEMMA ClockExact ==
    ASSUME NEW n \in Nat
    PROVE  Clock(n) \in Time /\ Millis(Clock(n)) = n
BY ClockAssumption, DivMod DEF Clock, Millis, Time

\* The carry keeps when_ms below a second and adds exactly the interval.
LEMMA LaterAdds ==
    ASSUME NEW w \in Time, NEW d \in Nat
    PROVE  Later(w, d) \in Time /\ Millis(Later(w, d)) = Millis(w) + d
<1> DEFINE q == d \div PerSec
           r == d % PerSec
<1>1. q \in Nat /\ r \in 0 .. PerSec - 1 /\ d = q * PerSec + r
  BY ClockAssumption, DivMod
<1>2. w.sec \in Nat /\ w.ms \in 0 .. PerSec - 1 /\ PerSec \in Nat \ {0}
  BY ClockAssumption DEF Time
<1>3. Later(w, d) = IF w.ms + r >= PerSec
                    THEN [sec |-> w.sec + q + 1, ms |-> w.ms + r - PerSec]
                    ELSE [sec |-> w.sec + q, ms |-> w.ms + r]
  BY <1>1, <1>2 DEF Later
<1> HIDE DEF q, r
<1>4. /\ (w.sec + q) * PerSec = w.sec * PerSec + q * PerSec
      /\ (w.sec + q + 1) * PerSec = w.sec * PerSec + q * PerSec + PerSec
      /\ w.sec * PerSec \in Nat /\ q * PerSec \in Nat
  BY <1>1, <1>2
<1> QED
  BY <1>1, <1>2, <1>3, <1>4 DEF Millis, Time

\* The order of the pairs is the order of the times.
LEMMA EarlierIsLess ==
    ASSUME NEW v \in Time, NEW w \in Time
    PROVE  Earlier(v, w) <=> Millis(v) < Millis(w)
<1>1. /\ v.sec \in Nat /\ v.ms \in 0 .. PerSec - 1
      /\ w.sec \in Nat /\ w.ms \in 0 .. PerSec - 1 /\ PerSec \in Nat \ {0}
  BY ClockAssumption DEF Time
<1>2. ASSUME v.sec < w.sec PROVE Millis(v) < Millis(w)
  <2>1. (v.sec + 1) * PerSec <= w.sec * PerSec
    BY <1>1, <1>2
  <2> QED
    BY <1>1, <2>1, MillisType
<1>3. ASSUME w.sec < v.sec PROVE Millis(w) < Millis(v)
  <2>1. (w.sec + 1) * PerSec <= v.sec * PerSec
    BY <1>1, <1>3
  <2> QED
    BY <1>1, <2>1, MillisType
<1>4. ASSUME v.sec = w.sec PROVE Millis(v) - v.ms = Millis(w) - w.ms
  BY <1>1, <1>4 DEF Millis
<1> QED
  BY <1>1, <1>2, <1>3, <1>4, MillisType DEF Earlier

\* What select is given: the time that is left to a timer, and for one that is
\* due at most what is left to its own second.
LEMMA TimeoutBounded ==
    ASSUME NEW near \in Time, NEW at \in Time
    PROVE  /\ Millis(SelectTimeout(near, at)) \in Nat
           /\ \/ Millis(at) + Millis(SelectTimeout(near, at)) <= Millis(near)
              \/ /\ Millis(near) <= Millis(at)
                 /\ Millis(at) + Millis(SelectTimeout(near, at)) <= Millis(near) + PerSec
              \/ Millis(near) <= Millis(at) /\ Millis(SelectTimeout(near, at)) = 0
<1> DEFINE s == SelectTimeout(near, at)
<1>1. /\ near.sec \in Nat /\ near.ms \in 0 .. PerSec - 1
      /\ at.sec \in Nat /\ at.ms \in 0 .. PerSec - 1 /\ PerSec \in Nat \ {0}
  BY ClockAssumption DEF Time
<1>2. CASE near.sec < at.sec
  <2>1. Millis(near) < Millis(at)
    BY <1>2, EarlierIsLess DEF Earlier
  <2>2. Millis(s) = 0
    BY <1>1, <1>2 DEF SelectTimeout, Millis
  <2> QED
    BY <2>1, <2>2, MillisType
<1>3. CASE near.sec >= at.sec /\ near.ms > at.ms
  <2>1. Millis(s) = (near.sec - at.sec) * PerSec + near.ms - at.ms
    BY <1>1, <1>3 DEF SelectTimeout, Millis
  <2>2. (near.sec - at.sec) * PerSec = near.sec * PerSec - at.sec * PerSec
    BY <1>1
  <2>3. (near.sec - at.sec) * PerSec \in Nat /\ near.sec * PerSec \in Nat /\ at.sec * PerSec \in Nat
    BY <1>1, <1>3
  <2> QED
    BY <1>1, <1>3, <2>1, <2>2, <2>3 DEF Millis
<1>4. CASE near.sec > at.sec /\ near.ms <= at.ms
  <2>1. Millis(s) = (near.sec - at.sec - 1) * PerSec + near.ms - at.ms + PerSec
    BY <1>1, <1>4 DEF SelectTimeout, Millis
  <2>2. (near.sec - at.sec - 1) * PerSec = near.sec * PerSec - at.sec * PerSec - PerSec
    BY <1>1
  <2>3. (near.sec - at.sec - 1) * PerSec \in Nat /\ near.sec * PerSec \in Nat /\ at.sec * PerSec \in Nat
    BY <1>1, <1>4
  <2> QED
    BY <1>1, <1>4, <2>1, <2>2, <2>3 DEF Millis
<1>5. CASE near.sec = at.sec /\ near.ms <= at.ms
  <2>1. Millis(s) = near.ms - at.ms + PerSec
    BY <1>1, <1>5 DEF SelectTimeout, Millis
  <2>2. near.sec * PerSec \in Nat /\ near.sec * PerSec = at.sec * PerSec
    BY <1>1, <1>5
  <2> QED
    BY <1>1, <1>5, <2>1, <2>2 DEF Millis
<1> QED
  BY <1>1, <1>2, <1>3, <1>4, <1>5

\* get_near_timer finds a timer that is due first.
LEMMA NearestIsFirst ==
    ASSUME when \in [Timers -> Time]
    PROVE  Nearest \in Time /\ \A t \in Timers : Millis(Nearest) <= Millis(when[t])
<1> DEFINE S == {Millis(when[t]) : t \in Timers}
<1>1. S \in SUBSET Nat /\ S # {}
  <2>1. ASSUME NEW x \in S PROVE x \in Nat
    BY MillisType
  <2>2. PICK t \in Timers : TRUE
    BY TimerAssumption
  <2>3. Millis(when[t]) \in S
    OBVIOUS
  <2> QED
    BY <2>1, <2>3
<1>2. PICK n \in S : \A k \in S : n <= k
  BY <1>1, LeastNat
<1>3. PICK u \in Timers : n = Millis(when[u])
  BY <1>2
<1>4. ASSUME NEW t \in Timers PROVE ~Earlier(when[t], when[u])
  <2>1. Millis(when[u]) <= Millis(when[t])
    BY <1>2, <1>3
  <2> QED
    BY <2>1, EarlierIsLess, MillisType
<1>5. Nearest \in {when[t] : t \in Timers} /\ \A t \in Timers : ~Earlier(when[t], Nearest)
  BY <1>4 DEF Nearest
<1>6. Nearest \in Time
  BY <1>5
<1>7. ASSUME NEW t \in Timers PROVE Millis(Nearest) <= Millis(when[t])
  <2>1. ~(Millis(when[t]) < Millis(Nearest))
    BY <1>5, <1>6, EarlierIsLess
  <2> QED
    BY <2>1, <1>6, MillisType
<1> QED
  BY <1>6, <1>7

-----------------------------------------------------------------------------
(***************************************************************************)
(* The invariant holds at first.                                           *)
(***************************************************************************)
LEMMA IInvInit == Init => IInv
<1> SUFFICES ASSUME Init PROVE IInv
  OBVIOUS
<1>1. now \in Nat /\ \A t \in Timers : start[t] \in Nat /\ Interval[t] \in Nat /\ start[t] <= now
  <2>1. \A x \in Starts : x \in Nat
    BY ClockAssumption
  <2>2. now \in Nat
    BY <2>1 DEF Init
  <2>3. ASSUME NEW t \in Timers PROVE start[t] \in Nat /\ Interval[t] \in Nat /\ start[t] <= now
    BY <2>1, TimerAssumption DEF Init
  <2> QED
    BY <2>2, <2>3
<1>2. ASSUME NEW t \in Timers
      PROVE  when[t] \in Time /\ Millis(when[t]) = start[t] + Interval[t]
  BY <1>1, <1>2, ClockExact, LaterAdds DEF Init
<1>3. snap \in Time
  BY <1>1, ClockExact DEF Init
<1>4. TypeOK
  BY <1>1, <1>2, <1>3, ClockAssumption DEF Init, TypeOK
<1>5. KeepsItsGrid
  BY <1>1, <1>2 DEF Init, KeepsItsGrid
<1>6. ASSUME NEW t \in Timers PROVE Late(t) <= 0
  <2>1. now - start[t] <= Interval[t]
    BY StartAssumption DEF Init
  <2> QED
    BY <1>1, <1>2, <2>1 DEF Late
<1>7. PhaseOK
  <2>1. \A t \in Timers : Late(t) \in Int
    BY <1>1, <1>2 DEF Late
  <2> QED
    BY <1>6, <2>1, ClockAssumption DEF Init, PhaseOK
<1> QED
  BY <1>4, <1>5, <1>7 DEF IInv, SnapOK, WaitOK, Init

-----------------------------------------------------------------------------
(***************************************************************************)
(* Each step keeps it.                                                     *)
(***************************************************************************)
\* What the arithmetic of a step may rely on.
LEMMA Numbers ==
    ASSUME TypeOK
    PROVE  /\ Millis(snap) \in Nat
           /\ Millis(Nearest) \in Nat
           /\ \A t \in Timers : /\ Millis(when[t]) \in Nat
                                /\ Late(t) \in Int
                                /\ Millis(Nearest) <= Millis(when[t])
<1>1. Nearest \in Time
  BY NearestIsFirst DEF TypeOK
<1>2. \A t \in Timers : when[t] \in Time
  BY DEF TypeOK
<1> QED
  BY <1>1, <1>2, MillisType, NearestIsFirst DEF TypeOK, Late

LEMMA GridNumbers ==
    ASSUME TypeOK, NEW t \in Timers
    PROVE  /\ start[t] \in Nat /\ fired[t] \in Nat /\ Interval[t] \in Nat
           /\ fired[t] * Interval[t] \in Nat
           /\ (fired[t] + 1) * Interval[t] = fired[t] * Interval[t] + Interval[t]
<1>1. start[t] \in Starts /\ fired[t] \in Nat /\ Interval[t] \in Nat
  BY TimerAssumption DEF TypeOK
<1>2. start[t] \in Nat
  BY <1>1, ClockAssumption
<1> QED
  BY <1>1, <1>2

LEMMA SleepStep == ASSUME IInv, Sleep PROVE IInv'
<1> USE DEF IInv
<1> DEFINE d == Millis(SelectTimeout(Nearest, Clock(now)))
<1>1. now \in Nat /\ Clock(now) \in Time /\ Millis(Clock(now)) = now /\ Nearest \in Time
  BY ClockExact, NearestIsFirst DEF TypeOK
<1>2. /\ d \in Nat
      /\ \/ now + d <= Millis(Nearest)
         \/ Millis(Nearest) <= now /\ now + d <= Millis(Nearest) + PerSec
         \/ Millis(Nearest) <= now /\ d = 0
  BY <1>1, TimeoutBounded
<1> HIDE DEF d
<1>3. wakeAt' = now + d
  BY DEF Sleep, d
<1>4. TypeOK'
  BY <1>1, <1>2, <1>3, ClockAssumption DEF TypeOK, Sleep
<1>5. KeepsItsGrid'
  BY DEF KeepsItsGrid, Sleep
<1>6. Nearest' = Nearest
  BY DEF Sleep, Nearest
<1>7. WaitOK'
  <2>1. Millis(Nearest)' = Millis(Nearest)
    BY <1>6 DEF Millis
  <2> QED
    BY <1>1, <1>2, <1>3, <2>1, Numbers DEF WaitOK, Sleep
<1>8. Unhurried => PhaseOK'
  BY DEF PhaseOK, Sleep, Late, Ahead
<1> QED
  BY <1>4, <1>5, <1>7, <1>8 DEF SnapOK, Sleep, Unhurried

LEMMA WaitStep == ASSUME IInv, Wait PROVE IInv'
<1> USE DEF IInv
<1>1. now \in Nat /\ now' = now + 1 /\ PerSec \in Nat /\ wakeAt \in Nat
  BY ClockAssumption DEF TypeOK, Wait
<1>2. TypeOK'
  BY <1>1 DEF TypeOK, Wait
<1>3. KeepsItsGrid'
  <2>1. ASSUME NEW t \in Timers
        PROVE  start[t] + fired[t] * Interval[t] <= now
               /\ start[t] + fired[t] * Interval[t] \in Int
    BY GridNumbers DEF KeepsItsGrid
  <2>2. \A t \in Timers : start[t] + fired[t] * Interval[t] <= now + 1
    BY <1>1, <2>1
  <2> QED
    BY <1>1, <2>2 DEF KeepsItsGrid, Wait, Millis
<1>4. Nearest' = Nearest /\ Millis(Nearest)' = Millis(Nearest)
  BY DEF Wait, Nearest, Millis
<1>5. WaitOK'
  BY <1>1, <1>4, Numbers DEF WaitOK, Wait
<1>6. ASSUME Unhurried PROVE PhaseOK'
  <2>1. ASSUME NEW t \in Timers PROVE Late(t)' <= PerSec
    <3>1. Late(t)' = now + 1 - Millis(when[t])
      <4>1. Millis(when[t])' = Millis(when[t])
        BY DEF Wait, Millis
      <4> QED
        BY <1>1, <4>1, Numbers DEF Late
    <3> QED
      BY <1>1, <3>1, Numbers DEF WaitOK, Wait
  <2> QED
    BY <2>1 DEF PhaseOK, Wait
<1> QED
  BY <1>2, <1>3, <1>5, <1>6 DEF SnapOK, Wait, Unhurried

LEMMA PacketStep == ASSUME IInv, Packet PROVE IInv'
<1> USE DEF IInv
<1>1. TypeOK'
  BY DEF TypeOK, Packet
<1>2. KeepsItsGrid'
  BY DEF KeepsItsGrid, Packet, Millis
<1>3. ASSUME Unhurried PROVE PhaseOK'
  <2>1. ASSUME NEW t \in Timers PROVE Late(t)' <= PerSec + busy'
    <3>1. Late(t)' = Late(t) /\ Late(t) <= PerSec
      BY <1>3 DEF PhaseOK, Packet, Late, Millis
    <3> QED
      BY <3>1, Numbers, ClockAssumption DEF TypeOK, Packet
  <2> QED
    BY <2>1 DEF PhaseOK, Packet
<1> QED
  BY <1>1, <1>2, <1>3 DEF SnapOK, WaitOK, Packet, Unhurried

LEMMA WorkStep == ASSUME IInv, Work PROVE IInv'
<1> USE DEF IInv
<1>1. /\ now \in Nat /\ now' = now + 1 /\ PerSec \in Nat
      /\ busy \in Nat /\ busy' = busy + 1 /\ busy' \in 0 .. MaxBusy
  BY ClockAssumption DEF TypeOK, Work
<1>2. TypeOK'
  BY <1>1 DEF TypeOK, Work
<1>3. KeepsItsGrid'
  <2>1. ASSUME NEW t \in Timers
        PROVE  start[t] + fired[t] * Interval[t] <= now
               /\ start[t] + fired[t] * Interval[t] \in Int
    BY GridNumbers DEF KeepsItsGrid
  <2>2. \A t \in Timers : start[t] + fired[t] * Interval[t] <= now + 1
    BY <1>1, <2>1
  <2> QED
    BY <1>1, <2>2 DEF KeepsItsGrid, Work, Millis
<1>4. SnapOK'
  <2>1. Millis(snap)' = Millis(snap)
    BY DEF Work, Millis
  <2> QED
    BY <1>1, <2>1, Numbers DEF SnapOK, Work
<1>5. ASSUME Unhurried PROVE PhaseOK'
  <2>1. ASSUME NEW t \in Timers PROVE Late(t)' <= PerSec + busy'
    <3>1. Late(t)' = now + 1 - Millis(when[t])
      <4>1. Millis(when[t])' = Millis(when[t])
        BY DEF Work, Millis
      <4> QED
        BY <1>1, <4>1, Numbers DEF Late
    <3>2. Late(t) <= PerSec + busy
      BY <1>5 DEF PhaseOK, Work
    <3> QED
      BY <1>1, <3>1, <3>2, Numbers DEF Late
  <2>2. ASSUME NEW t \in Timers, phase' = "timers", t \notin Ahead'
        PROVE  Millis(when[t])' > Millis(snap)'
    BY <1>5, <2>2 DEF PhaseOK, Work, Ahead, Millis
  <2> QED
    BY <2>1, <2>2 DEF PhaseOK, Work
<1> QED
  BY <1>2, <1>3, <1>4, <1>5 DEF WaitOK, Work, Unhurried

LEMMA BeginTimersStep == ASSUME IInv, BeginTimers PROVE IInv'
<1> USE DEF IInv
<1>1. /\ now \in Nat /\ PerSec \in Nat /\ busy \in Nat
      /\ snap' \in Time /\ Millis(snap)' = now
  <2>1. Millis(snap)' = Millis(Clock(now))
    BY DEF BeginTimers, Millis
  <2> QED
    BY <2>1, ClockAssumption, ClockExact DEF TypeOK, BeginTimers
<1>2. TypeOK'
  BY <1>1, TimerAssumption DEF TypeOK, BeginTimers
<1>3. KeepsItsGrid'
  BY DEF KeepsItsGrid, BeginTimers, Millis
<1>4. SnapOK'
  BY <1>1 DEF SnapOK, BeginTimers
<1>5. ASSUME Unhurried PROVE PhaseOK'
  <2>1. ASSUME NEW t \in Timers PROVE Late(t)' <= PerSec + busy'
    <3>1. Late(t)' = Late(t) /\ (Late(t) <= PerSec \/ Late(t) <= PerSec + busy)
      BY <1>5 DEF PhaseOK, BeginTimers, Late, Millis
    <3> QED
      BY <1>1, <3>1, Numbers DEF BeginTimers
  <2>2. \A t \in Timers : t \in Ahead'
    BY TimerAssumption DEF BeginTimers, Ahead
  <2> QED
    BY <2>1, <2>2 DEF PhaseOK, BeginTimers
<1> QED
  BY <1>2, <1>3, <1>4, <1>5 DEF WaitOK, BeginTimers, Unhurried

LEMMA NextTimerStep == ASSUME IInv, NextTimer PROVE IInv'
<1> USE DEF IInv
<1> DEFINE h == Head(todo)
<1>1. /\ now \in Nat /\ PerSec \in Nat /\ busy \in 0 .. MaxBusy /\ MaxBusy \in Nat
      /\ phase = "timers" /\ phase' = "timers" /\ now' = now /\ busy' = busy
      /\ snap \in Time /\ snap' = snap /\ Millis(snap)' = Millis(snap) /\ start' = start
  BY ClockAssumption DEF TypeOK, NextTimer, Millis
<1>2. h \in Timers /\ Tail(todo) \in Seq(Timers) /\ todo' = Tail(todo)
  BY DEF TypeOK, NextTimer
<1>3. \A t \in Ahead : t \in Ahead' \/ t = h
  <2> SUFFICES ASSUME NEW k \in 1 .. Len(todo), k # 1
               PROVE  \E j \in 1 .. Len(todo') : todo'[j] = todo[k]
    BY <1>2 DEF Ahead, NextTimer
  <2>1. k - 1 \in 1 .. Len(todo') /\ todo'[k - 1] = todo[k]
    BY <1>2 DEF TypeOK, NextTimer
  <2> QED
    BY <2>1
<1>4. when[h] \in Time /\ Millis(when[h]) \in Nat /\ Millis(snap) \in Nat /\ Millis(snap) <= now
  BY <1>1, <1>2, Numbers DEF TypeOK, SnapOK
<1>5. ASSUME UNCHANGED << when, fired >>, Earlier(snap, when[h])
      PROVE  TypeOK' /\ KeepsItsGrid' /\ (Unhurried => PhaseOK')
  <2>1. TypeOK'
    BY <1>2, <1>5 DEF TypeOK, NextTimer
  <2>2. KeepsItsGrid'
    BY <1>1, <1>5 DEF KeepsItsGrid, Millis
  <2>3. Millis(when[h]) > Millis(snap)
    BY <1>1, <1>4, <1>5, EarlierIsLess
  <2>4. ASSUME Unhurried, NEW t \in Timers
        PROVE  /\ Late(t)' <= PerSec + busy'
               /\ t \notin Ahead' => Millis(when[t])' > Millis(snap)'
    <3>1. Millis(when[t])' = Millis(when[t]) /\ Late(t)' = Late(t)
      BY <1>1, <1>5 DEF Late, Millis
    <3>2. Late(t) <= PerSec + busy /\ (t \notin Ahead => Millis(when[t]) > Millis(snap))
      BY <1>1, <2>4 DEF PhaseOK
    <3> QED
      BY <1>1, <1>3, <2>3, <3>1, <3>2
  <2> QED
    BY <1>1, <2>1, <2>2, <2>4 DEF PhaseOK
<1>6. ASSUME ~Earlier(snap, when[h]),
             when' = [when EXCEPT ![h] = Later(@, Interval[h])],
             fired' = [fired EXCEPT ![h] = @ + 1]
      PROVE  TypeOK' /\ KeepsItsGrid' /\ (Unhurried => PhaseOK')
  <2>1. /\ when'[h] \in Time /\ Millis(when'[h]) = Millis(when[h]) + Interval[h]
        /\ fired'[h] = fired[h] + 1 /\ Interval[h] \in Nat
    BY <1>2, <1>4, <1>6, GridNumbers, LaterAdds DEF TypeOK
  <2>2. TypeOK'
    BY <1>2, <1>6, <2>1 DEF TypeOK, NextTimer
  <2>3. Millis(when[h]) <= Millis(snap)
    BY <1>1, <1>4, <1>6, EarlierIsLess
  <2>4. ASSUME NEW t \in Timers, t # h
        PROVE  when'[t] = when[t] /\ fired'[t] = fired[t]
    BY <1>6, <2>4 DEF TypeOK
  <2>5. ASSUME NEW t \in Timers
        PROVE  /\ Millis(when'[t]) = start[t] + (fired'[t] + 1) * Interval[t]
               /\ start[t] + fired'[t] * Interval[t] <= now
    <3>1. CASE t # h
      BY <2>4, <3>1 DEF KeepsItsGrid
    <3>2. CASE t = h
      <4> HIDE DEF h
      <4>1. Millis(when[h]) = start[h] + (fired[h] + 1) * Interval[h]
        BY <1>2 DEF KeepsItsGrid
      <4>2. start[h] \in Nat /\ fired[h] \in Nat
        BY <1>2, GridNumbers
      <4>3. /\ (fired[h] + 1) * Interval[h] \in Nat
            /\ (fired[h] + 1 + 1) * Interval[h] = (fired[h] + 1) * Interval[h] + Interval[h]
        BY <2>1, <4>2
      <4> QED
        BY <1>1, <1>4, <2>1, <2>3, <3>2, <4>1, <4>2, <4>3
    <3> QED
      BY <3>1, <3>2
  <2>6. KeepsItsGrid'
    BY <1>1, <2>5 DEF KeepsItsGrid, Millis
  <2>7. ASSUME Unhurried, NEW t \in Timers
        PROVE  /\ Late(t)' <= PerSec + busy'
               /\ t \notin Ahead' => Millis(when[t])' > Millis(snap)'
    <3>1. /\ Late(t) <= PerSec + busy /\ Millis(when[t]) \in Nat
          /\ t \notin Ahead => Millis(when[t]) > Millis(snap)
      BY <1>1, <2>7, Numbers DEF PhaseOK
    <3>2. Late(t)' = now - Millis(when'[t]) /\ Millis(when[t])' = Millis(when'[t])
      BY <1>1 DEF Late, Millis
    <3>3. CASE t # h
      BY <1>1, <1>3, <2>4, <3>1, <3>2, <3>3 DEF Late
    <3>4. CASE t = h
      <4>1. Interval[h] > PerSec + MaxBusy
        BY <1>2, <2>7 DEF Unhurried
      <4> QED
        BY <1>1, <1>4, <2>1, <3>1, <3>2, <3>4, <4>1 DEF Late
    <3> QED
      BY <3>3, <3>4
  <2> QED
    BY <1>1, <2>2, <2>6, <2>7 DEF PhaseOK
<1>7. SnapOK' /\ WaitOK'
  BY <1>1 DEF SnapOK, WaitOK
<1> QED
  BY <1>5, <1>6, <1>7 DEF NextTimer, Unhurried

LEMMA EndTimersStep == ASSUME IInv, EndTimers PROVE IInv'
<1> USE DEF IInv
<1>1. TypeOK'
  BY DEF TypeOK, EndTimers
<1>2. KeepsItsGrid'
  BY DEF KeepsItsGrid, EndTimers, Millis
<1>3. ASSUME Unhurried PROVE PhaseOK'
  <2>1. ASSUME NEW t \in Timers PROVE Late(t)' <= PerSec
    <3>1. Late(t)' = Late(t)
      BY DEF EndTimers, Late, Millis
    <3>2. Millis(when[t]) > Millis(snap)
      BY <1>3 DEF PhaseOK, EndTimers, Ahead
    <3>3. now \in Nat /\ busy \in 0 .. MaxBusy /\ MaxBusy \in Nat /\ PerSec \in Nat /\ MaxBusy <= PerSec
      BY <1>3, ClockAssumption DEF TypeOK, Unhurried
    <3>4. now <= Millis(snap) + busy
      BY DEF SnapOK, EndTimers
    <3> QED
      BY <3>1, <3>2, <3>3, <3>4, Numbers DEF Late
  <2> QED
    BY <2>1 DEF PhaseOK, EndTimers
<1> QED
  BY <1>1, <1>2, <1>3 DEF SnapOK, WaitOK, EndTimers, Unhurried

-----------------------------------------------------------------------------
(***************************************************************************)
(* The theorems.                                                           *)
(***************************************************************************)
\* Stuttering changes nothing the invariant is about.
LEMMA StutterStep == ASSUME IInv, UNCHANGED vars PROVE IInv'
BY DEF vars, IInv, TypeOK, KeepsItsGrid, SnapOK, WaitOK, Nearest, PhaseOK, Late, Ahead,
       Millis, Unhurried

\* The invariant holds as long as the loop of evt_loop runs.
THEOREM LoopInvariance == Spec => []IInv
<1>1. IInv /\ [Next]_vars => IInv'
  BY SleepStep, WaitStep, PacketStep, WorkStep, BeginTimersStep, NextTimerStep,
     EndTimersStep, StutterStep DEF Next
<1> QED
  BY IInvInit, <1>1, PTL DEF Spec

\* Every variable of the loop keeps its type: the carries of create_timer_evt
\* and process_timer_evt keep when_ms below a second for ever.
THEOREM LoopTypeCorrect == Spec => []TypeOK
<1>1. IInv => TypeOK
  BY DEF IInv
<1> QED
  BY LoopInvariance, <1>1, PTL

\* process_timer_evt re-arms a timer from when it was due and not from when it
\* ran: after k runs it is due k intervals after it was first due, and it never
\* runs early.
THEOREM TimersKeepTheirGrid == Spec => []KeepsItsGrid
<1>1. IInv => KeepsItsGrid
  BY DEF IInv
<1> QED
  BY LoopInvariance, <1>1, PTL

\* The timeout that evt_loop computes for select does not let it sleep past the
\* nearest timer, unless that was due already, and then for less than a second.
THEOREM SelectWakesInTime == Spec => []WakesInTime
<1>1. IInv => WakesInTime
  <2> SUFFICES ASSUME IInv, phase = "select", now < wakeAt
               PROVE  wakeAt <= Millis(Nearest)
                      \/ (Millis(Nearest) <= now /\ wakeAt <= Millis(Nearest) + PerSec)
    BY DEF WakesInTime
  <2>1. now \in Nat /\ wakeAt \in Nat
    BY DEF IInv, TypeOK
  <2> QED
    BY <2>1 DEF IInv, WaitOK
<1> QED
  BY LoopInvariance, <1>1, PTL

\* Neither packets nor other timers keep a timer of main() waiting for more than
\* a second and one round of handlers.
THEOREM TimersAreNotStarved == Spec => []LatenessBounded
<1>1. IInv => LatenessBounded
  <2> SUFFICES ASSUME IInv, Unhurried, NEW t \in Timers
               PROVE  Late(t) <= PerSec + MaxBusy
    BY DEF LatenessBounded, Late
  <2>1. busy \in 0 .. MaxBusy /\ PerSec \in Nat /\ MaxBusy \in Nat /\ Late(t) \in Int
    BY ClockAssumption, Numbers DEF IInv, TypeOK
  <2>2. Late(t) <= PerSec \/ Late(t) <= PerSec + busy
    BY DEF IInv, PhaseOK, TypeOK
  <2> QED
    BY <2>1, <2>2
<1> QED
  BY LoopInvariance, <1>1, PTL
=============================================================================
