-------------------------- MODULE LifecycleProofs --------------------------
(***************************************************************************)
(* Safety of starting and stopping a node, for any number of shutdown      *)
(* calls, any interval or rate and a clock that runs for any time.         *)
(***************************************************************************)
EXTENDS Lifecycle, TLAPS

-----------------------------------------------------------------------------
(* At most one late round.  A late round was under way when the flag was   *)
(* set; the next check of the flag ends the loop.                          *)

LateInv ==
    /\ late \in Nat /\ late <= 1
    /\ late > 0 => flag /\ sched \notin {"sending", "sent"}

LEMMA LateStep == LateInv /\ [Next]_vars => LateInv'
<1> SUFFICES ASSUME LateInv, [Next]_vars PROVE LateInv'
  OBVIOUS
<1> USE DEF LateInv, schedVars, timeVars
<1>1. CASE SpawnFails \/ StoreHandle \/ Submit \/ Elapse
  BY <1>1 DEF SpawnFails, StoreHandle, Submit, Elapse, nodeVars
<1>2. CASE SpawnTask
  BY <1>2 DEF SpawnTask
<1>3. ASSUME NEW c \in Callers, SetFlag(c) \/ Shutdown(c) PROVE LateInv'
  BY <1>3 DEF SetFlag, Shutdown, Wake, CloseOverlay, TakeHandle, Join
<1>4. CASE StartTicker \/ Draw \/ TickerFires \/ SleepOver \/ Signalled \/ Woken
  BY <1>4 DEF StartTicker, Draw, TickerFires, SleepOver, Signalled, Woken, nodeVars
<1>5. CASE CheckFlag
  BY <1>5 DEF CheckFlag, nodeVars
<1>6. CASE TakeFrame \/ NothingQueued
  BY <1>6 DEF TakeFrame, NothingQueued, nodeVars
<1>7. CASE EndRound
  BY <1>7 DEF EndRound, nodeVars
<1>8. CASE UNCHANGED vars
  BY <1>8 DEF vars, nodeVars
<1> QED
  BY <1>1, <1>2, <1>3, <1>4, <1>5, <1>6, <1>7, <1>8 DEF Next, Scheduler

\* Once a shutdown has set the flag, at most one round of sending is completed,
\* under every strategy and however many callers and frames there are.
THEOREM StopsWithinARound == Spec => []OneLateRound
<1>1. Init => LateInv
  BY DEF Init, LateInv
<1>2. LateInv => OneLateRound
  BY DEF LateInv, OneLateRound
<1> QED
  BY <1>1, <1>2, LateStep, PTL DEF Spec

-----------------------------------------------------------------------------
(* Nothing but a shutdown ends a task whose timing is sound.  A permit is  *)
(* stored by a caller that has set the flag before.                        *)

PeriodType ==
    /\ strategy \in {"constant", "poisson", "none"}
    /\ period \in Nat

EndInv ==
    /\ PeriodType
    /\ call \in [Callers -> {"begin", "flagged", "woken", "closed", "returned",
                             "joining", "joined"}]
    /\ \A c \in Callers : call[c] # "begin" => flag
    /\ wake => flag
    /\ Ended /\ SoundTiming => flag

\* A draw is bounded in time, whatever u was (run_poisson).
LEMMA SleepBound ==
    ASSUME NEW draw \in Nat, period \in Nat
    PROVE  Sleep(draw) <= MaxFactor * period
<1>1. \A a, b, p \in Nat : a <= b => a * p <= b * p
  OBVIOUS
<1>2. MaxFactor \in Nat
  BY TimingAssumption
<1> QED
  BY <1>1, <1>2 DEF Sleep

LEMMA InitialPeriod == Init => PeriodType
<1>1. \A n : n \in Intervals \/ n \in Means => n \in Nat
  BY TimingAssumption, Zenon
<1> SUFFICES ASSUME Init PROVE PeriodType
  OBVIOUS
<1>2. strategy \in {"constant", "poisson", "none"}
  BY DEF Init
<1>3. period \in Intervals \/ period \in Means \/ period = 0
  BY DEF Init
<1>4. period \in Nat
  BY <1>1, <1>3
<1> QED
  BY <1>2, <1>4 DEF PeriodType

LEMMA EndStep == EndInv /\ [Next]_vars => EndInv'
<1> SUFFICES ASSUME EndInv, [Next]_vars PROVE EndInv'
  OBVIOUS
<1> USE DEF EndInv, PeriodType, Ended, SoundTiming, schedVars
<1>1. CASE SpawnFails \/ SpawnTask \/ StoreHandle \/ Submit \/ Elapse
  BY <1>1 DEF SpawnFails, SpawnTask, StoreHandle, Submit, Elapse, appVars, nodeVars, timeVars
<1>2. ASSUME NEW c \in Callers, SetFlag(c) \/ Shutdown(c) PROVE EndInv'
  BY <1>2 DEF SetFlag, Shutdown, Wake, CloseOverlay, TakeHandle, Join, At, appVars
<1>3. CASE StartTicker
  BY <1>3 DEF StartTicker, appVars, nodeVars
<1>4. CASE Draw
  <2>1. PICK draw \in 1..MaxDraw :
          sched' = IF Sleep(draw) > MaxDuration THEN "panicked" ELSE "waiting"
    BY <1>4 DEF Draw
  <2>2. draw \in Nat
    BY TimingAssumption
  <2>3. strategy = "poisson"
    BY <1>4 DEF Draw
  <2>4. CASE MaxFactor * period <= MaxDuration
    <3>1. MaxFactor * period \in Nat /\ MaxDuration \in Nat /\ Sleep(draw) \in Nat
      BY TimingAssumption, <2>2 DEF Sleep
    <3>2. ~(Sleep(draw) > MaxDuration)
      BY <3>1, <2>2, <2>4, SleepBound
    <3> QED
      BY <1>4, <2>1, <3>2 DEF Draw, appVars, nodeVars
  <2>5. CASE ~(MaxFactor * period <= MaxDuration)
    BY <1>4, <2>3, <2>5 DEF Draw, appVars, nodeVars, timeVars
  <2> QED
    BY <2>4, <2>5
<1>5. CASE \/ TickerFires \/ SleepOver \/ Signalled \/ Woken
           \/ CheckFlag \/ TakeFrame \/ NothingQueued \/ EndRound
  BY <1>5 DEF TickerFires, SleepOver, Signalled, Woken,
     CheckFlag, TakeFrame, NothingQueued, EndRound, appVars, nodeVars, timeVars
<1>6. CASE UNCHANGED vars
  BY <1>6 DEF vars, appVars, nodeVars
<1> QED
  BY <1>1, <1>2, <1>3, <1>4, <1>5, <1>6 DEF Next, Scheduler

\* With an interval that is not 0, or a rate whose longest sleep fits a Duration,
\* the task ends after a shutdown has set the flag, and in no other way.
THEOREM NoSpontaneousEnd == Spec => []EndsOnlyWhenStopped
<1>1. Init => EndInv
  BY InitialPeriod DEF Init, EndInv, Ended
<1>2. EndInv => EndsOnlyWhenStopped
  BY DEF EndInv, EndsOnlyWhenStopped
<1> QED
  BY <1>1, <1>2, EndStep, PTL DEF Spec

-----------------------------------------------------------------------------
(* The ticker.  The deadlines of one whose interval exceeds the tolerance  *)
(* lie on a grid of whole intervals, and the next one is in the interval   *)
(* after that of the last tick.                                            *)

LEMMA DivBounds ==
    ASSUME NEW n \in Nat, NEW p \in Nat \ {0}
    PROVE  n \div p \in Nat /\ p * (n \div p) <= n /\ n < p * (n \div p + 1)
OBVIOUS

LEMMA Below ==
    ASSUME NEW p \in Nat \ {0}, NEW a \in Nat, NEW b \in Nat, p * a < p * b
    PROVE  a < b
<1>1. \A d \in Nat : p * (b + d) = p * b + p * d
  OBVIOUS
<1>2. \A d \in Nat : p * d \in Nat /\ p * b \in Nat
  OBVIOUS
<1>3. CASE b <= a
  <2>1. a - b \in Nat /\ a = b + (a - b)
    BY <1>3
  <2>2. p * a = p * b + p * (a - b)
    BY <2>1, <1>1
  <2> QED
    BY <1>2, <2>1, <2>2
<1> QED
  BY <1>3

LEMMA DivUnique ==
    ASSUME NEW n \in Nat, NEW p \in Nat \ {0}, NEW q \in Nat,
           p * q <= n, n < p * (q + 1)
    PROVE  n \div p = q
<1> DEFINE m == n \div p
<1>1. m \in Nat /\ p * m <= n /\ n < p * (m + 1)
  BY DivBounds
<1>2. p * m \in Nat /\ p * (m + 1) \in Nat /\ p * q \in Nat /\ p * (q + 1) \in Nat
  BY <1>1
<1> HIDE DEF m
<1>3. m < q + 1
  <2>1. p * m < p * (q + 1)
    BY <1>1, <1>2
  <2> QED
    BY <1>1, <2>1, Below
<1>4. q < m + 1
  <2>1. p * q < p * (m + 1)
    BY <1>1, <1>2
  <2> QED
    BY <1>1, <2>1, Below
<1>5. m = q
  BY <1>1, <1>3, <1>4
<1> QED
  BY <1>5 DEF m

Running == strategy = "constant" /\ sched \notin {"absent", "arming", "panicked"}

TickInv ==
    /\ now \in Nat /\ due \in Nat /\ lastTick \in Nat /\ period \in Nat
    /\ spawner = "begin" => sched = "absent"
    /\ strategy = "constant" /\ sched \in {"absent", "arming"} => now = 0 /\ lastTick = 0
    /\ Running => period > 0
    /\ Running /\ period > Tolerance => due = period * (lastTick \div period + 1)

LEMMA TickInNewInterval ==
    ASSUME TickInv, TickerFires, period > Tolerance
    PROVE  now \div period > lastTick \div period
<1>1. period \in Nat \ {0} /\ now \in Nat /\ lastTick \in Nat
  BY DEF TickInv, TickerFires, Running
<1>2. due = period * (lastTick \div period + 1) /\ due <= now
  BY DEF TickInv, TickerFires, Running
<1> DEFINE k == lastTick \div period
           m == now \div period
<1>3. k \in Nat /\ m \in Nat /\ now < period * (m + 1)
  BY <1>1, DivBounds
<1>4. due = period * (k + 1)
  BY <1>2
<1> HIDE DEF k, m
<1>5. period * (k + 1) < period * (m + 1)
  <2>1. period * (k + 1) \in Nat /\ period * (m + 1) \in Nat
    BY <1>1, <1>3
  <2> QED
    BY <1>1, <1>2, <1>3, <1>4, <2>1
<1>6. k + 1 < m + 1
  <2>1. k + 1 \in Nat /\ m + 1 \in Nat
    BY <1>3
  <2> QED
    BY <1>1, <1>5, <2>1, Below
<1> QED
  BY <1>3, <1>6 DEF k, m

\* The next deadline is a moment, whatever the interval.
LEMMA DueInNat ==
    ASSUME TickInv, TickerFires
    PROVE  NextDue \in Nat
<1>1. period \in Nat \ {0} /\ now - due \in Nat /\ due \in Nat
  BY DEF TickInv, TickerFires, Running
<1>2. (now - due) \div period + 1 \in Nat
  BY <1>1, DivBounds
<1>3. period * ((now - due) \div period + 1) \in Nat
  BY <1>1, <1>2
<1> QED
  BY <1>1, <1>3 DEF NextDue

\* MissedTickBehavior::Skip: after a tick the deadline is the end of its interval.  A
\* tick that passes for punctual, and is not a whole interval late, needs no skipping.
LEMMA DueOnGrid ==
    ASSUME TickInv, TickerFires, period > Tolerance
    PROVE  NextDue \in Nat /\ NextDue = period * (now \div period + 1)
<1> DEFINE k == lastTick \div period
           d == (now - due) \div period
<1>1. period \in Nat \ {0} /\ now \in Nat /\ due \in Nat /\ lastTick \in Nat
  BY DEF TickInv, TickerFires, Running
<1>2. due = period * (k + 1) /\ due <= now
  BY DEF TickInv, TickerFires, Running
<1>3. now - due \in Nat
  BY <1>1, <1>2
<1>4. k \in Nat /\ d \in Nat /\ period * d <= now - due /\ now - due < period * (d + 1)
  BY <1>1, <1>3, DivBounds
<1>5. NextDue = due + period * (d + 1)
  <2>1. CASE now <= due + Tolerance
    <3>1. now - due < period
      BY <1>1, <2>1, TimingAssumption
    <3>2. period * 0 = 0 /\ period * (0 + 1) = period
      BY <1>1
    <3>3. d = 0
      BY <1>1, <1>3, <3>1, <3>2, DivUnique
    <3> QED
      BY <2>1, <3>2, <3>3 DEF NextDue
  <2>2. CASE ~(now <= due + Tolerance)
    BY <2>2 DEF NextDue
  <2> QED
    BY <2>1, <2>2
<1> HIDE DEF k, d
<1>6. \A a, b \in Nat : /\ period * a \in Nat
                        /\ period * (a + b) = period * a + period * b
  BY <1>1
<1>7. /\ period * (k + 1 + d) = due + period * d
      /\ period * (k + 1 + (d + 1)) = due + period * (d + 1)
  <2>1. k + 1 \in Nat /\ d + 1 \in Nat
    BY <1>4
  <2> QED
    BY <1>2, <1>4, <1>6, <2>1
<1>8. period * d \in Nat /\ period * (d + 1) \in Nat /\ k + 1 + d \in Nat
  BY <1>1, <1>4
<1>9. now \div period = k + 1 + d
  <2>1. period * (k + 1 + d) <= now
    BY <1>1, <1>4, <1>7, <1>8
  <2>2. now < period * (k + 1 + (d + 1))
    BY <1>1, <1>4, <1>7, <1>8
  <2>3. k + 1 + (d + 1) = (k + 1 + d) + 1
    BY <1>4
  <2>4. now < period * ((k + 1 + d) + 1)
    BY <2>2, <2>3
  <2> QED
    BY <1>1, <1>8, <2>1, <2>4, DivUnique
<1>10. k + 1 + (d + 1) = (now \div period) + 1
  BY <1>4, <1>9
<1> QED
  BY <1>1, <1>5, <1>7, <1>8, <1>10

LEMMA TickStep == TickInv /\ [Next]_vars => TickInv'
<1> SUFFICES ASSUME TickInv, [Next]_vars PROVE TickInv'
  OBVIOUS
<1> USE DEF TickInv, Running, schedVars, timeVars, appVars, nodeVars
<1>1. CASE SpawnFails \/ StoreHandle \/ Submit
  BY <1>1 DEF SpawnFails, StoreHandle, Submit
<1>2. CASE SpawnTask
  BY <1>2 DEF SpawnTask, passthrough
<1>3. ASSUME NEW c \in Callers, SetFlag(c) \/ Shutdown(c) PROVE TickInv'
  BY <1>3 DEF SetFlag, Shutdown, Wake, CloseOverlay, TakeHandle, Join
<1>4. CASE Elapse
  BY <1>4 DEF Elapse
<1>5. CASE StartTicker
  <2>1. now = 0 /\ lastTick = 0 /\ due' = period
    BY <1>5 DEF StartTicker
  <2>2. CASE period = 0
    BY <1>5, <2>1, <2>2 DEF StartTicker
  <2>3. CASE period > 0
    <3>1. 0 \div period = 0
      BY <2>3, DivUnique
    <3>2. period = period * (0 + 1)
      OBVIOUS
    <3> QED
      BY <1>5, <2>1, <2>3, <3>1, <3>2 DEF StartTicker
  <2> QED
    BY <2>2, <2>3
<1>6. CASE TickerFires
  <2>1. /\ due' \in Nat
        /\ period > Tolerance => due' = period * (now \div period + 1)
    BY <1>6, DueInNat, DueOnGrid DEF TickerFires
  <2> QED
    BY <1>6, <2>1 DEF TickerFires
<1>7. CASE Draw \/ SleepOver \/ Signalled \/ EndRound
  BY <1>7 DEF Draw, SleepOver, Signalled, EndRound, passthrough
<1>8. CASE Woken \/ CheckFlag \/ TakeFrame \/ NothingQueued
  BY <1>8 DEF Woken, CheckFlag, TakeFrame, NothingQueued
<1>9. CASE UNCHANGED vars
  BY <1>9 DEF vars
<1> QED
  BY <1>1, <1>2, <1>3, <1>4, <1>5, <1>6, <1>7, <1>8, <1>9 DEF Next, Scheduler

\* A ticker starts at most one round in each interval and none in the first, however
\* long the rounds take, for every interval longer than what passes for punctual.
THEOREM Paced == Spec => OnePerInterval
<1>1. Init => TickInv
  BY InitialPeriod DEF PeriodType, Init, TickInv, Running
<1>2. TickInv /\ [Next]_vars =>
        [TickerFires /\ period > Tolerance => now \div period > lastTick \div period]_vars
  BY TickInNewInterval
<1> QED
  BY <1>1, <1>2, TickStep, PTL DEF Spec, OnePerInterval
=============================================================================
