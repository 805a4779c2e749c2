----------------------------- MODULE Lifecycle -----------------------------
(***************************************************************************)
(* Starting and stopping a node: Node::spawn, any number of concurrent     *)
(* Node::shutdown calls on its clones, and the loop of the scheduler task  *)
(* (run_constant, run_poisson or run_passthrough) with the shutdown flag,  *)
(* the wake permit and the join handle that link them, and with what       *)
(* paces the loop.  What a round of sending does is reduced to how many    *)
(* frames it takes from the lanes.                                         *)
(*                                                                         *)
(* Time is discrete and only a constant strategy looks at it.  A Poisson   *)
(* sleep may end at any moment; what matters of its length is whether it   *)
(* fits a Duration.                                                        *)
(***************************************************************************)
EXTENDS Naturals

CONSTANTS
    Callers,        \* tasks that call shutdown
    Cap,            \* bound: frames queued (the capacity of the lanes)
    Intervals,      \* intervals of a constant strategy to consider
    Means,          \* mean sleeps, 1 / rate, of a Poisson strategy to consider;
                    \* a rate of 0, negative or NaN is one beyond MaxDuration
    MaxFactor,      \* MAX_INTERVAL_FACTOR
    MaxDraw,        \* -ln of the least value u is clamped to
    MaxDuration,    \* the longest sleep a Duration holds
    Tolerance,      \* how late a tick may come and pass for punctual (tokio: 5 ms)
    Horizon         \* bound: the clock stops there

ASSUME TimingAssumption ==
    /\ Intervals \subseteq Nat /\ Means \subseteq Nat
    /\ {MaxFactor, MaxDraw, MaxDuration, Tolerance, Horizon} \subseteq Nat

VARIABLES
    strategy,    \* Scheduler::strategy, "none" being passthrough
    period,      \* its interval, or its mean sleep (0 if "none")
    spawner,     \* where Node::spawn is
    call,        \* where each caller of Node::shutdown is
    flag,        \* Shaper::shutting_down
    wake,        \* the permit stored in Scheduler::wake
    signal,      \* the permit stored in Shaper::enqueue_notify
    handle,      \* Node::scheduler_handle holds the join handle
    sched,       \* where the scheduler task is
    backlog,     \* frames queued
    now,         \* time since the ticker was made
    due,         \* the ticker's next deadline
    lastTick,    \* history: when the ticker last fired
    late         \* history: rounds of sending that ended after the flag was set

appVars   == <<backlog, signal, strategy, period>>
nodeVars  == <<spawner, call, flag, handle>>
timeVars  == <<now, due, lastTick>>
schedVars == <<sched, wake, late, timeVars>>
vars == <<appVars, nodeVars, schedVars>>

passthrough == strategy = "none"

Init ==
    /\ \/ strategy = "constant" /\ period \in Intervals
       \/ strategy = "poisson" /\ period \in Means
       \/ strategy = "none" /\ period = 0
    /\ now = 0 /\ due = 0 /\ lastTick = 0
    /\ spawner = "begin" /\ call = [c \in Callers |-> "begin"]
    /\ flag = FALSE /\ wake = FALSE /\ signal = FALSE /\ handle = FALSE
    /\ sched = "absent" /\ backlog = 0 /\ late = 0

-----------------------------------------------------------------------------
(* Node::spawn: the overlay is brought up, which may fail; then the task   *)
(* runs, and only then is its handle stored.                               *)

SpawnFails ==
    /\ spawner = "begin"
    /\ spawner' = "failed"
    /\ UNCHANGED <<appVars, call, flag, handle, schedVars>>

SpawnTask ==
    /\ spawner = "begin"
    /\ spawner' = "storing"
    /\ sched' = IF passthrough THEN "waiting" ELSE "arming"
    /\ UNCHANGED <<appVars, call, flag, handle, wake, late, timeVars>>

StoreHandle ==
    /\ spawner = "storing"
    /\ spawner' = "done"
    /\ handle' = TRUE
    /\ UNCHANGED <<appVars, call, flag, schedVars>>

-----------------------------------------------------------------------------
(* Node::shutdown by caller c.                                             *)

At(c, here, there) == call[c] = here /\ call' = [call EXCEPT ![c] = there]

SetFlag(c) ==
    /\ At(c, "begin", "flagged")
    /\ flag' = TRUE
    /\ UNCHANGED <<appVars, spawner, handle, schedVars>>

\* Scheduler::wake.
WakeWaiters(c) ==                                    \* defect: notify_waiters
    /\ At(c, "flagged", "woken")
    /\ wake' = (wake \/ sched = "waiting")
    /\ UNCHANGED <<appVars, spawner, flag, handle, sched, late, timeVars>>
Wake(c) ==
    /\ At(c, "flagged", "woken")
    /\ wake' = TRUE
    /\ UNCHANGED <<appVars, spawner, flag, handle, sched, late, timeVars>>

\* p2p.shut_down().await
CloseOverlay(c) ==
    /\ At(c, "woken", "closed")
    /\ UNCHANGED <<appVars, spawner, flag, handle, schedVars>>

\* The first caller to come here while the handle is stored waits for the task;
\* any other has nothing to wait for.
TakeHandle(c) ==
    /\ At(c, "closed", IF handle THEN "joining" ELSE "returned")
    /\ handle' = FALSE
    /\ UNCHANGED <<appVars, spawner, flag, schedVars>>

\* A task that panicked is joined too; the error is dropped.
Ended == sched \in {"done", "panicked"}

Join(c) ==
    /\ At(c, "joining", "joined")
    /\ Ended
    /\ UNCHANGED <<appVars, spawner, flag, handle, schedVars>>

-----------------------------------------------------------------------------
(* The application and the scheduler task.                                 *)

\* A frame refused, or evicting another, because the lane is full signals too.
Submit ==
    /\ backlog' = IF backlog < Cap THEN backlog + 1 ELSE backlog
    /\ signal' = TRUE
    /\ UNCHANGED <<strategy, period, nodeVars, schedVars>>

Elapse ==
    /\ strategy = "constant" /\ sched \notin {"absent", "arming"} /\ ~Ended
    /\ now < Horizon
    /\ now' = now + 1
    /\ UNCHANGED <<appVars, nodeVars, sched, wake, late, due, lastTick>>

\* tokio's interval panics on a zero period.  Its first tick fires at once and is
\* consumed before the loop, so the deadline is one interval away.
StartTickerAtOnce ==                                 \* defect: not consumed
    /\ strategy = "constant" /\ sched = "arming"
    /\ sched' = IF period = 0 THEN "panicked" ELSE "waiting"
    /\ due' = now
    /\ UNCHANGED <<appVars, nodeVars, wake, late, now, lastTick>>
StartTicker ==
    /\ strategy = "constant" /\ sched = "arming"
    /\ sched' = IF period = 0 THEN "panicked" ELSE "waiting"
    /\ due' = now + period
    /\ UNCHANGED <<appVars, nodeVars, wake, late, now, lastTick>>

\* The length of a Poisson sleep, from a draw of -ln(u); Duration::from_secs_f64
\* panics when it does not fit.
SleepUnbounded(draw) == draw * period                \* defect: no min()
Sleep(draw) == (IF draw < MaxFactor THEN draw ELSE MaxFactor) * period

Draw ==
    /\ strategy = "poisson" /\ sched = "arming"
    /\ \E draw \in 1..MaxDraw :
          sched' = IF Sleep(draw) > MaxDuration THEN "panicked" ELSE "waiting"
    /\ UNCHANGED <<appVars, nodeVars, wake, late, timeVars>>

\* The select! of the loops: when both branches are ready, either may be taken.
\* The deadline after a tick is a period after the last one; MissedTickBehavior::Skip
\* makes it the next of the ticker's grid still ahead when the tick came late.
NextDueBurst == due + period                         \* defect: missed ticks made up
NextDue ==
    IF now <= due + Tolerance THEN due + period
    ELSE due + period * ((now - due) \div period + 1)

TickerFires ==
    /\ strategy = "constant" /\ sched = "waiting"
    /\ due <= now
    /\ due' = NextDue
    /\ lastTick' = now
    /\ sched' = "checking"
    /\ UNCHANGED <<appVars, nodeVars, wake, late, now>>

SleepOver ==
    /\ strategy = "poisson" /\ sched = "waiting"
    /\ sched' = "checking"
    /\ UNCHANGED <<appVars, nodeVars, wake, late, timeVars>>

Signalled ==
    /\ passthrough /\ sched = "waiting"
    /\ signal
    /\ signal' = FALSE
    /\ sched' = "checking"
    /\ UNCHANGED <<nodeVars, backlog, strategy, period, wake, late, timeVars>>

Woken ==
    /\ sched = "waiting"
    /\ wake
    /\ wake' = FALSE
    /\ sched' = "done"
    /\ UNCHANGED <<appVars, nodeVars, late, timeVars>>

CheckSkipped ==                                      \* defect: flag not polled
    /\ sched = "checking"
    /\ sched' = "sending"
    /\ UNCHANGED <<appVars, nodeVars, wake, late, timeVars>>
CheckFlag ==
    /\ sched = "checking"
    /\ sched' = IF flag THEN "done" ELSE "sending"
    /\ UNCHANGED <<appVars, nodeVars, wake, late, timeVars>>

\* send_one takes at most one frame.  drain_passthrough goes on until the lanes
\* are empty, looking at nothing else.
TakeFrame ==
    /\ sched = "sending"
    /\ backlog > 0
    /\ backlog' = backlog - 1
    /\ sched' = IF passthrough THEN "sending" ELSE "sent"
    /\ UNCHANGED <<strategy, period, signal, nodeVars, wake, late, timeVars>>

NothingQueued ==
    /\ sched = "sending"
    /\ backlog = 0
    /\ sched' = "sent"
    /\ UNCHANGED <<appVars, nodeVars, wake, late, timeVars>>

MaxLate == 2   \* bound: late rounds counted

EndRound ==
    /\ sched = "sent"
    /\ sched' = IF strategy = "poisson" THEN "arming" ELSE "waiting"
    /\ late' = IF flag /\ late < MaxLate THEN late + 1 ELSE late
    /\ UNCHANGED <<appVars, nodeVars, wake, timeVars>>

Scheduler ==
    \/ StartTicker \/ Draw
    \/ TickerFires \/ SleepOver \/ Signalled \/ Woken
    \/ CheckFlag \/ TakeFrame \/ NothingQueued \/ EndRound

Shutdown(c) == Wake(c) \/ CloseOverlay(c) \/ TakeHandle(c) \/ Join(c)

Next ==
    \/ SpawnFails \/ SpawnTask \/ StoreHandle
    \/ \E c \in Callers : SetFlag(c) \/ Shutdown(c)
    \/ Submit
    \/ Elapse
    \/ Scheduler

\* The runtime keeps polling what is runnable: the scheduler task, a shutdown call
\* under way and a spawn past its last await.  Nobody has to call or to submit, and
\* no property needs the next tick to come.
Spec ==
    /\ Init
    /\ [][Next]_vars
    /\ WF_vars(Scheduler)
    /\ WF_vars(StoreHandle)
    /\ \A c \in Callers : WF_vars(Shutdown(c))

-----------------------------------------------------------------------------
Returned(c) == call[c] \in {"returned", "joined"}

\* Once any shutdown call has set the flag, at most one round of sending is still
\* carried out, whatever the timer and the submitters do.
OneLateRound == late <= 1

\* However long a round or the task's next turn takes, a ticker whose interval
\* exceeds the tolerance starts at most one round in each interval since it was made,
\* and none in the first: no round at once, and no burst to make up for missed ones
\* (run_constant).  A shorter interval may see several: a tick as late as that counts
\* as punctual and the next is due at once.
OnePerInterval ==
    [][TickerFires /\ period > Tolerance => now \div period > lastTick \div period]_vars

\* Nothing but a shutdown ends the task as long as its timing is sound: a stray
\* permit does not, and a pathological Poisson draw is bounded in time.  An
\* interval of 0, or a rate so small that MaxFactor mean sleeps do not fit a
\* Duration, may end it with no shutdown.
SoundTiming ==
    /\ strategy = "constant" => period > 0
    /\ strategy = "poisson" => MaxFactor * period <= MaxDuration
EndsOnlyWhenStopped == Ended /\ SoundTiming => flag

\* A passthrough drain looks at nothing but the lanes until they are empty, so the
\* two properties below need submitters that stop; a timed round needs nothing.
SubmittersRelent == passthrough => <>[][~Submit]_vars

\* A shutdown call returns: its wake-up is not lost wherever the scheduler is in
\* its loop, before it was spawned included.
ShutdownReturns ==
    SubmittersRelent => \A c \in Callers : call[c] = "flagged" ~> Returned(c)

\* The task ends for good once the flag is set, also when the shutdown overtakes
\* the spawn and finds no handle to wait on.
SchedulerStops ==
    SubmittersRelent => (flag ~> [](sched = "absent" \/ Ended))
=============================================================================
