---------------------------- MODULE GlobalScope ----------------------------
(***************************************************************************)
(* A node in ShapingScope::Global: application tasks submit into the two   *)
(* shared lanes, and the scheduler task drains them, one frame per tick    *)
(* under a timed strategy or until both lanes are empty per wake-up in     *)
(* passthrough (ShapingStrategy::None), and fans each frame out.           *)
(*                                                                         *)
(* Each lane has a mutex of its own, so next_frame is two critical         *)
(* sections; a submission pushes under the lane's mutex and signals the    *)
(* Notify afterwards; the peer list is a snapshot taken when the scheduler *)
(* starts.  The steps of the scheduler are therefore the sections between  *)
(* which another task can run: snapshot, high lane, low lane, each send.   *)
(***************************************************************************)
EXTENDS Lanes, Selection

CONSTANTS
    Peers,          \* addresses
    Threads,        \* tasks that submit frames
    Broadcast,      \* Target::Broadcast
    Modes,          \* the strategies to consider: see passthrough
    MayOverflow,    \* a connection's outbound queue may be full at a send
    MaxFrames       \* bound: frames accepted in a behaviour

ASSUME PeersAssumption == IsFiniteSet(Peers) /\ Broadcast \notin Peers
ASSUME MaxFramesAssumption == MaxFrames \in Nat
ASSUME ModesAssumption == Modes \subseteq BOOLEAN /\ MayOverflow \in BOOLEAN

VARIABLES
    passthrough, \* strategy is None (TRUE) or Constant/Poisson (FALSE)
    connected,   \* the overlay's connections
    high, low,   \* Shaper::high_lane, low_lane
    submitted,   \* frames accepted so far; a frame's id is its rank
    notifying,   \* tasks between the push and enqueue_notify.notify_one()
    permit,      \* the permit stored in enqueue_notify
    pc,          \* where the scheduler is
    peers,       \* `peers`, the snapshot of the running (or last) drain
    frame,       \* the frame in the scheduler's hands, Cover when there is none
    pending,     \* peers the running dispatch has still to serve
    hit,         \* peers served by the running (or last) dispatch
    lastPeers,   \* Scheduler::last_peers
    mark,        \* history: `submitted` when the high lane was found empty
    delivered    \* history: the real frames each peer was sent, in order

laneVars  == <<high, low, submitted>>
wakeVars  == <<notifying, permit>>
sendVars  == <<frame, pending, hit, lastPeers>>
schedVars == <<pc, peers, frame, pending, hit, lastPeers, mark>>
vars == <<passthrough, connected, laneVars, wakeVars, schedVars, delivered>>

Targets == Peers \cup {Broadcast}
Frame   == [id : Nat, lane : {"high", "low"}, target : Targets]
Cover   == [id |-> 0, lane |-> "cover", target |-> Broadcast]

\* What dispatch_global puts in the slot of peer p: a unicast frame reaches its
\* target only, every other slot of that dispatch carries cover.
Content(p) == IF frame.target \in {Broadcast, p} THEN frame ELSE Cover

Init ==
    /\ passthrough \in Modes
    /\ connected \in SUBSET Peers
    /\ high = << >> /\ low = << >> /\ submitted = 0
    /\ notifying = {} /\ permit = FALSE
    /\ pc = "idle" /\ peers = {}
    /\ frame = Cover /\ pending = {} /\ hit = {} /\ lastPeers = {}
    /\ mark = 0
    /\ delivered = [p \in Peers |-> << >>]

-----------------------------------------------------------------------------
(* The overlay and the submitting tasks.                                   *)

Connect(p) ==
    /\ p \notin connected
    /\ connected' = connected \cup {p}
    /\ UNCHANGED <<passthrough, laneVars, wakeVars, schedVars, delivered>>

Disconnect(p) ==
    /\ p \in connected
    /\ connected' = connected \ {p}
    /\ UNCHANGED <<passthrough, laneVars, wakeVars, schedVars, delivered>>

NewFrame(lane, target) == [id |-> submitted + 1, lane |-> lane, target |-> target]

EnqueueHigh(t, target) ==
    /\ t \notin notifying
    /\ submitted < MaxFrames
    /\ ~HighFull(high)
    /\ high' = PushHigh(high, NewFrame("high", target))
    /\ submitted' = submitted + 1
    /\ notifying' = notifying \cup {t}
    /\ UNCHANGED <<passthrough, connected, low, permit, schedVars, delivered>>

EnqueueLow(t, target) ==
    /\ t \notin notifying
    /\ submitted < MaxFrames
    /\ low' = PushLow(low, NewFrame("low", target))
    /\ submitted' = submitted + 1
    /\ notifying' = notifying \cup {t}
    /\ UNCHANGED <<passthrough, connected, high, permit, schedVars, delivered>>

\* Error::LaneFull: the frame is refused, yet the scheduler is signalled.
LaneFull(t) ==
    /\ t \notin notifying
    /\ HighFull(high)
    /\ notifying' = notifying \cup {t}
    /\ UNCHANGED <<passthrough, connected, laneVars, permit, schedVars, delivered>>

\* notify_one: the permit is kept until the scheduler waits for it.
NotifyWaiters(t) ==                                  \* defect: nothing stored
    /\ t \in notifying
    /\ notifying' = notifying \ {t}
    /\ permit' = (permit \/ pc = "idle")
    /\ UNCHANGED <<passthrough, connected, laneVars, schedVars, delivered>>
NotifyOne(t) ==
    /\ t \in notifying
    /\ notifying' = notifying \ {t}
    /\ permit' = TRUE
    /\ UNCHANGED <<passthrough, connected, laneVars, schedVars, delivered>>

-----------------------------------------------------------------------------
(* The scheduler task.                                                     *)

\* A tick of run_constant or run_poisson: send_one takes its snapshot.  With no
\* peer connected it returns at once, which changes nothing.
TickOnOldSnapshot ==                                 \* defect: peers read once
    /\ ~passthrough
    /\ pc = "idle"
    /\ connected # {}
    /\ pc' = "high"
    /\ peers' = IF peers = {} THEN connected ELSE peers
    /\ hit' = {}
    /\ UNCHANGED <<passthrough, connected, laneVars, wakeVars, frame, pending,
                   lastPeers, mark, delivered>>
Tick ==
    /\ ~passthrough
    /\ pc = "idle"
    /\ connected # {}
    /\ pc' = "high"
    /\ peers' = connected
    /\ hit' = {}
    /\ UNCHANGED <<passthrough, connected, laneVars, wakeVars, frame, pending,
                   lastPeers, mark, delivered>>

\* run_passthrough wakes and drain_passthrough takes its snapshot; with no peer
\* connected it goes back to sleep, the permit spent.
WakeUp ==
    /\ passthrough
    /\ pc = "idle"
    /\ permit
    /\ permit' = FALSE
    /\ peers' = connected
    /\ pc' = IF connected = {} THEN "idle" ELSE "high"
    /\ hit' = {}
    /\ UNCHANGED <<passthrough, connected, laneVars, notifying, frame, pending,
                   lastPeers, mark, delivered>>

\* dispatch_global.  A unicast frame whose target is in the snapshot takes one
\* slot, and cover to other peers fills the rest; any other frame leaves all
\* slots to the selection.
Pool(f) == peers \ {f.target}
SlotsBesideTarget(f) == Budget(peers)                \* defect: one frame too many
SlotsUnfilled(f) ==                                  \* defect: no cover beside it
    IF f.target \in peers THEN 0 ELSE Budget(peers)
Slots(f) == IF f.target \in peers THEN Budget(peers) - 1 ELSE Budget(peers)

\* pick_targets returns early on an empty pool and leaves last_peers alone.
Dispatch(f) ==
    \E chosen \in Picks(Pool(f), Slots(f), lastPeers) :
      /\ pending' = chosen \cup ({f.target} \cap peers)
      /\ lastPeers' = IF Pool(f) = {} THEN lastPeers ELSE chosen
      /\ frame' = f
      /\ hit' = {}
      /\ pc' = "send"

TakeHigh ==
    /\ pc = "high"
    /\ high # << >>
    /\ high' = Pop(high)
    /\ Dispatch(Head(high))
    /\ UNCHANGED <<passthrough, connected, low, submitted, wakeVars, peers,
                   mark, delivered>>

HighSkipped ==                                       \* defect: no emptiness check
    /\ pc = "high"
    /\ pc' = "low"
    /\ mark' = submitted
    /\ UNCHANGED <<passthrough, connected, laneVars, wakeVars, peers, sendVars,
                   delivered>>
HighEmpty ==
    /\ pc = "high"
    /\ high = << >>
    /\ pc' = "low"
    /\ mark' = submitted
    /\ UNCHANGED <<passthrough, connected, laneVars, wakeVars, peers, sendVars,
                   delivered>>

TakeLow ==
    /\ pc = "low"
    /\ low # << >>
    /\ low' = Pop(low)
    /\ Dispatch(Head(low))
    /\ UNCHANGED <<passthrough, connected, high, submitted, wakeVars, peers,
                   mark, delivered>>

\* Both lanes found empty under a timed strategy: the tick carries cover.
TakeCover ==
    /\ ~passthrough
    /\ pc = "low"
    /\ low = << >>
    /\ Dispatch(Cover)
    /\ UNCHANGED <<passthrough, connected, laneVars, wakeVars, peers, mark,
                   delivered>>

\* Both lanes found empty in passthrough: the drain is over.
DrainDone ==
    /\ passthrough
    /\ pc = "low"
    /\ low = << >>
    /\ pc' = "idle"
    /\ UNCHANGED <<passthrough, connected, laneVars, wakeVars, peers, sendVars,
                   mark, delivered>>

\* unicast_fast to p.  It fails when p is no longer connected or its outbound
\* queue is full; the failure is logged and the frame is gone.
TransmitUncounted(p) ==                              \* defect: cover taken for real
    IF p \in connected THEN delivered' = [delivered EXCEPT ![p] = Append(@, Content(p))]
    ELSE UNCHANGED delivered
Transmit(p) ==
    \/ /\ p \in connected
       /\ delivered' = IF Content(p) = Cover THEN delivered
                       ELSE [delivered EXCEPT ![p] = Append(@, frame)]
    \/ /\ p \notin connected \/ MayOverflow
       /\ UNCHANGED delivered

SendOrAbort(p) ==                                    \* defect: a failure ends it
    /\ pc = "send"
    /\ p \in pending
    /\ frame.target \in pending => p = frame.target
    /\ Transmit(p)
    /\ hit' = hit \cup {p}
    /\ pending' = IF p \in connected THEN pending \ {p} ELSE {}
    /\ pc' = IF pending' # {} THEN "send" ELSE IF passthrough THEN "high" ELSE "idle"
    /\ frame' = IF pending' # {} THEN frame ELSE Cover
    /\ UNCHANGED <<passthrough, connected, laneVars, wakeVars, peers, lastPeers,
                   mark>>
Send(p) ==
    /\ pc = "send"
    /\ p \in pending
    /\ frame.target \in pending => p = frame.target
    /\ Transmit(p)
    /\ hit' = hit \cup {p}
    /\ pending' = pending \ {p}
    /\ pc' = IF pending' # {} THEN "send" ELSE IF passthrough THEN "high" ELSE "idle"
    /\ frame' = IF pending' # {} THEN frame ELSE Cover
    /\ UNCHANGED <<passthrough, connected, laneVars, wakeVars, peers, lastPeers,
                   mark>>

Scheduler ==
    \/ Tick \/ WakeUp
    \/ TakeHigh \/ HighEmpty \/ TakeLow \/ TakeCover \/ DrainDone
    \/ \E p \in Peers : Send(p)

Environment ==
    \/ \E p \in Peers : Connect(p) \/ Disconnect(p)
    \/ \E t \in Threads : \/ \E target \in Targets : \/ EnqueueHigh(t, target)
                                                     \/ EnqueueLow(t, target)
                          \/ LaneFull(t)
                          \/ NotifyOne(t)

Next == Scheduler \/ Environment

\* The runtime keeps polling the scheduler task and its timer, and a task that
\* has pushed reaches its notify_one.  Nothing obliges anybody to submit.
Fairness ==
    /\ WF_vars(Scheduler)
    /\ \A t \in Threads : WF_vars(NotifyOne(t))

Spec == Init /\ [][Next]_vars /\ Fairness

-----------------------------------------------------------------------------
(* Safety.                                                                 *)

TypeOK ==
    /\ passthrough \in BOOLEAN
    /\ connected \in SUBSET Peers
    /\ high \in Seq(Frame) /\ low \in Seq(Frame) /\ submitted \in Nat
    /\ notifying \in SUBSET Threads /\ permit \in BOOLEAN
    /\ pc \in {"idle", "high", "low", "send"}
    /\ peers \in SUBSET Peers
    /\ frame \in Frame \cup {Cover}
    /\ pending \in SUBSET Peers /\ hit \in SUBSET Peers
    /\ lastPeers \in SUBSET Peers
    /\ mark \in Nat
    /\ delivered \in [Peers -> Seq(Frame)]

\* The lanes stay within their capacities and in submission order: the front of
\* the high lane is its oldest frame, the front of the low lane its newest
\* (push_global), whatever mix of pushes, evictions and pops came before.
LaneOrder ==
    /\ Len(high) <= HighCap /\ Len(low) <= LowCap
    /\ \A i \in 1..Len(high) : high[i].lane = "high" /\ high[i].id \in 1..submitted
    /\ \A i \in 1..Len(low) : low[i].lane = "low" /\ low[i].id \in 1..submitted
    /\ \A i, j \in 1..Len(high) : i < j => high[i].id < high[j].id
    /\ \A i, j \in 1..Len(low) : i < j => low[j].id < low[i].id

\* End to end, what a peer receives from the high lane is in submission order
\* and free of duplicates, and everything still waiting in the lane is newer:
\* the lane, the hand-over to the scheduler and the fan-out never reorder or
\* repeat a high frame.
HighInOrder ==
    \A p \in Peers : \A i \in 1..Len(delivered[p]) :
        delivered[p][i].lane = "high" =>
            /\ \A j \in 1..Len(delivered[p]) :
                  i < j /\ delivered[p][j].lane = "high" =>
                      delivered[p][i].id < delivered[p][j].id
            /\ \A f \in FramesIn(high) : delivered[p][i].id < f.id

\* A low frame is popped once: no peer gets it twice, and it is gone from the
\* lane once any peer has it.
LowOnce ==
    \A p \in Peers : \A i \in 1..Len(delivered[p]) :
        delivered[p][i].lane = "low" =>
            /\ \A j \in 1..Len(delivered[p]) :
                  i # j => delivered[p][i].id # delivered[p][j].id
            /\ \A f \in FramesIn(low) : delivered[p][i].id # f.id

\* Every dispatch, of a real frame or of cover, unicast or broadcast, to a peer
\* present or departed, serves Budget(peers) distinct peers of the snapshot,
\* and a unicast target in the snapshot is one of them (dispatch_global).
DispatchShape ==
    pc = "send" =>
        /\ pending \cap hit = {}
        /\ pending \cup hit \subseteq peers
        /\ Cardinality(pending \cup hit) = Budget(peers)
        /\ frame.target \in peers => frame.target \in pending \cup hit

\* No submission is lost to the passthrough scheduler: when it sleeps after a
\* drain that saw a peer, with no signal stored or on its way, both lanes are
\* empty, although its two emptiness checks are not one atomic step.
NothingStranded ==
    passthrough /\ pc = "idle" /\ ~permit /\ notifying = {} /\ peers # {} =>
        high = << >> /\ low = << >>

\* A low frame or cover is sent only past high frames that were submitted after
\* the high lane was found empty (next_frame), never past an older one.
LateHighOnly ==
    [][TakeLow \/ TakeCover => \A f \in FramesIn(high) : f.id > mark]_vars

\* Frames leave a lane by policy only: a high frame only into the scheduler's
\* hands, a low frame also when it was the oldest of a full lane and a newer one
\* took its place (one for one: the lane is as full as before).
LossOnlyByPolicy ==
    [][/\ \A f \in FramesIn(high) : f \in FramesIn(high') \/ frame' = f
       /\ \A f \in FramesIn(low) :
            \/ f \in FramesIn(low') \/ frame' = f
            \/ Len(low') = LowCap /\ \A g \in FramesIn(low') : f.id < g.id]_vars

-----------------------------------------------------------------------------
(* Refinement and liveness.                                                *)

\* A timed node implements WireShape, real traffic included: how many frames a
\* tick puts on the links, and that they go to as many peers of its snapshot,
\* follows from the connections alone.  (Which of those peers they are may depend on a
\* unicast's target.)
Wire == INSTANCE WireShape WITH open <- IF pc = "idle" THEN {} ELSE peers
WireSpec == Wire!Spec

InHigh(i) == \E f \in FramesIn(high) : f.id = i
Queued(i) == \E f \in FramesIn(high) \cup FramesIn(low) : f.id = i

\* Under a timed strategy a high frame is drained, whatever waits in the low lane
\* and whoever submits or is refused meanwhile, provided some peer stays connected.
HighDrains ==
    <>[](connected # {}) =>
        \A i \in 1..MaxFrames : ~passthrough /\ InHigh(i) ~> ~InHigh(i)

\* Under a timed strategy a high unicast frame whose target stays connected, and
\* is in the snapshot the scheduler is working on if any, is delivered (outbound
\* queues never full).
SteadyUnicastArrives ==
    \A p \in Peers, i \in 1..MaxFrames :
        /\ ~passthrough
        /\ \E f \in FramesIn(high) : f.id = i /\ f.target = p
        /\ pc = "idle" \/ p \in peers
        /\ [](p \in connected)
        ~> \E k \in 1..Len(delivered[p]) : delivered[p][k].id = i

\* Under a timed strategy a high broadcast frame reaches a peer that stays
\* connected, whichever other peers leave in the middle of the fan-out and fail
\* their sends, as long as no more peers are connected than the fanout serves
\* (outbound queues never full).
SteadyBroadcastArrives ==
    \A p \in Peers, i \in 1..MaxFrames :
        /\ ~passthrough
        /\ \E f \in FramesIn(high) : f.id = i /\ f.target = Broadcast
        /\ pc = "idle" \/ (p \in peers /\ Cardinality(peers) <= Fanout)
        /\ [](p \in connected /\ Cardinality(connected) <= Fanout)
        ~> \E k \in 1..Len(delivered[p]) : delivered[p][k].id = i

\* In passthrough, a frame whose signal is not spent yet is drained while some
\* peer stays connected: no wake-up is lost.  (A low frame needs the high lane to
\* run empty, which it does here as submissions are finite.)
SignalledDrains ==
    \A i \in 1..MaxFrames :
        /\ passthrough /\ Queued(i)
        /\ notifying # {} \/ permit \/ pc # "idle"
        /\ [](connected # {})
        ~> ~Queued(i)

-----------------------------------------------------------------------------
(* What the repository's comments say and the code does not do.            *)

\* scheduler.rs:163 and 189: passthrough has "no cover", the drain "never
\* generates cover".
NoCoverInPassthrough ==
    passthrough /\ pc = "send" => \A p \in pending : Content(p) # Cover
=============================================================================
