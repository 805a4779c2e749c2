------------------------ MODULE PerConnectionScope -------------------------
(***************************************************************************)
(* A node in ShapingScope::PerConnection: every peer has its own pair of   *)
(* lanes, a tick serves the one peer whose turn it is, and a broadcast     *)
(* copies the frame into the lanes of the peers the scheduler last saw.    *)
(*                                                                         *)
(* All lanes are behind one mutex and the cached peer list behind another, *)
(* so a fan-out is two critical sections (read the cache, push the copies) *)
(* and a tick is five: snapshot, refresh, prune, pop, send.  A peer without*)
(* an entry in the map is modelled as one with two empty lanes.            *)
(***************************************************************************)
EXTENDS Lanes, Cursor, SequencesExt, FiniteSets

CONSTANTS
    Peers,          \* addresses
    Threads,        \* tasks that submit frames
    NoPeer,         \* the target of cover
    Randomize,      \* PerConnection { randomize }
    Modes,          \* the strategies to consider: see passthrough
    MayOverflow,    \* a connection's outbound queue may be full at a send
    MaxFrames       \* bound: frames accepted in a behaviour

ASSUME PeersAssumption == IsFiniteSet(Peers) /\ NoPeer \notin Peers
ASSUME ModesAssumption == Modes \subseteq BOOLEAN
ASSUME MaxFramesAssumption == MaxFrames \in Nat

VARIABLES
    passthrough, \* strategy is None (TRUE) or Constant/Poisson (FALSE)
    links,       \* the overlay's connections, in the order it lists them
    lanes,       \* Shaper::peer_lanes
    pcPeers,     \* Shaper::pc_peers, which is only iterated over: a set
    submitted,   \* frames accepted so far; a frame's id is its rank
    task,        \* where each submitting task is
    permit,      \* the permit stored in enqueue_notify
    pc,          \* where the scheduler is
    peers,       \* `peers`, the snapshot of the running (or last) drain
    todo,        \* the peers this tick or drain has still to serve
    frame,       \* the frame in the scheduler's hands, Cover when there is none
    cursor,      \* Scheduler::cursor
    hit,         \* the peers served since the snapshot
    delivered    \* history: the real frames each peer was sent, in order

shaperVars == <<lanes, pcPeers, submitted, task, permit>>
schedVars  == <<pc, peers, todo, frame, cursor, hit>>
appVars == <<passthrough, delivered>>
vars == <<links, shaperVars, schedVars, appVars>>

Frame == [id : Nat, lane : {"high", "low"}, target : Peers]
Cover == [id |-> 0, lane |-> "cover", target |-> NoPeer]
Empty == [high |-> << >>, low |-> << >>]
Resting == [at |-> "rest", lane |-> "high", copies |-> {}]

connected == ToSet(links)

Orders == SetToAllKPermutations(Peers)

Init ==
    /\ passthrough \in Modes
    /\ links \in Orders
    /\ lanes = [p \in Peers |-> Empty]
    /\ pcPeers = {} /\ submitted = 0
    /\ task = [t \in Threads |-> Resting] /\ permit = FALSE
    /\ pc = "idle" /\ peers = << >> /\ todo = << >> /\ frame = Cover
    /\ cursor = 0 /\ hit = {}
    /\ delivered = [p \in Peers |-> << >>]

-----------------------------------------------------------------------------
(* The overlay.  A new connection may reorder the whole list (the map that *)
(* holds it may be rehashed); a lost one leaves the others in place.       *)

Connect(p) ==
    /\ p \notin connected
    /\ links' \in SetToSeqs(connected \cup {p})
    /\ UNCHANGED <<shaperVars, schedVars, appVars>>

Disconnect(p) ==
    /\ \E i \in 1..Len(links) : links[i] = p /\ links' = RemoveAt(links, i)
    /\ UNCHANGED <<shaperVars, schedVars, appVars>>

-----------------------------------------------------------------------------
(* The submitting tasks.                                                   *)

NewFrame(lane, p) == [id |-> submitted + 1, lane |-> lane, target |-> p]
Signalling == [Resting EXCEPT !.at = "notify"]

\* push_peer.  Error::LaneFull still signals the scheduler.
PushPeer(t, p, lane) ==
    /\ task[t].at = "rest"
    /\ submitted < MaxFrames
    /\ LET f == NewFrame(lane, p)
           refused == lane = "high" /\ HighFull(lanes[p].high)
       IN  /\ lanes' = CASE refused -> lanes
                         [] lane = "low" -> [lanes EXCEPT ![p].low = PushLow(@, f)]
                         [] OTHER -> [lanes EXCEPT ![p].high = PushHigh(@, f)]
           /\ submitted' = IF refused THEN submitted ELSE submitted + 1
    /\ task' = [task EXCEPT ![t] = Signalling]
    /\ UNCHANGED <<links, pcPeers, permit, schedVars, appVars>>

\* fan_out_per_connection, first half: the cached peers.  With none, the frame is
\* gone and the call succeeds.
BeginFanOut(t, lane) ==
    /\ task[t].at = "rest"
    /\ submitted < MaxFrames
    /\ task' = [task EXCEPT ![t] =
                  IF pcPeers = {} THEN Signalling
                  ELSE [at |-> "fan", lane |-> lane, copies |-> pcPeers]]
    /\ UNCHANGED <<links, lanes, pcPeers, submitted, permit, schedVars, appVars>>

\* Second half: a copy for each of them, evicting what does not fit.
WithCopy(pair, lane, f) ==
    IF lane = "low" THEN [pair EXCEPT !.low = PushLow(@, f)]
    ELSE [pair EXCEPT !.high = PushHighEvicting(@, f)]

FanOut(t) ==
    /\ task[t].at = "fan"
    /\ submitted < MaxFrames
    /\ lanes' = [p \in Peers |->
                   IF p \in task[t].copies
                   THEN WithCopy(lanes[p], task[t].lane, NewFrame(task[t].lane, p))
                   ELSE lanes[p]]
    /\ submitted' = submitted + 1
    /\ task' = [task EXCEPT ![t] = Signalling]
    /\ UNCHANGED <<links, pcPeers, permit, schedVars, appVars>>

NotifyWaiters(t) ==                                  \* defect: nothing stored
    /\ task[t].at = "notify"
    /\ task' = [task EXCEPT ![t] = Resting]
    /\ permit' = (permit \/ pc = "idle")
    /\ UNCHANGED <<links, lanes, pcPeers, submitted, schedVars, appVars>>
NotifyOne(t) ==
    /\ task[t].at = "notify"
    /\ task' = [task EXCEPT ![t] = Resting]
    /\ permit' = TRUE
    /\ UNCHANGED <<links, lanes, pcPeers, submitted, schedVars, appVars>>

-----------------------------------------------------------------------------
(* The scheduler task.                                                     *)

\* A tick, or a wake-up in passthrough: the snapshot.  Unlike Global scope, a
\* tick without peers does go on to refresh and prune.
Snapshot ==
    /\ pc = "idle"
    /\ passthrough => permit
    /\ permit' = IF passthrough THEN FALSE ELSE permit
    /\ pc' = "refresh"
    /\ peers' = links
    /\ hit' = IF links = << >> THEN hit ELSE {}
    /\ UNCHANGED <<links, lanes, pcPeers, submitted, task, todo, frame, cursor,
                   appVars>>

\* refresh_pc_peers.
Refresh ==
    /\ pc = "refresh"
    /\ pcPeers' = ToSet(peers)
    /\ pc' = "prune"
    /\ UNCHANGED <<links, lanes, submitted, task, permit, peers, todo, frame,
                   cursor, hit, appVars>>

\* prune_peer_lanes: the lanes kept, given the snapshot.
KeptForPresent(p) == p \notin ToSet(peers)           \* defect: retain inverted
KeptAlways(p) == TRUE                                \* defect: no pruning
Kept(p) == p \in ToSet(peers)

\* pick_round_robin for this tick.
DueWithFrames(offset) ==                             \* defect: prefers a busy peer
    IF \E p \in ToSet(peers) : lanes[p] # Empty
    THEN CHOOSE p \in ToSet(peers) : lanes[p] # Empty
    ELSE Turn(peers, cursor, offset)
Due(offset) == Turn(peers, cursor, offset)

\* After pruning, a tick picks its peer; a drain walks the whole snapshot (the
\* cache it reads again is the snapshot it has just stored).
Prune ==
    /\ pc = "prune"
    /\ lanes' = [p \in Peers |-> IF Kept(p) THEN lanes[p] ELSE Empty]
    /\ pc' = IF peers = << >> THEN "idle" ELSE "pop"
    /\ IF passthrough \/ peers = << >>
       THEN todo' = peers /\ UNCHANGED cursor
       ELSE /\ \E offset \in Offsets(peers, Randomize) :
                 todo' = <<Due(offset)>>
            /\ cursor' = Advanced(cursor)
    /\ UNCHANGED <<links, pcPeers, submitted, task, permit, peers, frame, hit,
                   appVars>>

\* next_frame_for: one critical section, high lane first.
NextFrame(pair) ==
    IF pair.high # << >> THEN [frame |-> Head(pair.high), rest |-> [pair EXCEPT !.high = Pop(@)]]
    ELSE IF pair.low # << >> THEN [frame |-> Head(pair.low), rest |-> [pair EXCEPT !.low = Pop(@)]]
    ELSE [frame |-> Cover, rest |-> pair]

\* A drain passes over a peer with nothing queued, a tick sends it cover.
SkipsAlways == TRUE                                  \* defect: tick without cover
Skips == passthrough

Take ==
    /\ pc = "pop"
    /\ LET p == Head(todo)
           next == NextFrame(lanes[p])
           skip == Skips /\ next.frame = Cover
       IN  /\ lanes' = [lanes EXCEPT ![p] = next.rest]
           /\ frame' = next.frame
           /\ todo' = IF skip THEN Tail(todo) ELSE todo
           /\ pc' = CASE ~skip -> "send"
                      [] skip /\ Len(todo) > 1 -> "pop"
                      [] OTHER -> "idle"
    /\ UNCHANGED <<links, pcPeers, submitted, task, permit, peers, cursor, hit,
                   appVars>>

\* send_one_to: unicast_fast fails when the peer has left meanwhile or its
\* outbound queue is full, and the failure is only logged.
TransmitUncounted(p) ==                              \* defect: cover taken for real
    IF p \in connected THEN delivered' = [delivered EXCEPT ![p] = Append(@, frame)]
    ELSE UNCHANGED delivered
Transmit(p) ==
    \/ /\ p \in connected
       /\ delivered' = IF frame = Cover THEN delivered
                       ELSE [delivered EXCEPT ![p] = Append(@, frame)]
    \/ /\ p \notin connected \/ MayOverflow
       /\ UNCHANGED delivered

Send ==
    /\ pc = "send"
    /\ Transmit(Head(todo))
    /\ hit' = hit \cup {Head(todo)}
    /\ frame' = Cover
    /\ todo' = Tail(todo)
    /\ pc' = IF Len(todo) > 1 THEN "pop" ELSE "idle"
    /\ UNCHANGED <<passthrough, links, shaperVars, peers, cursor>>

Scheduler == Snapshot \/ Refresh \/ Prune \/ Take \/ Send

Environment ==
    \/ \E p \in Peers : Connect(p) \/ Disconnect(p)
    \/ \E t \in Threads :
         \/ \E lane \in {"high", "low"} :
              BeginFanOut(t, lane) \/ \E p \in Peers : PushPeer(t, p, lane)
         \/ FanOut(t)
         \/ NotifyOne(t)

Next == Scheduler \/ Environment

\* The runtime keeps polling the scheduler task and its timer, and a submission
\* under way runs to its end.  Nothing obliges anybody to submit.
Spec ==
    /\ Init
    /\ [][Next]_vars
    /\ WF_vars(Scheduler)
    /\ \A t \in Threads : WF_vars(FanOut(t) \/ NotifyOne(t))

-----------------------------------------------------------------------------
(* Safety.                                                                 *)

TypeOK ==
    /\ passthrough \in BOOLEAN
    /\ links \in Seq(Peers) /\ IsInjective(links)
    /\ lanes \in [Peers -> [high : Seq(Frame), low : Seq(Frame)]]
    /\ pcPeers \in SUBSET Peers /\ submitted \in 0..MaxFrames
    /\ task \in [Threads -> [at : {"rest", "fan", "notify"}, lane : {"high", "low"},
                             copies : SUBSET Peers]]
    /\ permit \in BOOLEAN
    /\ pc \in {"idle", "refresh", "prune", "pop", "send"}
    /\ peers \in Seq(Peers) /\ todo \in Seq(ToSet(peers))
    /\ pc \in {"pop", "send"} <=> todo # << >>
    /\ frame \in Frame \cup {Cover}
    /\ cursor \in Words
    /\ hit \in SUBSET Peers
    /\ delivered \in [Peers -> Seq(Frame)]

\* Unicasts and fan-out copies, evictions and prunings mixed in any order leave
\* each peer's lanes within capacity and in submission order.
PeerLaneOrder ==
    \A p \in Peers :
        LET h == lanes[p].high
            l == lanes[p].low
        IN  /\ Len(h) <= HighCap /\ Len(l) <= LowCap
            /\ \A i, j \in 1..Len(h) : i < j => h[i].id < h[j].id
            /\ \A i, j \in 1..Len(l) : i < j => l[j].id < l[i].id

\* A peer receives what was addressed to it and, from the high lane, in the order
\* of submission, ahead of whatever is queued for it and without duplicates:
\* neither a reconnection nor a pruning brings an old frame back.
PeerHighInOrder ==
    \A p \in Peers : \A i \in 1..Len(delivered[p]) :
        LET d == delivered[p]
        IN  /\ d[i].target = p
            /\ d[i].lane = "high" =>
                 /\ \A j \in 1..Len(d) : i < j /\ d[j].lane = "high" => d[i].id < d[j].id
                 /\ \A f \in FramesIn(lanes[p].high) : d[i].id < f.id

\* One signal stands for many submissions and a drain takes one frame per peer, yet
\* no peer is passed over: when the passthrough scheduler sleeps with no signal
\* stored or on its way, a peer of its snapshot with something queued was sent a
\* frame in the drain that just ended (run_passthrough, drain_passthrough).
DrainServesEach ==
    passthrough /\ pc = "idle" /\ ~permit /\ (\A t \in Threads : task[t].at = "rest")
        => \A p \in ToSet(peers) : lanes[p] # Empty => p \in hit

\* A high frame leaves its lane in three ways only: into the scheduler's hands,
\* pushed out by a newer broadcast copy in a full lane, or pruned because the
\* scheduler's snapshot lacks the peer.
PeerLossOnlyByPolicy ==
    [][\A p \in Peers : \A f \in FramesIn(lanes[p].high) :
         \/ f \in FramesIn(lanes'[p].high) \/ frame' = f
         \/ Len(lanes'[p].high) = HighCap /\ \A g \in FramesIn(lanes'[p].high) : f.id < g.id
         \/ Prune /\ p \notin ToSet(peers)]_vars

-----------------------------------------------------------------------------
(* Refinement and liveness.                                                *)

\* A timed node implements TurnShape: each tick on a non-empty list serves one peer,
\* which the list, the cursor and the offset select; the lanes have no say in it.
\* (Passthrough has no ticks: TurnShape sees it idle for ever.)
Turns == INSTANCE TurnShape WITH
             list <- IF passthrough \/ pc = "idle" THEN << >> ELSE peers,
             turn <- IF passthrough THEN << >> ELSE todo,
             hit  <- IF passthrough THEN {} ELSE hit
TurnSpec == Turns!Spec

QueuedFor(p, i) ==
    \E f \in FramesIn(lanes[p].high) \cup FramesIn(lanes[p].low) : f.id = i

\* What is queued for a peer that stays away is discarded, copies that a slow
\* fan-out adds after the peer left included: the map does not keep them.
DepartedLanesClear ==
    \A p \in Peers, i \in 1..MaxFrames :
        QueuedFor(p, i) /\ [](p \notin connected) ~> ~QueuedFor(p, i)

\* While the connections do not change, round robin serves every lane: a high
\* frame queued for a connected peer arrives, unless the scheduler is working on a
\* snapshot without the peer (lanes large enough that nothing is evicted, outbound
\* queues never full).
SteadyHighArrives ==
    \A p \in Peers, i \in 1..MaxFrames : \A order \in {o \in Orders : p \in ToSet(o)} :
        /\ \E f \in FramesIn(lanes[p].high) : f.id = i
        /\ pc = "idle" \/ p \in ToSet(peers)
        /\ [](links = order)
        ~> \E k \in 1..Len(delivered[p]) : delivered[p][k].id = i

-----------------------------------------------------------------------------
(* What the repository's comments say and the code does not do.            *)

\* shaper.rs:425: pruning discards the "queued frames for a departed peer", not
\* those of a peer that is connected.
PrunesOnlyDeparted ==
    [][Prune => \A p \in Peers : p \in connected => lanes'[p] = lanes[p]]_vars

\* scheduler.rs:164: a passthrough wake-up "drains every real frame the shaper has
\* accumulated [...] before going back to sleep".
DrainEmptiesLanes ==
    passthrough /\ pc = "idle" /\ ~permit /\ (\A t \in Threads : task[t].at = "rest")
        => \A p \in hit : lanes[p] = Empty
=============================================================================
