# A verification of peashape

peashape is a traffic-shaping layer for pea2pea nodes: applications submit
frames into bounded priority lanes, and one background task puts a frame (or a
cover frame) on the links at times that do not depend on the submissions. This
directory models the crate in TLA+, from the submission of a frame to its reading
by a subscriber at another node, model-checks it with TLC on small instances and
proves with TLAPS every safety property and action property that the passing runs
check, for any number of peers, tasks, slots, connections and subscribers.

Paths below are relative to the repository (`src/shaper.rs` is the crate's
file); `PROJECT.json` maps every definition to its lines.

## The system

| component | state | operations | who calls it |
|---|---|---|---|
| Shaper, shared lanes (`src/shaper.rs`) | `high_lane`, `low_lane`, each behind a mutex of its own; `enqueue_notify` | `enqueue`/`enqueue_raw` → `push_global`, `next_frame` | any application task; the scheduler |
| Shaper, per-peer lanes (`src/shaper.rs`) | `peer_lanes` behind one mutex, `pc_peers` behind another | `push_peer`, `fan_out_per_connection`, `next_frame_for`, `refresh_pc_peers`, `prune_peer_lanes` | any application task; the scheduler |
| Scheduler (`src/scheduler.rs`) | `cursor`, `last_peers`, `wake` | `run_constant`, `run_poisson`, `run_passthrough`; `send_one`, `drain_passthrough`; `dispatch_global`, `pick_targets`, `pick_round_robin`, `send_one_to` | one task, spawned by the node |
| Node (`src/node.rs`) | `scheduler_handle`; the overlay's connections | `spawn`, `shutdown`, the submission calls, `connect`, `disconnect` | the application |
| Receiving side (`src/node.rs`, `src/shaper.rs`) | a lossy broadcast channel | `process_message` → `handle_incoming`, `subscribe` | the overlay's reader tasks |
| Codec and frames (`src/codec.rs`, `src/frame.rs`) | the decoder's buffer, one per connection | `encode`, `decode`; `build_frame`, `random_cover` | the overlay; the shaper |
| Cover generator (`src/config.rs`, the examples) | whatever a custom generator keeps: one stream counter in the examples | `cover`, `finalize_real` | the scheduler, through the shaper |
| pea2pea (a library) | connections and their outbound queues | `connected_addrs`, `unicast_fast` | the node |

They interact through shared memory only. A submission locks a lane, pushes,
unlocks and then signals; the scheduler reads the connection list, pops (one
critical section per lane in Global scope, one for both lanes of a peer in
PerConnection scope) and hands frames to the overlay without waiting.

What is hard about it:

- **Interleaving.** Between any two critical sections of the scheduler another
  task may submit, and a peer may come or go: between the two lane checks of
  `next_frame`, between the snapshot of the peers and the last send of a
  fan-out, between the snapshot and `prune_peer_lanes`, between reading the
  cached peers and pushing the copies of a broadcast.
- **Streams.** Bytes arrive in any pieces and frames of a wrong size among them;
  subscribers come and go and fall behind a channel that overwrites its oldest
  frame. A generator that numbers its frames is called in the scheduler's order and
  is not told which link a number will show on.
- **Time.** A ticker that skips the ticks it missed, a bounded random sleep, both
  raced by a shutdown; periods that make them panic.
- **Signals.** In passthrough the scheduler sleeps on a `Notify` that stores one
  permit; submissions coalesce, a wake-up without peers spends the permit.
- **Boundaries.** Eviction at both ends of the lanes, a cursor that wraps and is
  reduced modulo a list of changing length, fanout against the number of peers.
- **Failure.** A send fails when the peer left or its queue is full, in the
  middle of a fan-out, and is not retried.
- **Shutdown.** It may be called by several tasks, before or during the spawn,
  while the scheduler is anywhere in its loop.

What makes each part correct: the lanes lose frames by policy only and never
reorder or repeat them; what stays connected gets what was addressed to it, whatever
comes and goes beside it; the number of frames per tick depends on ticks and
connections alone (the crate's "cardinal rule"), and in PerConnection scope so does
the choice of the peer; the peer selection spreads; no wake-up is lost; rounds keep
to their intervals; shutdown ends the task, and nothing else does; a connection is refused at its first frame of another size and never
before; a subscriber gets what arrived, in order, or is told how much it missed; a
numbered stream has gaps where frames were lost or went to other links and nowhere
else.

## The modules

| module | models | lines of code it stands for |
|---|---|---|
| `Lanes` | the disciplines of the two lanes, as operators on sequences | `push_global`, the evicting push of a fan-out, `pop_front` |
| `Selection` | how many peers a Global tick serves, and which sets may be selected | `fanout.min(..).max(1)`; the contract of `pick_targets` |
| `Cursor` | the wrapping cursor and the picks made with it | `pick_round_robin`, the index arithmetic of `pick_targets` |
| `WireShape` | abstract: how many frames a tick carries, in Global scope | the promise stated above `dispatch_global` |
| `TurnShape` | abstract: which peer a tick serves, in PerConnection scope | the promise stated above `send_one` |
| `GlobalScope` | submitters, shared lanes, scheduler, fan-out | `enqueue_raw` … `send_one_to` in Global scope, timed and passthrough |
| `PeerSelection` | `pick_targets` pick by pick, call after call; who is served when by the round robin under churn | `scheduler.rs` 376–434, as `send_one` and `dispatch_global` call it |
| `PerConnectionScope` | submitters, fan-out, per-peer lanes, scheduler | the same as `GlobalScope` in PerConnection scope |
| `Lifecycle` | `spawn`, concurrent `shutdown`s, the loop of the task and what paces it | `node.rs` 110–123 and 271–291, the loops of `scheduler.rs` |
| `CoverStream` | a generator that numbers its frames, and the observers of the links | `finalize_real` and `cover` as `send_one` and `dispatch_global` call them; the generators and observers of two examples |
| `Receiver` | the frames other nodes hand to a connection, by size, `encode`, the stream, `decode`, `process_message`, the subscribers' channel | `codec.rs`, `frame.rs`, `handle_incoming`, `subscribe`; the receiving loops of the examples |
| `GlobalScopeProofs`, `PerConnectionProofs`, `PeerSelectionProofs`, `LifecycleProofs`, `ReceiverProofs`, `CoverStreamProofs` | theorems about the module of the name | |
| `LaneProofs`, `CommonProofs` | lemmas: about the lane operators; about remainders and lists without repetition | |
| `MCGlobalScope`, `MCPerConnection`, `MCCoverStream` | symmetry sets for TLC | |

`GlobalScope` and `PerConnectionScope` compose the shaper, the scheduler and the
overlay. They extend `Lanes`; the former extends `Selection`, the latter
`Cursor`. `GlobalScope` uses only what `Selection` promises of `pick_targets`
(operator `Picks`); `PeerSelection` checks that the algorithm keeps the promise
(property `ReturnsAPick`). `GlobalScope` implements `WireShape` and
`PerConnectionScope` implements `TurnShape`, by `INSTANCE ... WITH ...`. The two
abstract modules have no lanes and no frames, so nothing they allow can depend on
what was submitted. They differ in what they leave open: in Global scope a unicast
does decide who is served, and only the count is independent of it; in PerConnection
scope the connection list, the cursor and the random offset decide.

### Correspondence of state and steps

- `connected` (`links` where the order matters) is `connected_addrs()`. In
  `PerConnectionScope` a new connection may reorder the whole list, because the
  list is the iteration order of a hash map.
- `high`, `low`, `lanes[p]` are the deques, head first. A frame is its rank of
  submission, its lane and its target: bytes, padding and random identifiers are
  abstracted. Cover is one value.
- `notifying` (`task[t].at = "notify"`) are the calls between the push and
  `notify_one`; `permit` is what the `Notify` stores. A submission refused with
  `LaneFull` signals as well, as in the code.
- `pc` is the scheduler's place: in Global scope `idle → high → low → send`, in
  PerConnection scope `idle → refresh → prune → pop → send`. Steps of the code
  between two points where another task's effect can be seen are one action:
  `TakeHigh` is the pop, the computation of the slots and `pick_targets`, which
  touch nothing shared. Each send is a step, for the connections may change in
  between.
- `GlobalScope` and `PerConnectionScope` choose between a timed and a passthrough node
  in `Init` (`passthrough`, from `Modes`), `PeerSelection` between the two scopes, `Lifecycle`
  among the strategies and their periods, `CoverStream` among scopes, fanouts and
  kinds of application: each run covers all that its cfg admits.
- `Transmit` is `unicast_fast`: it fails when the peer is absent and, if
  `MayOverflow`, whenever the outbound queue happens to be full.
- The cursor counts modulo `CursorModulus`, 2^64 in the code; no list is longer than
  that, as a list is indexed by the cursor's own type. `Pool` lists the peers of one
  of the two pools of `pick_targets` in the order of the list.
- Random offsets are any offset (the runs use plain round robin, whose choice the
  properties can predict; the theorems hold for either); a tick of a timed strategy may happen at any
  moment the task sleeps.
- `Lifecycle` counts time from the making of the ticker, in units of which an
  interval is a few. `NextDue` is `MissedTickBehavior::Skip`: the next deadline of
  the ticker's grid still ahead, unless the tick was late by no more than tokio's
  tolerance of 5 ms (`Tolerance`): then it counts as punctual and the next deadline is
  a period after the missed one, even if that has passed as well. So an interval of
  5 ms or less, which `Node::new` accepts, may see several rounds, and
  `OnePerInterval` is about longer ones. A Poisson sleep may end at any moment: of its length only whether a
  `Duration` can hold it matters, so `-ln(u)` is a small integer between 1 and the
  `MaxDraw` that the clamp of u leaves, and `MaxFactor` stands for 40. A rate of 0,
  below 0 or NaN is a mean sleep beyond `MaxDuration`.
- In `Receiver` a stream is the sizes of the frames written to it (`sent`) and a
  number of bytes that have arrived and are not decoded (`arrived`); `decoded` and
  `processed` count frames from its start. `handed` counts the frames for which the
  other end's `unicast_fast` returned `Ok`; what its lanes evicted, its fan-out sent
  elsewhere, or a full outbound queue refused was lost before (`GlobalScope` and
  `PerConnectionScope` are about that). A frame its encoder then refuses would be
  handed over and never sent. A `Foreign` end is no peashape node and sends any sizes.
  `feed` is everything ever sent to the channel; what the channel still holds is its
  last `Capacity` entries (`Oldest`).
- In `CoverStream` the lanes are reduced to what the next frame is. The generator is
  `counter`; `held` is the frame dispatched in this tick, `heldTo` and `coverTo`
  whom it and the fresh cover have still to be sent to. A link starts anew for its
  observer with each connection; `near` in its record says that it never missed a
  whole turn of the counter between two frames, for then the observer cannot know.
- `submitted`, `delivered`, `hit`, `mark`, `wait`, `previous`, `late`, `lastTick`,
  `feed` as a whole, `stamped`, `ticks` and `seen` are histories: the code does not
  have them, and no guard reads them except for the bounds of the instances
  (`MaxFrames`, `MaxWait`, `MaxLate`, `MaxStamps`).

Definitions whose comment says "defect" are not part of the model. Each is a
plausible bug in the definition below it (a dropped guard, a push at the wrong
end, `notify_waiters` for `notify_one`), and stands ready to be put in its place
to see that a property notices.

## Model checking

Run `tlc -config X.cfg M`, with the module M that `PROJECT.json` names for X.

### Runs in which everything holds

| run | instance | what it shows |
|---|---|---|
| `GlobalLanes` | timed or passthrough, 2 peers, fanout 2, lanes of 2, 3 frames, overflowing queues | Order in the lanes and on the links, no duplicate, loss only by eviction of the oldest low frame from a full lane (`LaneOrder`, `HighInOrder`, `LowOnce`, `LossOnlyByPolicy`); what may overtake what (`LateHighOnly`). 3 frames fill a lane of 2 and push one out; with a fanout of 2 either send of a dispatch may fail. |
| `GlobalWire` | timed, 3 peers, fanout 2, 1 frame, no overflow | A dispatch serves exactly min(fanout, peers) distinct peers of its snapshot, a unicast target in it among them (`DispatchShape`). `GlobalScope` implements `WireShape`, fairness included (`WireSpec`). 3 peers and fanout 2 are the least with a choice beside the target and a peer left out; both are about one dispatch, and one real frame among any number of cover frames has every kind. A high broadcast arrives at a peer that stays, though another leaves in the middle of the fan-out (`SteadyBroadcastArrives`, while no more than 2 of the 3 are connected at once). |
| `GlobalTraffic` | timed or passthrough, 2 peers, fanout 2, 2 submitters, lanes of 2 and 1, 2 frames, no overflow | Timed: the high lane drains beside low frames and another submitter (`HighDrains`); a high unicast arrives if its target stays (`SteadyUnicastArrives`). Passthrough: no lost wake-up (`NothingStranded`, `SignalledDrains`). 2 frames are one and what comes before, behind or beside it; two submitters are needed for a signal that is on its way while another is stored. |
| `PeerSelection` | up to 4 peers in any order, 0..3 slots, a cursor of 4 values started anywhere, either scope | The pools never run dry, each index falls inside its pool (`PickDefined`), the result is one `Picks` allows (`ReturnsAPick`), two calls in a row reach as many peers as they can (`TwoTicksSpread`). Plain round robin: a peer waits at most a round, plus the cut-off round when the cursor wraps (`WaitBound`); while the connections rest, each peer is served for ever (`SteadyRotation`). A cursor of 4 wraps within a call, and 4 is not a multiple of a pool of 3. |
| `PerConnLanes` | plain round robin or passthrough; 2 peers, lanes of 2, 3 frames, a cursor of 3 values, overflowing queues | The questions of `GlobalLanes` per peer, with fan-outs, evictions, prunings and reconnections; a passthrough drain passes no peer over, so of a node that sleeps unsignalled each peer with something queued was served by the last one (`DrainServesEach`). `PerConnectionScope` implements `TurnShape` (`TurnSpec`): one peer per tick, and the same one whatever is queued; a frame for one peer and none for the other is all a scheduler that looked at the lanes would need. Round robin, because a random offset leaves the choice among 2 peers open (the proofs cover both); a cursor of 3 wraps out of step with them. |
| `PerConnWire` | timed, plain round robin, 2 peers, lanes of 2 and 1, 2 frames, no overflow | What is queued for a departed peer is forgotten, late copies included (`DepartedLanesClear`); each queued high frame arrives while the connections rest (`SteadyHighArrives`). |
| `Lifecycle` | each strategy; intervals of 0, 1 and 2 on a clock of 6 with a tolerance of 1, sleeps that fit, overflow, or fit only because they are bounded; 2 callers, lanes of 2, any number of submissions | After the flag is set one round of sending at most is completed (`OneLateRound`); if the interval is longer than the tolerance, no two rounds start in one interval and none in the first, however late the ticks (`OnePerInterval`); with sound timing nothing but a shutdown ends the task (`EndsOnlyWhenStopped`); every call returns and the task ends, also when shutdown overtakes spawn or the task has panicked (`ShutdownReturns`, `SchedulerStops`; in passthrough both need submitters that stop). 6 is three intervals: a round can miss one tick and more, and the next be counted. |
| `Receiver` | 2 connections, to an end of the same size, of smaller, of larger, or foreign; frame_size = max_frame_size, headers and identifiers of one byte, a channel of 1, 1 subscriber, 2 frames each | The feed has each connection's frames in order, none twice, none left out while somebody subscribes, and nothing from the first wrong size on (`FailStop`); an agreeing peer is never torn down (`AgreeingPeersStayUp`); what a subscriber got and what it was told it missed add up (`FeedAccounted`); a frame that an agreeing node's scheduler handed to the connection comes up (`EveryFramePasses`). Two frames are a wrong one before or behind a right one; 4 frames in all overrun a channel of 1 several times; a frame of 2 and its header arrive in 3 pieces. |
| `CoverStream` | 3 peers, either scope, every fanout, 3 numbers started anywhere, 8 frames numbered, connections that come and go, queues that may be full | Numbers rise on every link; the observers' arithmetic never counts more than the lost and diverted frames, and counts exactly those while no link misses a whole turn of the counter (`GapsAreLosses`); submissions leave no trace in the numbering (`NumbersMatchTicks`: not so with Global unicasts); the set-ups of the two examples show no gaps at all (`CleanStreams`). 3 peers and fanout 2 give a unicast, a cover beside it and a link left out; 8 frames take the counter of 3 round twice, so links that miss a turn occur as well. |

Peers, tasks and frames play symmetric roles, and each property relates at most
two peers, two frames or two tasks; the instances have that many and, where a
choice matters, one more. Symmetry of the peers is used in the runs of safety
properties only.

`CHECK_DEADLOCK FALSE` appears in three cfgs. In `Lifecycle` a node that was shut
down has nothing left to do. In `Receiver` and `CoverStream` the connections are
closed, or the submissions and the numbers used up to the bound, and everything has
been delivered.

### Runs that disagree with a comment

Each states what the repository says, and TLC finds a behaviour of the code
against it.

| run | what is said | what happens |
|---|---|---|
| `PassthroughCover` | passthrough never generates cover (`src/scheduler.rs` 163, 188) | A unicast takes fanout − 1 cover frames along; one to a departed peer is replaced by cover. |
| `PruneRace` | pruning discards the frames of departed peers (`src/shaper.rs` 425) | Also those of a peer that connected, and was sent to, after the tick's snapshot. |
| `DrainLeavesFrames` | a wake-up drains every frame before going back to sleep (`src/scheduler.rs` 164) | A wake-up takes one frame per peer, and signals coalesce: of two frames queued for one peer before the wake-up, one stays until the next submission. |

### Other places where comments and code differ

Met while modelling; the properties above are stated so that they say what the code
does instead.

- `src/shaper.rs` 386: the low lane is consulted only when the high lane is empty.
  The two checks are separate critical sections; a high frame pushed between them is
  overtaken by one low frame. `LateHighOnly` says that this is the only way.
- `src/scheduler.rs` 180: a drain is bounded by the lanes' capacity. Submitters may
  refill the lanes while it runs, and the loop looks at no flag: under `Global`
  passthrough a shutdown waits as long as they do. `ShutdownReturns` carries the
  premise `SubmittersRelent` for that reason.
- `src/config.rs` 305: passthrough frames are sent as soon as they are enqueued.
  Without a peer the wake-up is spent; the frames wait for the next submission, not
  for the next connection. `NothingStranded` and `SignalledDrains` are about drains
  that saw a peer.
- `src/scheduler.rs` 47 and 385: `last_peers` are the peers of the previous tick. The
  target of a unicast is not among them; `Dispatch` stores the others only.
- `src/config.rs` 354: a broadcast goes to every currently connected peer's lane. It
  goes to the peers of the last tick, and to nobody before the first one, with `Ok`.
- `src/node.rs` 145, `src/shaper.rs` 37: a PerConnection broadcast goes to one peer.
  It goes to all of them, as `src/config.rs` says.
- `src/config.rs` 350: a unicast waits at most peers × interval. Not with `randomize`,
  whose offset is drawn anew each tick; `WaitBound` is about plain round robin.
- `src/scheduler.rs` 248: no peer is ever skipped. A neighbour that connects and
  disconnects in step with the cursor keeps a connected peer from being served;
  `SteadyRotation` asks the connections to rest.
- `src/node.rs` 276: shutdown waits for the shaping task. Of two concurrent calls only
  the one that takes the handle does (`Join`); the other may return while the task still runs (`TakeHandle`).
- `src/config.rs` 305: passthrough frames go out "at the byte size the application
  supplied". `enqueue_raw` refuses, and `Codec::encode` would, any size but
  `frame_size`; `Shaped` and `Encodes` say so.
- `src/config.rs` 61, the examples: coherent sequencing is a PerConnection concept, one
  stream per peer. There is one generator for the node and it is not told the peer:
  with two connections each link shows every other number. `CleanStreams` asks for
  one connection at a time, as the example has.
- `src/config.rs` 44: `finalize_real` is called just before a frame is written. A unicast
  in Global scope is finalized before its target is looked up, and again nothing undoes
  it when the send fails: the number is spent (`GapsAreLosses`). The cover beside it
  takes numbers too, so in that scope the numbers per tick do depend on the
  submissions (`NumbersMatchTicks` leaves it out).
- `src/codec.rs` 28: a length other than `frame_size` causes the connection to be torn
  down. One that `max_frame_size` allows does so only when that many bytes have
  arrived: `Rejects` distinguishes the two.
- `src/scheduler.rs` 129: the bound keeps `from_secs_f64` from overflowing. It is a
  multiple of 1 / rate, so a tiny rate overflows still, and a rate of 0 makes it
  infinite; `Node::new` checks neither the rate nor that an interval is not 0. The
  task panics, silently until `shutdown` joins it. `SoundTiming` is what would have to
  be checked.
- `src/error.rs` 16: the largest payload is `frame_size` bytes. It is `frame_size` −
  `ID_SIZE` (`Fits`).
- `src/error.rs` 36: `NotConnected` is returned by no submission; a frame for an absent
  peer is accepted, and dropped or pruned later.

### Fairness

`WF(Scheduler)`: the runtime keeps polling the task, its timer fires, and nothing
the task does between two sleeps waits for anybody. Weak fairness is enough since
only the scheduler itself disables its next step. `WF` on the second half of a
submission (`NotifyOne`, `FanOut`) and of a shutdown: those calls have no reason to
stop half-way. In `Receiver`, `WF` on what the network and the runtime do with bytes
that were written to a connection that is up (`Arrive`, `Decode`, `Process`), and on a
subscriber's next read: a subscriber that stops reading is not promised anything. In
`PeerSelection`, `WF(Tick)`: the scheduler goes on. `CoverStream` has safety properties
only and no fairness. Nobody is obliged to submit, connect, disconnect, subscribe or
call shutdown, and `Lifecycle`'s clock need not move: what it promises does not wait
for the next tick.

## Proofs

`tlapm M.tla` checks those of module M, in a few minutes at most. They use only the
named assumptions of the modules, which say what the nodes' constructors assert or
the types allow, and no more: the capacities are positive (`CapsAssumption`), the
fanout is a natural number (`FanoutAssumption`), the cursor has at least one value
(`CursorAssumption`); the set of peers is finite and has no member that stands for
broadcast, or for the target of cover (`PeersAssumption` of `GlobalScope`, of
`PerConnectionScope` and, finiteness alone, of `CoverStream`), and in `PeerSelection`
is no larger than what the cursor counts; the modes are Booleans
(`ModesAssumption`); the times of `Lifecycle` are natural numbers (`TimingAssumption`)
and the sizes of `Receiver` fit each other (`SizesAssumption`); there are at
least two stream numbers (`NumbersAssumption`). The bounds `MaxFrames`, `MaxSlots`,
`MaxWait`, `MaxSent`, `MaxStamps`, `Cap` and `Horizon` are arbitrary there, so they
bound nothing.

A proof about steps first says what a step does in the terms of the property
(`LaneMove`, `TakeEffect`, `SendEffect`, `DispatchServes`, `PruneEffect`) and then
argues from that alone.

### The lanes

`LaneProofs` has what the two scopes share: for each operator of `Lanes` the length of
its result and where each element comes from (`...Shape`), which frames are in it and
which are gone (`...Frames`), and that it keeps order (`...Order`). `PairOrdered(h, l, n)`
puts this together for the two lanes of a node, or of a peer, after n submissions:
within capacity, the high lane ascending, the low lane descending, each with frames of
its own kind, no id above n. `PairPop`, `PairPushHigh` and `PairPushLow` keep it.

### Global scope

For every set of tasks, every fanout and capacity, any number of frames, timed or
passthrough (`WireRefined`: timed).

| theorem | states | inductive invariant |
|---|---|---|
| `Typing` | `[]TypeOK` | itself |
| `LanesOrdered` | `[]LaneOrder` | `LaneInv`, which is `PairOrdered` |
| `NothingDropped` | `LossOnlyByPolicy`, a property of steps | `LaneInv` |
| `Ordered` | `[]HighInOrder` | `OrderInv`, with `LaneInv` |
| `DeliveredOnce` | `[]LowOnce` | `OrderInv`, with `LaneInv` |
| `Scanned` | `LateHighOnly`, a property of steps | `ScanInv` |
| `NoLostWakeUp` | `[]NothingStranded` | `SignalInv` |
| `Shaped` | `[]DispatchShape` | `ShapeInv` |
| `PickExists` | a dispatch always has a selection to choose | `TypeOK` |
| `WireRefined` | every step is a step of `WireShape` or a stutter | `ShapeInv` |

Each invariant says of the scheduler's intermediate places what the property says
of the states a reader looks at:

- `HighInOrder` and `LowOnce` relate delivered frames to queued ones, and while a
  frame is in the scheduler's hands it is neither. `OrderInv` adds that this frame is
  newer than what its remaining receivers got and older than what is left in the high
  lane (`HandOrder`), that every id in use is an old one (`KnownIds`), so that a new
  submission is newer than all of them, and that no id is in two places, of the lanes,
  the hand and each peer's history (`OnePlace`). A low frame has no order to argue
  with, hence the last.
- `LateHighOnly` speaks of the step that takes a low frame; `ScanInv` says that from
  the check of the high lane on, the lane holds only frames submitted later.
- `NothingStranded` speaks of the sleeping scheduler. `SignalInv` says already of
  the place between the two checks: unless a signal is stored or on its way, the
  high lane, found empty, still is.
- `DispatchShape` needs that a dispatch is non-empty and has a snapshot with peers,
  and that a timed scheduler serves nobody before it has chosen a frame. The
  arithmetic of the slots is lemma `DispatchServes`: the target and the chosen
  others are disjoint and together make up the budget.
- `WireRefined` follows step by step; that the last send of a tick, and no other,
  closes it comes from the cardinality in `DispatchShape` (lemma `ShapeSend`).

### PerConnection scope

For any tasks, capacities and modulus of the cursor, round robin or randomized, timed
or passthrough, queues that overflow or not.

| theorem | states | inductive invariant |
|---|---|---|
| `Typing` | `[]TypeOK` | `TypeOK` with `LaneInv` |
| `PeerLanesOrdered` | `[]PeerLaneOrder` | `LaneInv`: `PairOrdered` for each peer, and each lane addressed to its peer |
| `LostByPolicy` | `PeerLossOnlyByPolicy`, a property of steps | `LaneInv` |
| `PeerOrdered` | `[]PeerHighInOrder` | `OrderInv`, with `LaneInv` |
| `DrainServed` | `[]DrainServesEach` | `DrainInv` |
| `TurnRefined` | `TurnSpec`: every step is a step of `TurnShape` or a stutter | `TickInv` |

- The type and the order of the lanes are inductive together only: an evicting push
  leaves a lane because the lane was within its capacity.
- `EachMoves` says that whatever the step, each peer's lanes see one of four moves:
  nothing, a push of the frame just accepted, a pop into the scheduler's hands, or a
  pruning. `LaneInv` and the property of loss follow from the moves.
- `OrderInv`: as in Global scope the frame in hand comes between what its peer got and
  what waits for it (`Between`), and no delivered id lies ahead of the count of
  submissions (`KnownIds`), so a copy pushed late, after a pruning or a reconnection,
  is still newer.
- `DrainServesEach` speaks of the sleeping scheduler. `DrainInv` says of every place of
  the drain that a peer already passed over has nothing queued or was sent a frame,
  unless a signal is stored or on its way: a submission behind the drain's back leaves
  one until the next drain starts.
- `TickInv`: a timed tick has one peer to serve at most, and has served nobody before.
  `TurnRefined` follows from it step by step; that the peer comes from the list, the
  cursor and an offset is `PruneEffect`.

### Peer selection

For any finite set of peers, any list of them, any number of slots, any modulus of the
cursor and any starting value.

| theorem | states | inductive invariant |
|---|---|---|
| `PicksDefined` | `[]PickDefined` | `SplitInv` |
| `PicksReturned` | `ReturnsAPick`, a property of steps: `pick_targets` implements what `GlobalScope` assumes of it | `SplitInv` |
| `SelectionsSpread` | `[]TwoTicksSpread` | `SpreadInv`, with `SplitInv` |
| `WaitsBounded` | `[]WaitBound` | `WaitInv` |

- `SplitInv`: during a call the pools and what was chosen split the list without
  repetition, and a used peer is chosen only once no fresh one is left. That the
  pools of a new call are such a split is `Enumeration` and its successors: the n-th
  position of a set of positions.
- `SpreadInv` keeps after the call what `TwoTicksSpread` counts: it chose fresh peers
  only, or all of them.
- `WaitInv`: what a peer has waited and what the cursor still has to go to it (`Until`)
  add up to a round at most, or the cursor has wrapped and is on its first pass, and
  they add up to a round and the one the wrap cut off (`Patient`). `TurnPatient` is the
  arithmetic of one tick.

### Starting, stopping and pacing

| theorem | states | inductive invariant |
|---|---|---|
| `StopsWithinARound` | `[]OneLateRound` | `LateInv` |
| `NoSpontaneousEnd` | `[]EndsOnlyWhenStopped` | `EndInv` |
| `Paced` | `OnePerInterval`, a property of steps | `TickInv` |

- A late round was under way when the flag was set: `LateInv` says that after one has
  ended the task is at no place from which a second ends without a check of the flag.
- `EndInv`: a stored wake permit implies the flag, since each caller sets the flag
  before it signals. That a bounded draw fits when the bound does is `SleepBound`.
- `TickInv`: if the period exceeds the tolerance, the deadline is the end of the
  interval of the last tick. `DueOnGrid` shows that both branches of `NextDue` keep it
  so (a punctual tick is in the interval that its deadline opens), and
  `TickInNewInterval` that a tick at or after such a deadline is in a later interval.

### Receiving

| theorem | states | inductive invariant |
|---|---|---|
| `AgreeingUp` | `[]AgreeingPeersStayUp` | `StreamInv` |
| `FeedInOrder` | `[]FailStop` | `FeedInv`, with `StreamInv` |
| `Accounted` | `[]FeedAccounted` | `AccountInv`, with `FeedInv` |

- `StreamInv`: what an agreeing end wrote, and what was decoded from any end, has the
  right size.
- `FailStop` compares entries of the feed. `FeedInv` compares them with what was
  processed: no rank is ahead of it, and from an entry that a subscriber was there for,
  every rank up to the last processed one is in the feed.
- `AccountInv` adds that a subscriber's next position lies beyond its start. That what
  it skips has been overwritten is `Overwritten`; that the count is right is the
  cardinality of a union of disjoint sets.

### Numbered streams

| theorem | states | inductive invariant |
|---|---|---|
| `OneNumberPerTick` | `[]NumbersMatchTicks` | `TickInv` |
| `GapsCountLosses` | `[]GapsAreLosses` | `StreamInv` |
| `ExamplesClean` | `[]CleanStreams` | `StreamInv` |

- `TickInv`: without Global unicasts no cover is sent beside a frame.
- `StreamInv` ties numbers to ranks: there is a b, never changing, such that the frame
  of rank n bears the number b + n modulo `Modulus` (`Numbered`), and a peer that is
  still to be sent the frame in hand has seen older ones only (`Place`). The rest is
  arithmetic of remainders (`ModAdd`, `ModSub`, `ArrivalKeepsRight`): what an observer
  counts between two frames is the ranks between them modulo `Modulus`, so never more
  than these, and just these if they are fewer (`near`). For a clean
  set-up `Place` says that a connected peer is behind by that one frame at most;
  `CleanTick` is why no peer is left out of a tick.

### Only model-checked

Liveness, and the fairness part of `WireSpec`: the prover cannot reason about when an
action is enabled, which fairness is about. These are `HighDrains`,
`SteadyUnicastArrives`, `SteadyBroadcastArrives`, `SignalledDrains`, `SteadyRotation`,
`DepartedLanesClear`, `SteadyHighArrives`, `ShutdownReturns`, `SchedulerStops` and
`EveryFramePasses`.
What is safety in them is proved: a wait is bounded in ticks (`WaitsBounded`), no
drain passes over a peer (`DrainServed`), a dispatch is never without a choice
(`PickExists`). The invariants above were checked by TLC on instances before they were
proved; the runs do not repeat that.

## Not modelled

- Rates: outside `Lifecycle` a tick may happen at any moment the task sleeps, so what
  is shown there holds for every timing; how many ticks a second has is not shown. The
  distribution of the Poisson draw is not either: a random choice is any choice.
- Bytes: contents of payloads, padding, identifiers and cover; the examples' packet
  layouts, timestamps, toy cipher and output. Sizes and stream numbers are kept.
- pea2pea: a connection is there or not, an accepted frame is delivered, a decoder's
  error ends its connection. Frames lost with a broken connection are beyond what
  the node can know. How the overlay accepts, limits and names connections, and how
  `start_listening` may fail half-way, is not modelled.
- Calls of `spawn` on a node that was spawned already.
- Configuration (`src/config.rs`) and errors (`src/error.rs`) as components: they are
  data. `Node::new`'s and `Shaper::new`'s checks are assumptions of the modules.
- Generators with state of another kind than one counter: they get the same calls in
  the same order, which is what `CoverStream` is about.

## Plan

Done: `Lanes`, `GlobalScope` with `WireShape`, `PeerSelection` in both scopes,
`PerConnectionScope` with `TurnShape`, `Lifecycle` with its clock, `Receiver` and
`CoverStream`; proofs of all their safety properties, and that the steps of each
scope implement its abstract module.

To do, in this order:

1. Proofs: that `pick_targets` in place of `Picks` leaves `GlobalScope`'s properties
   as they are (a refinement of the selection inside a dispatch, instead of the
   property of its result); what the premises of the liveness properties need of
   safety (the lane a steady unicast waits in only gets shorter ahead of it).
2. A composition of two nodes (`GlobalScope` sending, `Receiver` receiving and
   submitting again with `relay_shaped`): whether a relay keeps the wire's shape.
