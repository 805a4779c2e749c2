--------------------------- MODULE PeerSelection ---------------------------
(***************************************************************************)
(* How the scheduler chooses peers, with nothing of the lanes.  Under      *)
(* Global scope a tick calls pick_targets, here one pick per step; under   *)
(* PerConnection scope it calls pick_round_robin.  A node uses one of the  *)
(* two for its whole life; both read and advance the same cursor, and      *)
(* pick_targets is linked to the call before it by last_peers too.  The    *)
(* scheduler task is the only caller, so calls follow one another.  The    *)
(* peer list comes in any order, the iteration order of a hash map.        *)
(***************************************************************************)
EXTENDS Selection, Cursor, SequencesExt

CONSTANTS
    Peers,          \* addresses
    MaxSlots,       \* bound: slots asked for in a call of pick_targets
    Randomize,      \* PerConnection { randomize }
    MaxWait         \* bound: round-robin ticks counted while a peer waits

\* The cursor has the type of a list's length, usize, so no list is longer than it
\* can count.
ASSUME PeersAssumption == IsFiniteSet(Peers) /\ Cardinality(Peers) <= CursorModulus
ASSUME BoundsAssumption == MaxSlots \in Nat /\ MaxWait \in Nat

VARIABLES
    scope,       \* ShapingConfig::scope
    peers,       \* the list of the last call (Global); the overlay's connections
                 \* in the order it lists them (PerConnection)
    cursor,      \* Scheduler::cursor
    \* Global: pick_targets
    picking,     \* a call is in progress
    slots,       \* its argument `fanout`
    fresh, used, \* the pools: not yet picked, and not in or in last_peers
    chosen,      \* the peers picked so far
    lastPeers,   \* Scheduler::last_peers, which is only searched
    previous,    \* history: what the call before this one returned
    \* PerConnection: pick_round_robin
    served,      \* the peer the last tick served ({} before the first)
    wait         \* history: ticks each connected peer has waited since it was
                 \* last served or the connections last changed

globalVars == <<picking, slots, fresh, used, chosen, lastPeers, previous>>
turnVars   == <<served, wait>>
vars == <<scope, peers, cursor, globalVars, turnVars>>

Orders == SetToAllKPermutations(Peers)
connected == ToSet(peers)
NoWait == [p \in Peers |-> 0]

Init ==
    /\ scope \in {"Global", "PerConnection"}
    /\ peers \in IF scope = "Global" THEN {<< >>} ELSE Orders
    /\ cursor \in Words
    /\ picking = FALSE /\ slots = 0
    /\ fresh = << >> /\ used = << >> /\ chosen = << >>
    /\ lastPeers = {} /\ previous = {}
    /\ served = {} /\ wait = NoWait

-----------------------------------------------------------------------------
(* Global scope: pick_targets.                                             *)

\* The members of ps in S, in the order of ps.  The code keeps their positions;
\* here, where ps repeats nobody, they stand for themselves.
Nth(positions, n) ==
    CHOOSE i \in positions : Cardinality({j \in positions : j <= i}) = n
Pool(ps, S) ==
    LET positions == {i \in 1..Len(ps) : ps[i] \in S}
    IN  [n \in 1..Cardinality(positions) |-> ps[Nth(positions, n)]]

\* An empty list returns at once, before anything is written.
Call(ps, k) ==
    /\ scope = "Global"
    /\ ~picking
    /\ ps # << >>
    /\ picking' = TRUE
    /\ peers' = ps
    /\ slots' = k
    /\ fresh' = Pool(ps, Peers \ lastPeers)
    /\ used' = Pool(ps, lastPeers)
    /\ chosen' = << >>
    /\ previous' = ToSet(chosen)
    /\ UNCHANGED <<scope, cursor, lastPeers, turnVars>>

\* The pool a pick draws from.
UsedPoolFirst == used # << >>                        \* defect: pools swapped
FromUsed == fresh = << >>

PickOne ==
    /\ picking
    /\ Len(chosen) < Lesser(slots, Len(peers))
    /\ LET pool == IF FromUsed THEN used ELSE fresh
       IN  \E offset \in 0..Len(pool) - 1 :
             LET at == Position(cursor, offset, Len(pool)) + 1
             IN  /\ chosen' = Append(chosen, pool[at])
                 /\ fresh' = IF FromUsed THEN fresh ELSE RemoveAt(fresh, at)
                 /\ used' = IF FromUsed THEN RemoveAt(used, at) ELSE used
    /\ cursor' = Advanced(cursor)
    /\ UNCHANGED <<scope, peers, picking, slots, lastPeers, previous, turnVars>>

Returning ==
    /\ picking
    /\ Len(chosen) >= Lesser(slots, Len(peers))
    /\ picking' = FALSE
    /\ UNCHANGED <<scope, peers, cursor, slots, fresh, used, chosen, previous, turnVars>>

ReturnAccumulating ==                                \* defect: no clear()
    Returning /\ lastPeers' = lastPeers \cup ToSet(chosen)
Return ==
    Returning /\ lastPeers' = ToSet(chosen)

-----------------------------------------------------------------------------
(* PerConnection scope: pick_round_robin at each tick, over whatever list  *)
(* the tick finds.                                                         *)

Connect(p) ==
    /\ scope = "PerConnection"
    /\ p \notin connected
    /\ peers' \in SetToSeqs(connected \cup {p})
    /\ wait' = NoWait
    /\ UNCHANGED <<scope, cursor, globalVars, served>>

Disconnect(p) ==
    /\ scope = "PerConnection"
    /\ \E i \in 1..Len(peers) : peers[i] = p /\ peers' = RemoveAt(peers, i)
    /\ wait' = NoWait
    /\ UNCHANGED <<scope, cursor, globalVars, served>>

\* The peer-picking part of send_one.
Tick ==
    /\ scope = "PerConnection"
    /\ peers # << >>
    /\ \E offset \in Offsets(peers, Randomize) : served' = {Turn(peers, cursor, offset)}
    /\ cursor' = Advanced(cursor)
    /\ wait' = [p \in Peers |->
                  IF p \in served' \/ p \notin connected THEN 0
                  ELSE IF wait[p] < MaxWait THEN wait[p] + 1 ELSE wait[p]]
    /\ UNCHANGED <<scope, peers, globalVars>>

Next ==
    \/ \E ps \in Orders, k \in 0..MaxSlots : Call(ps, k)
    \/ PickOne
    \/ Return
    \/ \E p \in Peers : Connect(p) \/ Disconnect(p)
    \/ Tick

\* The timer of the scheduler's loop keeps firing.
Spec == Init /\ [][Next]_vars /\ WF_vars(Tick)

-----------------------------------------------------------------------------
\* Every pick finds a peer: the pools never run dry before the slots are filled,
\* and the position, wrapped cursor included, falls inside the pool.
PickDefined ==
    picking /\ Len(chosen) < Lesser(slots, Len(peers)) =>
        LET pool == IF FromUsed THEN used ELSE fresh
        IN  /\ pool # << >>
            /\ ToSet(chosen) \cup ToSet(fresh) \cup ToSet(used) = ToSet(peers)
            /\ \A offset \in 0..Len(pool) - 1 :
                  Position(cursor, offset, Len(pool)) < Len(pool)

\* A call returns one of the selections GlobalScope's dispatch may make: distinct
\* peers of the list, as many as asked for or as there are, and none of the
\* previous selection while a fresh peer was left over.
ReturnsAPick ==
    [][Return => /\ ToSet(chosen) \in Picks(ToSet(peers), slots, previous)
                 /\ IsInjective(chosen)]_vars

\* Two selections in a row reach as many of the peers as they have picks, so two
\* neighbours cannot bounce a frame between them while others go unserved.
TwoTicksSpread ==
    scope = "Global" /\ ~picking =>
        LET ps == ToSet(peers)
        IN  Cardinality((previous \cap ps) \cup ToSet(chosen)) >=
              Lesser(Cardinality(ps), Cardinality(previous \cap ps) + Len(chosen))

\* While the connections do not change, plain round robin makes no peer wait more
\* than a round; when the cursor wraps at a width that the number of peers does
\* not divide, the cut-off round adds its length.
WaitBound ==
    LET n == Len(peers)
    IN  scope = "PerConnection" /\ ~Randomize =>
            \A p \in connected : wait[p] <= n - 1 + (CursorModulus % n)

\* While the connections do not change, plain round robin gives each peer its slot
\* again and again.
SteadyRotation ==
    \A p \in Peers :
        ~Randomize /\ <>[](scope = "PerConnection" /\ p \in connected) /\ <>[][Tick]_vars
        => []<>(served = {p})
=============================================================================
