----------------------------- MODULE CoverStream ----------------------------
(***************************************************************************)
(* A cover generator that numbers its frames (RtpSequencer and TsMuxer of  *)
(* the examples): cover() and finalize_real() stamp from one counter, once *)
(* for each call, and the scheduler makes those calls in its own order,    *)
(* with no word of the peer a frame is for.  What each link then shows, to *)
(* an observer who counts missing numbers the way the examples do.         *)
(*                                                                         *)
(* The lanes are reduced to what the next frame is; a timed node.  The     *)
(* scheduler task is the only caller of the generator.                     *)
(***************************************************************************)
EXTENDS FiniteSetsExt, Integers

CONSTANTS
    Peers,          \* addresses
    Modulus,        \* how many numbers there are (2^16 in RTP, 2^4 in MPEG-TS)
    MaxStamps       \* bound: frames numbered

ASSUME PeersAssumption == IsFiniteSet(Peers)
ASSUME NumbersAssumption == Modulus \in Nat \ {0, 1}

VARIABLES
    scope,       \* ShapingConfig::scope
    fanout,      \* ShapingConfig::fanout
    unicasts,    \* the application sends unicasts under Global scope
    lone,        \* the application holds one connection at a time
    overflows,   \* outbound queues may be full
    connected,   \* the overlay's connections
    counter,     \* the generator's next number
    held,        \* the frame in the scheduler's hands
    heldTo,      \* peers it has still to be sent to
    coverTo,     \* peers that have still to be sent a fresh cover frame each
    stamped,     \* history: frames numbered so far
    ticks,       \* history: ticks that found a peer
    seen         \* what the observer of each link has gathered since it came up

config == <<scope, fanout, unicasts, lone, overflows>>
vars == <<config, connected, counter, held, heldTo, coverTo, stamped, ticks, seen>>

Numbers == 0..Modulus - 1
Wrapped(n) == n % Modulus
None == -1
Nothing == [first |-> 0, at |-> 0, last |-> None, frames |-> 0, gaps |-> 0, near |-> TRUE]

Init ==
    /\ scope \in {"Global", "PerConnection"}
    /\ fanout \in 1..Cardinality(Peers)
    /\ unicasts \in BOOLEAN /\ lone \in BOOLEAN /\ overflows \in BOOLEAN
    /\ connected = {}
    /\ counter \in Numbers
    /\ held = [number |-> 0, at |-> 0] /\ heldTo = {} /\ coverTo = {}
    /\ stamped = 0 /\ ticks = 0
    /\ seen = [p \in Peers |-> Nothing]

Connect(p) ==
    /\ p \notin connected
    /\ lone => connected = {}
    /\ connected' = connected \cup {p}
    /\ seen' = [seen EXCEPT ![p] = Nothing]
    /\ UNCHANGED <<config, counter, held, heldTo, coverTo, stamped, ticks>>

Disconnect(p) ==
    /\ p \in connected
    /\ connected' = connected \ {p}
    /\ UNCHANGED <<config, counter, held, heldTo, coverTo, stamped, ticks, seen>>

-----------------------------------------------------------------------------
(* The generator.                                                          *)

\* stamp: the number after n others, once for each frame; `at` is its rank.
Stamp(n) == [number |-> Wrapped(counter + n), at |-> stamped + n + 1]
Spend(n) == counter' = Wrapped(counter + n) /\ stamped' = stamped + n

\* The number a real frame is sent with; it was built with a zeroed header.
FinalizeDefault(f) == [f EXCEPT !.number = 0]        \* defect: hook not implemented
Finalize(f) == f

-----------------------------------------------------------------------------
(* The observers.                                                          *)

\* Numbers missing between two that follow each other on a link.  Of a link, `first`
\* and `at` are the ranks of its first and last frame, and `near` says that no two
\* frames that followed each other were a whole turn of the counter apart.
Missing(prev, number) ==
    LET step == (number - prev) % Modulus IN IF step = 0 THEN 0 ELSE step - 1

Arrival(p, f) ==
    LET o == seen[p]
    IN  seen' = [seen EXCEPT ![p] =
           [first  |-> IF o.frames = 0 THEN f.at ELSE o.first,
            near   |-> o.near /\ (o.frames = 0 \/ f.at - o.at < Modulus),
            at     |-> f.at,
            last   |-> f.number,
            frames |-> o.frames + 1,
            gaps   |-> IF o.last = None THEN 0 ELSE o.gaps + Missing(o.last, f.number)]]

\* send_one_to: fails for a peer that has left or whose outbound queue is full.
Transmit(p, f) ==
    \/ p \in connected /\ Arrival(p, f)
    \/ (p \notin connected \/ overflows) /\ UNCHANGED seen

-----------------------------------------------------------------------------
(* The scheduler: one tick, then its sends one by one.                     *)

Idle == heldTo = {} /\ coverTo = {}

\* Numbers spent before the frame the tick sends: its cover is only generated when
\* the lanes are empty.
SpareIfReal(real) == IF real THEN 1 ELSE 0           \* defect: cover made eagerly
Spare(real) == 0

\* fanout.min(peers.len()).max(1), and the choices of pick_targets.
Slots == Max({1, Min({fanout, Cardinality(connected)})})
Picks(ps, k) == kSubset(Min({k, Cardinality(ps)}), ps)

\* Whom a frame goes to, and who gets cover in the same tick.
ToOne == scope = "PerConnection" /\ heldTo' \in Picks(connected, 1) /\ coverTo' = {}
ToMany == scope = "Global" /\ heldTo' \in Picks(connected, Slots) /\ coverTo' = {}
ToTarget(p) ==
    /\ scope = "Global" /\ unicasts
    /\ heldTo' = {p} \cap connected
    /\ coverTo' \in IF p \in connected THEN Picks(connected \ {p}, Slots - 1)
                   ELSE Picks(connected, Slots)

\* send_one and dispatch_global up to the first send.  A frame is stamped before its
\* target is looked up: one for a peer that has left takes its number along.
Tick ==
    /\ Idle
    /\ connected # {}
    /\ stamped + Cardinality(connected) + 1 < MaxStamps
    /\ \E real \in BOOLEAN :
         /\ held' = IF real THEN Finalize(Stamp(Spare(real))) ELSE Stamp(Spare(real))
         /\ ToOne \/ ToMany \/ (real /\ \E p \in Peers : ToTarget(p))
         /\ Spend(Spare(real) + 1)
    /\ ticks' = ticks + 1
    /\ UNCHANGED <<config, connected, seen>>

\* The frame itself, to each of its recipients; then a fresh cover frame for each of
\* the others.
SendHeldFresh(p) ==                                  \* defect: cover() for each copy
    /\ p \in heldTo
    /\ heldTo' = heldTo \ {p}
    /\ held' = Stamp(0) /\ Spend(1)
    /\ Transmit(p, held)
    /\ UNCHANGED <<config, connected, coverTo, ticks>>
SendHeld(p) ==
    /\ p \in heldTo
    /\ heldTo' = heldTo \ {p}
    /\ Transmit(p, held)
    /\ UNCHANGED <<config, connected, counter, held, coverTo, stamped, ticks>>

SendCover(p) ==
    /\ heldTo = {} /\ p \in coverTo
    /\ coverTo' = coverTo \ {p}
    /\ Spend(1)
    /\ Transmit(p, Stamp(0))
    /\ UNCHANGED <<config, connected, held, heldTo, ticks>>

Next ==
    \/ Tick
    \/ \E p \in Peers : SendHeld(p) \/ SendCover(p) \/ Connect(p) \/ Disconnect(p)

Spec == Init /\ [][Next]_vars

-----------------------------------------------------------------------------
\* On every link the numbers rise in the order the generator gave them out, none
\* twice.  The observers' arithmetic, however often the counter wraps, never counts
\* more than went to other links or were lost, and exactly those as long as the link
\* did not miss a whole turn at once: real frames stamped before the cover of their
\* tick, frames dropped for want of their target and failed sends included.
GapsAreLosses ==
    \A p \in Peers : seen[p].frames > 0 =>
        LET lost == seen[p].at - seen[p].first + 1 - seen[p].frames
        IN  /\ 0 <= seen[p].gaps /\ seen[p].gaps <= lost
            /\ seen[p].near => seen[p].gaps = lost

\* Submissions leave no trace in the numbering, one number for each tick, as long as
\* no unicast is dispatched under Global scope.
NumbersMatchTicks == Idle /\ ~(scope = "Global" /\ unicasts) => stamped = ticks

\* The two set-ups of the examples show gap-free streams, turn after turn of the
\* counter, whatever is submitted and whoever comes and goes: PerConnection scope with one connection at a time, and
\* Global scope with broadcasts only and fanout for every peer.
CleanStreams ==
    ~overflows /\ (\/ scope = "PerConnection" /\ lone
                   \/ scope = "Global" /\ ~unicasts /\ fanout >= Cardinality(Peers))
    => \A p \in Peers : seen[p].gaps = 0
=============================================================================
