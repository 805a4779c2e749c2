----------------------------- MODULE WireShape -----------------------------
(***************************************************************************)
(* What an observer of the links may see of a shaped node.  There are no   *)
(* lanes and no frames here: a tick opens on a snapshot of the connected   *)
(* peers and hands exactly one frame to each of Budget(open) distinct      *)
(* peers of that snapshot.  Since nothing here can depend on what was      *)
(* submitted, a scheduler that implements this module shows submissions    *)
(* neither in how many frames a tick carries nor in whether it happens.    *)
(***************************************************************************)
EXTENDS Selection

CONSTANT Peers                 \* addresses

VARIABLES
    connected,   \* peers the overlay is connected to
    open,        \* the snapshot of the tick being emitted, {} between ticks
    hit          \* the peers that got their frame in this (or the last) tick

vars == <<connected, open, hit>>

Init ==
    /\ connected \in SUBSET Peers
    /\ open = {}
    /\ hit = {}

Connect(p) ==
    /\ p \notin connected
    /\ connected' = connected \cup {p}
    /\ UNCHANGED <<open, hit>>

Disconnect(p) ==
    /\ p \in connected
    /\ connected' = connected \ {p}
    /\ UNCHANGED <<open, hit>>

BeginTick ==
    /\ open = {}
    /\ connected # {}
    /\ open' = connected
    /\ hit' = {}
    /\ UNCHANGED connected

Emit(p) ==
    /\ p \in open \ hit
    /\ hit' = hit \cup {p}
    /\ open' = IF Cardinality(hit') = Budget(open) THEN {} ELSE open
    /\ UNCHANGED connected

Next ==
    \/ \E p \in Peers : Connect(p) \/ Disconnect(p) \/ Emit(p)
    \/ BeginTick

Spec ==
    /\ Init
    /\ [][Next]_vars
    /\ WF_vars(BeginTick)
    /\ WF_vars(\E p \in Peers : Emit(p))
=============================================================================
