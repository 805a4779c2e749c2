----------------------------- MODULE TurnShape -----------------------------
(***************************************************************************)
(* What an observer of the links may see of a timed node that serves one   *)
(* peer per tick.  There are no lanes and no frames here: a tick opens on  *)
(* the list of connections of the moment, the cursor (and an offset, in    *)
(* the randomized scope) selects one of that list, and this peer gets the  *)
(* tick's only frame.  A scheduler that implements this module shows       *)
(* submissions neither in how many frames a tick carries nor in who gets   *)
(* them.                                                                   *)
(***************************************************************************)
EXTENDS Cursor

CONSTANTS
    Peers,       \* addresses
    Randomize    \* PerConnection { randomize }

VARIABLES
    links,       \* the overlay's list of connections
    list,        \* the list the open tick works on, << >> between ticks
    turn,        \* the peer selected in this tick, as a list of at most one
    cursor,      \* the round-robin cursor
    hit          \* the peer served in this (or the last) tick

vars == <<links, list, turn, cursor, hit>>

Init ==
    /\ links \in Seq(Peers)
    /\ list = << >> /\ turn = << >>
    /\ cursor = 0 /\ hit = {}

\* Connections come and go, and their list is in whatever order.
Churn ==
    /\ links' \in Seq(Peers)
    /\ UNCHANGED <<list, turn, cursor, hit>>

BeginTick ==
    /\ list = << >> /\ links # << >>
    /\ list' = links
    /\ hit' = {}
    /\ UNCHANGED <<links, turn, cursor>>

Select ==
    /\ list # << >> /\ turn = << >>
    /\ \E offset \in Offsets(list, Randomize) : turn' = <<Turn(list, cursor, offset)>>
    /\ cursor' = Advanced(cursor)
    /\ UNCHANGED <<links, list, hit>>

Emit ==
    /\ turn # << >>
    /\ hit' = {Head(turn)}
    /\ list' = << >> /\ turn' = << >>
    /\ UNCHANGED <<links, cursor>>

Tick == BeginTick \/ Select \/ Emit

Next == Churn \/ Tick

\* When the ticks come is left open.
Spec == Init /\ [][Next]_vars
=============================================================================
