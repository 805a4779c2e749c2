------------------------------- MODULE Cursor -------------------------------
(***************************************************************************)
(* Scheduler::cursor, a machine word that both peer selections read and    *)
(* advance by wrapping_add(1).  The sum with the random offset of a pick   *)
(* wraps too in a release build (a build with overflow checks panics       *)
(* there, after 2^64 picks).                                               *)
(***************************************************************************)
EXTENDS Naturals, Sequences

CONSTANT CursorModulus         \* values of the cursor, a usize (2^64 in the code)

ASSUME CursorAssumption == CursorModulus \in Nat \ {0}

Words == 0..CursorModulus - 1
Wrapped(n) == n % CursorModulus

AdvancedSaturating(cursor) ==                        \* defect: saturating_add
    IF cursor + 1 \in Words THEN cursor + 1 ELSE cursor
Advanced(cursor) == Wrapped(cursor + 1)

\* A position in a list of n peers, counted from 0.
PositionPastEnd(cursor, offset, n) ==                \* defect: reduced too early
    (cursor % n) + offset
Position(cursor, offset, n) == Wrapped(cursor + offset) % n

\* pick_round_robin: the peer whose turn it is; the offset is 0 unless the scope
\* asks for randomize, and any offset into the list then.
TurnStuck(list, cursor, offset) == list[1]           \* defect: cursor not used
Turn(list, cursor, offset) == list[Position(cursor, offset, Len(list)) + 1]
Offsets(list, randomize) == IF randomize THEN 0..Len(list) - 1 ELSE {0}
=============================================================================
