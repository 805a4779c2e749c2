----------------------------- MODULE Selection -----------------------------
(***************************************************************************)
(* How many peers a Global tick serves and which sets of peers it may      *)
(* select: what the rest of the scheduler relies on pick_targets for.      *)
(* Module PeerSelection has the algorithm.                                 *)
(***************************************************************************)
EXTENDS Naturals, FiniteSets

CONSTANT Fanout                \* ShapeConfig::fanout

ASSUME FanoutAssumption == Fanout \in Nat

Lesser(a, b) == IF a < b THEN a ELSE b

\* fanout.min(peers.len()).max(1)
Budget(ps) ==
    LET k == Lesser(Fanout, Cardinality(ps)) IN IF k = 0 THEN 1 ELSE k

\* The sets of k peers of ps that prefer fresh peers: a peer of the previous
\* selection `last` is in one only when every fresh peer is.
Picks(ps, k, last) ==
    LET fresh == ps \ last
    IN  {S \in SUBSET ps : /\ Cardinality(S) = Lesser(k, Cardinality(ps))
                           /\ S \subseteq fresh \/ fresh \subseteq S}
=============================================================================
