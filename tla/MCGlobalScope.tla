--------------------------- MODULE MCGlobalScope ---------------------------
(* Small instances of GlobalScope for TLC; the .cfg files name the peers   *)
(* and tasks as model values.                                              *)
EXTENDS GlobalScope, TLC

PeerSymmetry == Permutations(Peers)
=============================================================================
