-------------------------- MODULE MCPerConnection --------------------------
(* Small instances of PerConnectionScope for TLC; the .cfg files name the  *)
(* peers and tasks as model values.                                        *)
EXTENDS PerConnectionScope, TLC

PeerSymmetry == Permutations(Peers)
=============================================================================
