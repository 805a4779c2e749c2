--------------------------- MODULE MCCoverStream ---------------------------
(* A small instance of CoverStream for TLC; the .cfg file names the peers  *)
(* as model values.                                                        *)
EXTENDS CoverStream, TLC

PeerSymmetry == Permutations(Peers)
=============================================================================
