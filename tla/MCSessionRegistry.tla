-------------------------- MODULE MCSessionRegistry -------------------------
(***************************************************************************)
(* Instances of SessionRegistry for TLC; threads are interchangeable.      *)
(***************************************************************************)
EXTENDS SessionRegistry, TLC

MCOperations == AllOperations
MCNoList == AllOperations \ {"list"}
MCFaults == {"dies", "hangs"}
MCSymmetry == Permutations(Threads)
=============================================================================
