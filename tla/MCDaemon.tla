------------------------------ MODULE MCDaemon ------------------------------
(***************************************************************************)
(* Instances of Daemon for TLC; invocations are interchangeable.           *)
(***************************************************************************)
EXTENDS Daemon, TLC

MCSymmetry == Permutations(Clients)
=============================================================================
