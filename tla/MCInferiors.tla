----------------------------- MODULE MCInferiors -----------------------------
(***************************************************************************)
(* Instance of Inferiors for TLC: three inferiors, so that after the       *)
(* removal of the current one GDB and the runtime may choose differently,  *)
(* and three clients, each with the tools whose commands interfere.        *)
(***************************************************************************)
EXTENDS Inferiors

MCUsages == {{"add", "remove", "select"}, {"remove", "follow", "list"},
             {"add", "follow", "detach"}}
=============================================================================
