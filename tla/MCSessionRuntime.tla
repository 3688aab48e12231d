-------------------------- MODULE MCSessionRuntime --------------------------
(***************************************************************************)
(* Instance of SessionRuntime for TLC: two inferiors, one thread, one exit *)
(* code, and a stop history that fills up and is trimmed.                  *)
(***************************************************************************)
EXTENDS SessionRuntime

MCIds == 1..2
MCReasons == {"breakpoint-hit", "exited", "thread-group-exited", "core-file", "attached"}
MCStopEvents == 1..2
=============================================================================
