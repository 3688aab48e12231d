---------------------------- MODULE MCBreakpoints ----------------------------
(***************************************************************************)
(* Instances of Breakpoints for TLC.                                       *)
(***************************************************************************)
EXTENDS Breakpoints
=============================================================================
