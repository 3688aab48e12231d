----------------------------- MODULE MCExecution ----------------------------
(***************************************************************************)
(* Instances of Execution for TLC.                                         *)
(***************************************************************************)
EXTENDS Execution

MCIds == {1}
MCStopEvents == 1..MaxCommands
MCReasons == {"breakpoint-hit", "signal-received", "exited", "thread-group-exited"}
MCUsage(kinds, departs, slow, exits, commands) ==
    [kinds |-> kinds, departs |-> departs, slow |-> slow, exits |-> exits,
     commands |-> commands]

\* Every operation and departure; the documented use of a program that exits;
\* and of one that is interrupted and does not exit.
MCUsages ==
    { MCUsage(AllKinds \ {"step"}, Departures, TRUE, TRUE, 3),
      MCUsage(AllKinds \ {"interrupt"}, {}, FALSE, TRUE, 5),
      MCUsage(AllKinds, {}, FALSE, FALSE, 5) }
=============================================================================
