----------------------------- MODULE MCWorkflow -----------------------------
(***************************************************************************)
(* Instances of Workflow for TLC.                                          *)
(***************************************************************************)
EXTENDS Workflow

MCStopEvents == [iteration : 0..MaxIterations, phase : Phases, reason : Reasons]

Default == [failure_on_error |-> TRUE, failure_on_timeout |-> TRUE,
            stop_reasons |-> {"signal-received"}, execution_states |-> {}, exit_codes |-> {},
            regex |-> FALSE]

\* The defaults, one that passes over errors, and one that looks at the state,
\* the exit code and the text only.
MCCriteria ==
    {Default,
     [Default EXCEPT !.failure_on_error = FALSE, !.failure_on_timeout = FALSE],
     [Default EXCEPT !.failure_on_error = FALSE, !.stop_reasons = {},
                     !.execution_states = {"running"}, !.exit_codes = {3}, !.regex = TRUE]}
=============================================================================
