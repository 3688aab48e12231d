------------------------------ MODULE Workflow ------------------------------
(***************************************************************************)
(* Batches of tool calls in one session (session/workflow.py) and campaigns*)
(* that repeat a run in fresh sessions until it fails                      *)
(* (session/campaign.py), with the handlers that validate their steps      *)
(* (mcp/handlers/workflow.py).                                             *)
(*                                                                         *)
(* A step is any session tool.  What it does to the session is modelled by *)
(* its outcomes: it may fail, stop the program, leave it running, lose the *)
(* debugger, or raise.  The bookkeeping of a session is RuntimeState's.    *)
(***************************************************************************)
EXTENDS RuntimeState

CONSTANTS
    MaxIterations,   \* request.max_iterations
    MaxSteps,        \* bound: steps of a batch, setup steps of a campaign
    Criteria,        \* the failure predicates clients ask for
    Faults           \* of "raises", "stuck": an exit() that leaves GDB alive

Phases == {"other", "step", "run"}

Triggers == {"startup_error", "setup_error", "timeout", "run_error", "stop_reason",
             "execution_state", "exit_code", "result_text_regex"}

ASSUME WorkflowAssumption ==
    /\ MaxIterations \in Nat \ {0}
    /\ MaxSteps \in Nat
    /\ Criteria \subseteq [failure_on_error : BOOLEAN, failure_on_timeout : BOOLEAN,
                           stop_reasons : SUBSET Reasons,
                           execution_states : SUBSET ExecutionState,
                           exit_codes : SUBSET ExitCodes, regex : BOOLEAN]
    /\ StopEvents = [iteration : 0..MaxIterations, phase : Phases, reason : Reasons]
    /\ ExitCodes # {}
    /\ None \notin Triggers
    /\ Faults \subseteq {"raises", "stuck"}

Sessions == {"own", "temporary"}

VARIABLES
    rt,     \* the runtime of the client's session and of the campaign's
    alive,  \* GDB processes: 0 for the client's session, else the iteration's
    stuck,  \* those that an exit() of the server failed to end
    job     \* the call in progress

vars == <<rt, alive, stuck, job>>

\* results: per step its status, the stop event of the answer and, for the
\* property, the last stop event the step has really recorded.  index: the
\* steps executed.  before: previous_stop_history_size.
Result  == [ok : BOOLEAN, event : StopEvents \cup {None}, real : StopEvents \cup {None},
            full : BOOLEAN]
Summary == [matched : BOOLEAN, trigger : Triggers \cup {None}]

Job == [kind : {"none", "batch", "campaign"},
        pc : {"idle", "step", "start", "run", "capture", "cleanup", "returned"},
        steps : 0..MaxSteps, fail_fast : BOOLEAN, capture : BOOLEAN, criteria : Criteria \cup {None},
        results : Seq(Result), stopped_early : BOOLEAN,
        iteration : 0..MaxIterations, iterations : Seq(Summary), trigger : Triggers \cup {None},
        event : StopEvents \cup {None}, ran : BOOLEAN,
        bundle : BOOLEAN, status : {"none", "success", "validation_error", "raised"}]

NoJob == [kind |-> "none", pc |-> "idle", steps |-> 0, fail_fast |-> TRUE, capture |-> TRUE,
          criteria |-> None, results |-> << >>, stopped_early |-> FALSE, iteration |-> 0,
          iterations |-> << >>, trigger |-> None, event |-> None, ran |-> FALSE,
          bundle |-> FALSE, status |-> "none"]

TypeOK ==
    /\ rt \in [Sessions -> Runtime]
    /\ alive \subseteq 0..MaxIterations
    /\ stuck \subseteq alive
    /\ job \in Job

\* A session that start() has made ready (session/lifecycle.py).
Started ==
    MarkReady(MarkInferiorNotStarted(BeginStartup([InitialRuntime EXCEPT !.controller = TRUE]), 1))

Init ==
    /\ rt = [own |-> Started, temporary |-> InitialRuntime]
    /\ alive = {0}
    /\ stuck = {}
    /\ job = NoJob

-----------------------------------------------------------------------------
(* What one tool call may do to a session *)

\* The stop is applied and recorded (session/command_runner.py).
Stopped(r, event) ==
    RecordStopEvent(IF event.reason \in ExitReasons
                    THEN MarkInferiorExited(r, None, event.reason, CHOOSE c \in ExitCodes : TRUE)
                    ELSE MarkInferiorPaused(r, None, event.reason), event)

\* Outcomes of a call: the runtime after it, the last stop recorded by it and
\* what it returns.  Without a controller every call is refused.
Outcome(r, event, result) == [runtime |-> r, event |-> event, result |-> result]

Outcomes(r, phase, i) ==
    {Outcome(r, None, "error")}
    \cup IF ~r.controller THEN {} ELSE
        {Outcome(MarkInferiorRunning(r, None), None, "timeout"),
         Outcome(r, None, "timeout"),
         Outcome(MarkTransportTerminated(r), None, "error")}
        \cup {Outcome(Stopped(r, e), e, "success") :
                 e \in {x \in StopEvents : x.phase = phase /\ x.iteration = i}}
        \cup (IF phase = "run" THEN {} ELSE {Outcome(r, None, "success")})
        \cup (IF "raises" \in Faults /\ phase = "step" THEN {Outcome(r, None, "raised")} ELSE {})

\* get_status: the debugger may be found dead.
LivenessChecked(r) == {r} \cup (IF r.controller THEN {MarkTransportTerminated(r)} ELSE {})

\* GDB's process goes with its controller.
Apply(s, pid, r) ==
    /\ rt' = [rt EXCEPT ![s] = r]
    /\ alive' = IF r.controller THEN alive ELSE alive \ {pid}
    /\ UNCHANGED stuck

\* Calls to the client's session outside batches.
OtherCall ==
    /\ job.pc = "idle"
    /\ \E o \in Outcomes(rt["own"], "other", 0) : Apply("own", 0, o.runtime)
    /\ UNCHANGED job

-----------------------------------------------------------------------------
(* execute_batch, for a batch and for the setup steps of a campaign *)

Session == IF job.kind = "batch" THEN "own" ELSE "temporary"

\* _build_batch_step_templates: a step that is not allowed rejects the whole
\* batch or campaign before anything is executed.
Rejected == [NoJob EXCEPT !.pc = "returned", !.status = "validation_error"]

BatchCall(n, fail_fast, capture) ==
    /\ job.pc = "idle"
    /\ job' \in {Rejected, [NoJob EXCEPT !.kind = "batch", !.pc = "step", !.steps = n,
                                         !.fail_fast = fail_fast, !.capture = capture]}
    /\ UNCHANGED <<rt, alive, stuck>>

\* Broken variant for mutation: the newest event, whoever recorded it.
StepStopEventNewest(r, before) == r.last_stop_event

\* _step_stop_event: the history has grown.
StepStopEvent(r, before) ==
    IF Len(r.stop_history) > before THEN r.stop_history[Len(r.stop_history)] ELSE None

ErrorCount(results) == Cardinality({i \in DOMAIN results : ~results[i].ok})

AfterSetup(j) ==
    IF ErrorCount(j.results) > 0
    THEN [j EXCEPT !.pc = "cleanup", !.trigger = "setup_error",
                   !.iterations = Append(@, [matched |-> TRUE, trigger |-> "setup_error"])]
    ELSE [j EXCEPT !.pc = "run"]

BatchOver(j) ==
    IF j.kind = "batch" THEN [j EXCEPT !.pc = "returned", !.status = "success"] ELSE AfterSetup(j)

BatchStep ==
    /\ job.pc = "step"
    /\ LET r == rt[Session]
       IN  \E o \in Outcomes(r, "step", job.iteration) :
              /\ Apply(Session, job.iteration, o.runtime)
              /\ LET ok == o.result = "success"
                     j == [job EXCEPT !.results = Append(@,
                              [ok    |-> ok,
                               event |-> IF job.capture
                                         THEN StepStopEvent(o.runtime, Len(r.stop_history))
                                         ELSE None,
                               real  |-> o.event,
                               full  |-> Len(r.stop_history) >= StopHistoryLimit])]
                 IN  job' = CASE o.result = "raised" /\ job.kind = "batch" ->
                                    [NoJob EXCEPT !.pc = "returned", !.status = "raised"]
                              [] o.result = "raised" /\ job.kind = "campaign" ->
                                    [job EXCEPT !.pc = "cleanup", !.status = "raised"]
                              [] ~ok /\ o.result # "raised" /\ job.fail_fast ->
                                    BatchOver([j EXCEPT !.stopped_early = TRUE])
                              [] (ok \/ ~job.fail_fast) /\ o.result # "raised" ->
                                    IF Len(j.results) = j.steps THEN BatchOver(j) ELSE j

-----------------------------------------------------------------------------
(* run_until_failure *)

\* A bound: a campaign begins while the client's session, which it neither
\* reads nor changes, is new.
CampaignCall(n, capture, criteria) ==
    /\ job.pc = "idle"
    /\ rt["own"] = Started
    /\ job' \in {Rejected, [NoJob EXCEPT !.kind = "campaign", !.pc = "start", !.steps = n,
                                         !.capture = capture, !.criteria = criteria,
                                         !.iteration = 1]}
    /\ UNCHANGED <<rt, alive, stuck>>

\* start() in a fresh session: ready, an error without a debugger, or ready
\* although the debugger died under a command whose failure is only a warning.
CampaignStart ==
    /\ job.pc = "start"
    /\ UNCHANGED stuck
    /\ \/ /\ rt' = [rt EXCEPT !["temporary"] = Started]
          /\ alive' = alive \cup {job.iteration}
          /\ job' = [job EXCEPT !.pc = IF job.steps > 0 THEN "step" ELSE "run"]
       \/ /\ rt' = [rt EXCEPT !["temporary"] = [Started EXCEPT !.controller = FALSE]]
          /\ job' = [job EXCEPT !.pc = IF job.steps > 0 THEN "step" ELSE "run"]
          /\ UNCHANGED alive
       \/ /\ rt' = [rt EXCEPT !["temporary"] = MarkFailed(InitialRuntime)]
          /\ job' = [job EXCEPT !.pc = "cleanup", !.trigger = "startup_error",
                                !.iterations = Append(@, [matched |-> TRUE,
                                                          trigger |-> "startup_error"])]
          /\ UNCHANGED alive

\* Broken variant for mutation: the first stop of the session is judged.
JudgedEventFirst(r) == IF r.stop_history = << >> THEN None ELSE Head(r.stop_history)

JudgedEvent(r) == r.last_stop_event

\* _matches_failure: the first predicate that matches, None if none does.
\* Whether the pattern occurs in the result is open.
MatchesFailure(c, result, r, event, found) ==
    LET reason == IF event # None THEN event.reason ELSE r.stop_reason
        order == <<"timeout", "run_error", "stop_reason", "execution_state", "exit_code",
                   "result_text_regex">>
        holds == <<c.failure_on_timeout /\ result = "timeout",
                   c.failure_on_error /\ result # "success",
                   reason \in c.stop_reasons,
                   r.execution_state \in c.execution_states,
                   r.exit_code \in c.exit_codes,
                   c.regex /\ found>>
        hits  == {i \in 1..6 : holds[i]}
    IN  IF hits = {} THEN None ELSE order[CHOOSE i \in hits : \A k \in hits : i <= k]

\* Broken variant for mutation: the campaign goes on after a match.
JudgedWithoutBreak(j, trigger) ==
    [j EXCEPT !.iterations = Append(@, [matched |-> trigger # None, trigger |-> trigger]),
              !.pc = "cleanup"]

\* The summary is added after the capture, which does not change it.
Judged(j, trigger) ==
    [j EXCEPT !.iterations = Append(@, [matched |-> trigger # None, trigger |-> trigger]),
              !.trigger = trigger,
              !.pc = IF trigger # None /\ j.capture THEN "capture" ELSE "cleanup"]

\* run(), then get_status(), which may be the first to find the debugger dead:
\* the run's result is judged with the state after that.  An exception of
\* run() ends the iteration without a summary.
CampaignRun ==
    /\ job.pc = "run"
    /\ \/ \E o \in Outcomes(rt["temporary"], "run", job.iteration), found \in BOOLEAN :
            \E r \in LivenessChecked(o.runtime) :
              LET event == JudgedEvent(r)
              IN  /\ Apply("temporary", job.iteration, r)
                  /\ job' = Judged([job EXCEPT !.event = event, !.ran = o.event # None],
                                   MatchesFailure(job.criteria, o.result, r, event, found))
       \/ /\ "raises" \in Faults
          /\ job' = [job EXCEPT !.pc = "cleanup", !.status = "raised"]
          /\ UNCHANGED <<rt, alive, stuck>>

\* The bundle is written, or its failure is reported; a write error escapes,
\* before the summary of the iteration.
CampaignCapture ==
    /\ job.pc = "capture"
    /\ \E r \in LivenessChecked(rt["temporary"]) : Apply("temporary", job.iteration, r)
    /\ \/ \E written \in BOOLEAN : job' = [job EXCEPT !.pc = "cleanup", !.bundle = written]
       \/ /\ "raises" \in Faults
          /\ job' = [job EXCEPT !.pc = "cleanup", !.status = "raised",
                                !.iterations = SubSeq(@, 1, Len(@) - 1)]

\* Broken variant for mutation: no finally.
CleanedUpUnlessRaised ==
    LET r == rt["temporary"]
    IN  IF ~r.controller \/ job.status = "raised" THEN UNCHANGED <<rt, alive, stuck>>
        ELSE \/ /\ rt' = [rt EXCEPT !["temporary"] = MarkStopped([r EXCEPT !.controller = FALSE])]
                /\ alive' = alive \ {job.iteration}
                /\ UNCHANGED stuck
             \/ /\ "stuck" \in Faults
                /\ rt' = [rt EXCEPT !["temporary"] = MarkFailed([r EXCEPT !.controller = FALSE])]
                /\ stuck' = stuck \cup {job.iteration}
                /\ UNCHANGED alive

\* _cleanup_session, and stop(): a failing exit() is ignored.
CleanedUp ==
    LET r == rt["temporary"]
    IN  IF ~r.controller THEN UNCHANGED <<rt, alive, stuck>>
        ELSE \/ /\ rt' = [rt EXCEPT !["temporary"] = MarkStopped([r EXCEPT !.controller = FALSE])]
                /\ alive' = alive \ {job.iteration}
                /\ UNCHANGED stuck
             \/ /\ "stuck" \in Faults
                /\ rt' = [rt EXCEPT !["temporary"] = MarkFailed([r EXCEPT !.controller = FALSE])]
                /\ stuck' = stuck \cup {job.iteration}
                /\ UNCHANGED alive

\* Broken variant for mutation: a run that does not match is not counted.
NextIterationUncounted(j) ==
    [j EXCEPT !.pc = "start", !.results = << >>, !.stopped_early = FALSE, !.event = None,
              !.ran = FALSE, !.iterations = << >>]

NextIteration(j) ==
    IF j.iteration = MaxIterations THEN [j EXCEPT !.pc = "returned", !.status = "success"]
    ELSE [j EXCEPT !.pc = "start", !.iteration = @ + 1, !.results = << >>,
                   !.stopped_early = FALSE, !.event = None, !.ran = FALSE]

\* The end of an iteration: the exception goes on, the match ends the loop.
CampaignCleanup ==
    /\ job.pc = "cleanup"
    /\ CleanedUp
    /\ job' = CASE job.status = "raised" -> [job EXCEPT !.pc = "returned"]
                [] job.status # "raised" /\ job.trigger # None ->
                      [job EXCEPT !.pc = "returned", !.status = "success"]
                [] job.status # "raised" /\ job.trigger = None -> NextIteration(job)

\* What became of a stuck debugger is of no further interest.
Answered ==
    /\ job.pc = "returned"
    /\ job' = NoJob
    /\ rt' = [rt EXCEPT !["temporary"] = InitialRuntime]
    /\ alive' = alive \ stuck
    /\ stuck' = {}

-----------------------------------------------------------------------------
Work == BatchStep \/ CampaignStart \/ CampaignRun \/ CampaignCapture \/ CampaignCleanup

Calls ==
    \/ OtherCall
    \/ \E n \in 1..MaxSteps, ff \in BOOLEAN, cap \in BOOLEAN : BatchCall(n, ff, cap)
    \/ \E n \in 0..MaxSteps, cap \in BOOLEAN, c \in Criteria : CampaignCall(n, cap, c)

Next == Calls \/ Work \/ Answered

\* Every command a job waits for has a timeout, and the answer is sent.
Spec == Init /\ [][Next]_vars /\ WF_vars(Work) /\ WF_vars(Answered)

-----------------------------------------------------------------------------
(* Properties *)

\* "Include any new stop event produced by each step in the batch result"
\* (mcp/schemas/workflow.py): the answer shows for every step the stop it
\* recorded, and no stop of another step or call.
\* It is so as long as the history is below its limit; at the limit a stop may
\* be missing, but none is shown that is another's.
BatchReportsStopsEarly ==
    (job.kind = "batch" /\ job.capture) =>
        \A i \in DOMAIN job.results :
            \/ job.results[i].event = job.results[i].real
            \/ job.results[i].full /\ job.results[i].event = None

\* However an iteration ends - a match, an error of any step, an exception -
\* its debugger ends with it: there is never more than one, and none is left
\* when the next iteration starts or the campaign returns.  Excepted are those
\* that exit() itself failed to end.
NoDebuggerLeft ==
    alive \ ({0} \cup stuck) \subseteq
        (IF job.kind = "campaign" /\ job.pc \in {"step", "run", "capture", "cleanup"}
         THEN {job.iteration} ELSE {})

\* The report of a campaign: one summary per iteration, a match ends it, the
\* match reported is the last summary's, and a bundle belongs to a match.
CampaignIsCoherent ==
    (job.kind = "campaign" /\ job.status = "success") =>
        /\ Len(job.iterations) = job.iteration
        /\ \A i \in DOMAIN job.iterations :
              job.iterations[i].matched = (i = job.iteration /\ job.trigger # None)
        /\ job.trigger = job.iterations[job.iteration].trigger
        /\ job.trigger = None => job.iteration = MaxIterations
        /\ job.bundle => job.trigger \notin {None, "startup_error", "setup_error"}

\* A batch ends with its last step or, if asked to, with the first error.
BatchEndsWhereAsked ==
    (job.kind = "batch" /\ job.status = "success") =>
        LET failed == {i \in DOMAIN job.results : ~job.results[i].ok}
        IN  /\ job.stopped_early = (job.fail_fast /\ failed # {})
            /\ job.stopped_early => failed = {Len(job.results)}
            /\ ~job.stopped_early => Len(job.results) = job.steps

\* The answer of a batch or a campaign (run_batch, run_until_failure) tells how
\* far it came and why it ended, on whichever of its exits it ended.
ReportIsCoherent == CampaignIsCoherent /\ BatchEndsWhereAsked

\* A run is judged by its own stop: never by one of an earlier iteration, and
\* by one of the setup steps only if the run itself recorded no stop.
JudgedByItsOwn ==
    job.event # None =>
        /\ job.event.iteration = job.iteration
        /\ job.ran => job.event.phase = "run"

\* A batch or campaign that has begun returns.
JobEnds == job.pc # "idle" ~> job.pc = "idle"
=============================================================================
