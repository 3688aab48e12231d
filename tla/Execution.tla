----------------------------- MODULE Execution ------------------------------
(***************************************************************************)
(* How a session follows the process it debugs.  The module composes       *)
(*   - the execution service (session/execution.py),                       *)
(*   - the command runner that turns MI records into runtime updates       *)
(*     (session/command_runner.py),                                        *)
(*   - the transport that reads the MI stream (transport/mi_client.py),    *)
(*   - and GDB with one inferior, which is external: it answers commands   *)
(*     in order, and, as GDB does by default, reads no command while its   *)
(*     inferior runs.                                                      *)
(*                                                                         *)
(* A run of the inferior is identified by the token of the command that    *)
(* resumed it; it ends in one stop, so the token also names that stop.     *)
(* Calls are serialised by the session's workflow lock: at most one        *)
(* operation `op' is in progress.                                          *)
(***************************************************************************)
EXTENDS RuntimeState

CONSTANTS
    Usages,         \* the ways in which the session is used, see Usage
    MaxCommands     \* bound: MI commands sent in a behaviour

\* run, continue and step resume the inferior ("step" also stands for next
\* and finish, which differ only in the MI command); "good" and "bad" are any
\* other command that GDB answers with ^done or ^error.
ExecKinds == {"run", "continue", "step"}
SentKinds == ExecKinds \cup {"good", "bad", "call"}
AllKinds  == SentKinds \cup {"wait", "interrupt"}

\* Departures from skills/debug-with-gdb-mcp/SKILL.md "Guardrails":
\*   exec_while_running   run or step although the session shows running
\*   bad_while_running    a failing command although it shows running
\*   call_while_running   call_function although it shows running
\*   idle_interrupt       interrupt although it does not show running
Departures == {"exec_while_running", "bad_while_running",
               "call_while_running", "idle_interrupt"}

\* A usage: the operations the client calls, its departures, whether GDB may
\* leave a command it could answer past its timeout, whether the program may
\* exit, and (a bound) how many MI commands are sent.
Usage == [kinds : SUBSET AllKinds, departs : SUBSET Departures, slow : BOOLEAN,
          exits : BOOLEAN, commands : 1..MaxCommands]

ASSUME ExecutionAssumption ==
    /\ MaxCommands \in Nat
    /\ Usages \subseteq Usage
    /\ StopEvents = 1..MaxCommands
    /\ "thread-group-exited" \in Reasons
    /\ None \notin {"running", "done", "error"}

\* The reasons GDB itself gives; the other one is the command runner's own.
GdbReasons == Reasons \ {"thread-group-exited"}

VARIABLES
    usage,   \* the usage of this behaviour
    gdb,     \* GDB's own state (external)
    stdin,   \* commands written to GDB and not yet executed
    out,     \* MI records GDB has written and the transport has not read
    token,   \* MiClient._command_token
    rt,      \* the session runtime
    op,      \* the operation in progress
    result   \* the outcome of the last operation that returned, with the
             \* state the inferior was in at that moment

vars == <<usage, gdb, stdin, out, token, rt, op, result>>

-----------------------------------------------------------------------------
(* Records.  Only what the runtime distinguishes is kept. *)

Result(t, c) == [type |-> "result", token |-> t, class |-> c]
Stop(t, r)   == [type |-> "stopped", token |-> t, reason |-> r]
Group(m)     == [type |-> m]

Classes == {"running", "done", "error"}
Stops   == [type : {"stopped"}, token : 1..MaxCommands, reason : GdbReasons]
Record  ==
    [type : {"result"}, token : 1..MaxCommands, class : Classes]
    \cup Stops
    \cup [type : {"thread-group-started", "thread-group-exited"}]

IsStop(m) == m.type = "stopped"

\* An operation in progress: its command and what it has read so far.  class:
\* that of its result.  responses and async: the stops among command_responses
\* and async_notifications.  draft: the runtime with the thread-group
\* notifications applied, which it becomes when the operation ends; no other
\* operation changes the runtime meanwhile.
Op == [kind : AllKinds \cup {"idle"}, token : 0..MaxCommands, class : Classes \cup {None},
       responses : Seq(Stops), async : Seq(Stops), draft : Runtime]

NewOp(k, t) ==
    [kind |-> k, token |-> t, class |-> None, responses |-> << >>, async |-> << >>,
     draft |-> rt]

Idle ==
    [kind |-> "idle", token |-> 0, class |-> None, responses |-> << >>, async |-> << >>,
     draft |-> InitialRuntime]

Busy == op.kind # "idle"

Statuses == {"none", "success", "running", "timeout", "error", "fatal", "refused",
             "existing", "warning"}

TypeOK ==
    /\ usage \in Usages
    /\ gdb \in [alive : BOOLEAN, run : 0..MaxCommands, sigint : BOOLEAN,
                inferior : {"not_started", "running", "paused", "exited"}]
    /\ stdin \in Seq([kind : SentKinds, token : 1..MaxCommands])
    /\ out \in Seq(Record)
    /\ token \in 1..(MaxCommands + 1)
    /\ rt \in Runtime
    /\ op \in Op
    /\ result \in [kind : AllKinds \cup {"idle"}, token : 0..MaxCommands, status : Statuses,
                   actual : {"not_started", "running", "paused", "exited"}]

\* A session right after start() with a program: ready, not started.
Init ==
    /\ usage \in Usages
    /\ gdb = [alive |-> TRUE, run |-> 0, sigint |-> FALSE, inferior |-> "not_started"]
    /\ stdin = << >> /\ out = << >>
    /\ token = 1
    /\ rt = MarkReady(MarkInferiorNotStarted(
                [BeginStartup(InitialRuntime) EXCEPT !.controller = TRUE,
                                                     !.target_loaded = TRUE], None))
    /\ op = Idle
    /\ result = [kind |-> "idle", token |-> 0, status |-> "none",
                 actual |-> "not_started"]

-----------------------------------------------------------------------------
(* GDB and its inferior (external) *)

gdbVars == <<gdb, stdin, out>>

\* GDB takes the next command from its input once the inferior is not running.
GdbExecute ==
    /\ gdb.alive /\ gdb.inferior # "running" /\ stdin # << >>
    /\ LET c == Head(stdin)
           resumes == \/ c.kind = "run"
                      \/ c.kind \in {"continue", "step"} /\ gdb.inferior = "paused"
           class == IF resumes THEN "running"
                    ELSE IF c.kind \in {"good", "call"} THEN "done" ELSE "error"
           group == IF c.kind = "run" THEN <<Group("thread-group-started")>> ELSE << >>
       IN  /\ out' = out \o group \o <<Result(c.token, class)>>
           /\ gdb' = IF resumes
                     THEN [gdb EXCEPT !.inferior = "running", !.run = c.token]
                     ELSE gdb
    /\ stdin' = Tail(stdin)
    /\ UNCHANGED <<token, rt, op, result>>

\* The running inferior stops or exits; only an interrupt makes it stop with
\* "signal-received".
InferiorStops(reason) ==
    /\ gdb.alive /\ gdb.inferior = "running"
    /\ reason = "signal-received" => gdb.sigint
    /\ reason \in ExitReasons => usage.exits
    /\ gdb' = [gdb EXCEPT !.inferior = IF reason \in ExitReasons THEN "exited" ELSE "paused",
                          !.sigint = FALSE]
    /\ out' = out \o (IF reason \in ExitReasons THEN <<Group("thread-group-exited")>> ELSE << >>)
                  \o <<Stop(gdb.run, reason)>>
    /\ UNCHANGED <<stdin, token, rt, op, result>>

\* GDB crashes or is killed; what it has written stays readable.
GdbDies ==
    /\ gdb.alive
    /\ gdb' = [gdb EXCEPT !.alive = FALSE]
    /\ UNCHANGED <<stdin, out, token, rt, op, result>>

-----------------------------------------------------------------------------
(* Applying what was read: _update_runtime_after_command *)

\* Thread-group notifications are applied one after the other ...
ApplyGroup(r, m) ==
    CASE m.type = "thread-group-started" -> MarkInferiorRunning(r, 1)
      [] m.type = "thread-group-exited"  -> MarkInferiorExited(r, 1, "thread-group-exited", None)
      [] OTHER                           -> r

\* ... then the first stop that was read, or else the acknowledgement.
ApplyStop(r, m) ==
    LET a == IF m.reason \in ExitReasons
             THEN MarkInferiorExited(r, r.current_inferior_id, m.reason, None)
             ELSE MarkInferiorPaused(r, r.current_inferior_id, m.reason)
    IN  RecordStopEvent(a, m.token)

\* Broken variant for mutation: ^running is taken for a mere acknowledgement.
UpdateRuntimeIgnoringRunning(r, stops, class) ==
    IF stops # << >> THEN ApplyStop(r, Head(stops)) ELSE r

\* r: the runtime with the thread-group notifications applied.
UpdateRuntimeAfterCommand(r, stops, class) ==
    CASE stops # << >>                      -> ApplyStop(r, Head(stops))
      [] stops = << >> /\ class = "running" -> MarkInferiorRunning(r, r.current_inferior_id)
      [] OTHER                              -> r

\* Broken variants for mutation: the two sources in the wrong order, and
\* the asynchronous notifications dropped.
NotificationsAsyncFirst(o) == o.async \o o.responses
NotificationsOwnOnly(o)    == o.responses

\* parsed.notify: the command's own notifications, then the asynchronous ones.
Notifications(o) == o.responses \o o.async

Return(o, status) ==
    /\ op' = Idle
    /\ result' = [kind |-> o.kind, token |-> o.token, status |-> status,
                  actual |-> gdb.inferior]

-----------------------------------------------------------------------------
(* Entering an operation *)

\* The client follows the documented guardrails except for its departures.
ClientMay(k) ==
    /\ k \in usage.kinds
    /\ rt.execution_state = "running" =>
          /\ k \in {"run", "step"} => "exec_while_running" \in usage.departs
          /\ k = "bad"             => "bad_while_running" \in usage.departs
          /\ k = "call"            => "call_while_running" \in usage.departs
    /\ k = "interrupt" =>
          rt.execution_state = "running" \/ "idle_interrupt" \in usage.departs

\* Every operation first finds out whether GDB is still there.
FoundDead(k) ==
    /\ ~Busy /\ rt.controller /\ ClientMay(k)
    /\ k = "continue" => rt.execution_state # "running"
    /\ ~gdb.alive
    /\ rt' = MarkTransportTerminated(rt)
    /\ Return(NewOp(k, 0), "error")
    /\ UNCHANGED <<gdb, stdin, out, token>>

\* continue_execution refuses while the session shows a running inferior.
ContinueRefused ==
    /\ ~Busy /\ rt.controller /\ ClientMay("continue")
    /\ rt.execution_state = "running"
    /\ UNCHANGED <<gdb, stdin, out, token, rt>>
    /\ Return(NewOp("continue", 0), "refused")

\* execute_command_result / call_function: write the tokenised command.
SendCommand(k) ==
    /\ ~Busy /\ rt.controller /\ ClientMay(k)
    /\ k \in SentKinds
    /\ k = "continue" => rt.execution_state # "running"
    /\ gdb.alive
    /\ token <= usage.commands
    /\ stdin' = Append(stdin, [kind |-> k, token |-> token])
    /\ token' = token + 1
    /\ op' = NewOp(k, token)
    /\ UNCHANGED <<gdb, out, rt, result>>

\* wait_for_stop answers at once from the runtime unless it shows running.
WaitExisting ==
    /\ ~Busy /\ rt.controller /\ ClientMay("wait")
    /\ gdb.alive
    /\ rt.execution_state # "running"
    /\ UNCHANGED <<gdb, stdin, out, token, rt>>
    /\ Return(NewOp("wait", 0), "existing")

WaitForStop ==
    /\ ~Busy /\ rt.controller /\ ClientMay("wait")
    /\ gdb.alive
    /\ rt.execution_state = "running"
    /\ op' = NewOp("wait", 0)
    /\ UNCHANGED <<gdb, stdin, out, token, rt, result>>

\* interrupt sends SIGINT to GDB; without a running inferior nothing stops.
\* When the signal cannot be sent ("Failed to interrupt") neither GDB nor the
\* runtime changes and the client gets an error: a call this module leaves out.
Interrupt ==
    /\ ~Busy /\ rt.controller /\ ClientMay("interrupt")
    /\ gdb.alive
    /\ gdb' = [gdb EXCEPT !.sigint = (gdb.inferior = "running")]
    /\ op' = NewOp("interrupt", 0)
    /\ UNCHANGED <<stdin, out, token, rt, result>>

-----------------------------------------------------------------------------
(* Reading: the loop of send_command_and_wait_for_prompt.  Records arrive in
   batches; completion is only looked at between batches, so the loop may
   read on although it has what it waits for. *)

Sort(o, m) ==
    IF m.type = "result" /\ m.token = o.token THEN [o EXCEPT !.class = m.class]
    ELSE IF IsStop(m) /\ o.class = "running" THEN [o EXCEPT !.responses = Append(@, m)]
    ELSE IF IsStop(m) THEN [o EXCEPT !.async = Append(@, m)]
    ELSE [o EXCEPT !.draft = ApplyGroup(@, m)]

ReadRecord ==
    /\ Busy /\ op.kind \in SentKinds
    /\ out # << >>
    /\ op' = Sort(op, Head(out))
    /\ out' = Tail(out)
    /\ UNCHANGED <<gdb, stdin, token, rt, result>>

Complete(o) == o.class # None /\ (o.class # "running" \/ o.responses # << >>)

\* execute_command_result after a completed command.  An error result returns
\* before the runtime is updated.
CommandReturns ==
    /\ Busy /\ op.kind \in SentKinds \ {"call"}
    /\ Complete(op)
    /\ IF op.class = "error"
       THEN UNCHANGED rt /\ Return(op, "error")
       ELSE /\ rt' = UpdateRuntimeAfterCommand(op.draft, Notifications(op), op.class)
            /\ Return(op, "success")
    /\ UNCHANGED <<gdb, stdin, out, token>>

\* call_function applies its own responses only, which are results and stops.
CallReturns ==
    /\ Busy /\ op.kind = "call"
    /\ Complete(op)
    /\ rt' = UpdateRuntimeAfterCommand(rt, op.responses, op.class)
    /\ Return(op, IF op.class = "error" THEN "error" ELSE "success")
    /\ UNCHANGED <<gdb, stdin, out, token>>

\* Timeouts are long against GDB's answers: unless GDB is slow, an operation
\* times out only when it has read all there is, and a command only when GDB
\* has answered it or cannot read it.
MayTimeOut ==
    \/ usage.slow
    \/ /\ out = << >>
       /\ op.kind \in SentKinds => op.class # None \/ gdb.inferior = "running"

\* The deadline passes.  `acknowledged' is allow_running_timeout: the caller
\* asked to return once the command is acknowledged.
CommandTimesOut(acknowledged) ==
    /\ Busy /\ op.kind \in SentKinds \ {"call"}
    /\ ~Complete(op) /\ MayTimeOut
    /\ rt' = UpdateRuntimeAfterCommand(op.draft, Notifications(op), op.class)
    /\ Return(op, IF acknowledged /\ op.kind \in ExecKinds
                     /\ (op.class = "running" \/ rt'.execution_state = "running")
                  THEN "running" ELSE "timeout")
    /\ UNCHANGED <<gdb, stdin, out, token>>

CallTimesOut ==
    /\ Busy /\ op.kind = "call"
    /\ ~Complete(op) /\ MayTimeOut
    /\ UNCHANGED <<gdb, stdin, out, token, rt>>
    /\ Return(op, "timeout")

-----------------------------------------------------------------------------
(* Reading: _wait_for_stopped_notification *)

\* Everything up to the stop is parsed together, with the class of the last
\* result in it, whichever command that answers.
SortWaiting(o, m) ==
    IF m.type = "result" THEN [o EXCEPT !.class = m.class]
    ELSE [o EXCEPT !.draft = ApplyGroup(@, m)]

ReadWaiting ==
    /\ Busy /\ op.kind \in {"wait", "interrupt"}
    /\ out # << >> /\ ~IsStop(Head(out))
    /\ op' = SortWaiting(op, Head(out))
    /\ out' = Tail(out)
    /\ UNCHANGED <<gdb, stdin, token, rt, result>>

\* Broken variant for mutation: the stop is reported but left in the stream.
StopPeeked ==
    /\ Busy /\ op.kind \in {"wait", "interrupt"}
    /\ out # << >> /\ IsStop(Head(out))
    /\ rt' = UpdateRuntimeAfterCommand(op.draft, <<Head(out)>>, op.class)
    /\ Return(op, "success")
    /\ UNCHANGED <<gdb, stdin, out, token>>

\* The first stop ends the wait; the rest of its batch is thrown away.
StopRead ==
    /\ Busy /\ op.kind \in {"wait", "interrupt"}
    /\ out # << >> /\ IsStop(Head(out))
    /\ \E rest \in 1..Len(out) : out' = SubSeq(out, rest + 1, Len(out))
    /\ LET a == UpdateRuntimeAfterCommand(op.draft, <<Head(out)>>, op.class)
       IN  rt' = IF op.kind = "interrupt"
                 THEN MarkInferiorPaused(a, None, Head(out).reason)
                 ELSE a
    /\ Return(op, "success")
    /\ UNCHANGED <<gdb, stdin, token>>

\* Broken variant for mutation: a timed-out interrupt is taken for a stop.
WaitTimesOutPaused ==
    /\ Busy /\ op.kind \in {"wait", "interrupt"}
    /\ MayTimeOut
    /\ rt' = MarkInferiorPaused(rt, None, None)
    /\ Return(op, "timeout")
    /\ UNCHANGED <<gdb, stdin, out, token>>

\* The deadline passes without a stop.  interrupt then records the inferior
\* as running.
WaitTimesOut ==
    /\ Busy /\ op.kind \in {"wait", "interrupt"}
    /\ MayTimeOut
    /\ LET a == UpdateRuntimeAfterCommand(op.draft, << >>, op.class)
       IN  rt' = IF op.kind = "interrupt" THEN MarkInferiorRunning(a, None) ELSE a
    /\ Return(op, IF op.kind = "interrupt" THEN "warning" ELSE "timeout")
    /\ UNCHANGED <<gdb, stdin, out, token>>

\* A dead GDB is noticed in the middle of an operation: by the liveness check
\* of the command loop, or by a failing read or write.
TransportFails ==
    /\ Busy /\ ~gdb.alive
    /\ rt' = MarkTransportTerminated(rt)
    /\ Return(op, "fatal")
    /\ UNCHANGED <<gdb, stdin, out, token>>

-----------------------------------------------------------------------------
Gdb == GdbExecute \/ (\E reason \in GdbReasons : InferiorStops(reason)) \/ GdbDies

Client ==
    \/ \E k \in AllKinds : FoundDead(k) \/ SendCommand(k)
    \/ ContinueRefused \/ WaitExisting \/ WaitForStop \/ Interrupt

Server ==
    \/ ReadRecord \/ CommandReturns \/ CallReturns
    \/ (\E acknowledged \in BOOLEAN : CommandTimesOut(acknowledged))
    \/ CallTimesOut \/ ReadWaiting \/ StopRead \/ WaitTimesOut \/ TransportFails

Next == (Gdb \/ Client \/ Server) /\ UNCHANGED usage

Spec == Init /\ [][Next]_vars

\* An operation under way can take a step: it has something to read, or has
\* what it waits for, or its deadline may pass, or its GDB is gone.
CanProceed == Busy /\ (out # << >> \/ Complete(op) \/ MayTimeOut \/ ~gdb.alive)

\* GDB answers what it can read, the server's loops run on to their timeouts
\* (weak fairness of Server, with its enabling condition spelled out), and a
\* client that sees a running inferior keeps calling wait_for_stop, as the
\* documentation asks.  Nothing makes the inferior stop.
LiveSpec ==
    /\ Spec
    /\ WF_vars(GdbExecute /\ UNCHANGED usage) /\ WF_vars(WaitForStop /\ UNCHANGED usage)
    /\ []<>(~CanProceed) \/ []<><<Server /\ UNCHANGED usage>>_vars

-----------------------------------------------------------------------------
(* Properties *)

\* Nothing is under way: no operation, no unread record, no unread command.
Drained == ~Busy /\ out = << >> /\ stdin = << >> /\ gdb.alive /\ rt.controller

\* Whenever everything GDB wrote has been read, the execution state the
\* session reports is the state the inferior is in (SKILL.md: execution_state
\* "tells you whether the inferior is not_started, running, paused, ...").
ReportedStateIsActual == Drained => rt.execution_state = gdb.inferior

\* The documented usage, except that a program that may exit is not
\* interrupted.
Calm ==
    /\ usage.departs = {} /\ ~usage.slow
    /\ usage.exits => "interrupt" \notin usage.kinds

\* In calm usage the reported state is the actual one, after timeouts, late
\* answers, stops read by another operation, and interrupts.
CalmStateIsActual == Calm => ReportedStateIsActual

\* A run, continue or step that returns success reports the stop that ended
\* its own run of the inferior, never an older stop read along with it.
ExecReportsOwnStop ==
    (~Busy /\ rt.controller /\ result.kind \in ExecKinds /\ result.status = "success")
        => rt.last_stop_event = result.token

\* wait_for_stop answers without waiting only when the inferior is not
\* running (commands.md: "Blocks until the next stop event"); in calm usage.
WaitBlocksWhileRunning ==
    (Calm /\ result.kind = "wait" /\ result.status = "existing") => result.actual # "running"

\* In calm usage the stop of an inferior that the session shows as running is
\* eventually reported, whichever operation happens to read it.
StopIsReported ==
    (Calm /\ gdb.inferior \in {"paused", "exited"} /\ rt.execution_state = "running")
        ~> (rt.execution_state # "running" \/ ~gdb.alive)

\* Stops enter the history in the order in which they happened, each once.
StopsInOrder ==
    \A i, j \in DOMAIN rt.stop_history :
        i < j => rt.stop_history[i] < rt.stop_history[j]
=============================================================================
