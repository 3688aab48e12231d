--------------------------- MODULE SessionRuntime ---------------------------
(***************************************************************************)
(* One session's runtime driven by its callers: the startup service, the   *)
(* command runner and the execution service call the methods of            *)
(* RuntimeState in any order their guards allow.                           *)
(*                                                                         *)
(* `starting' is true while a start() call is under way (it holds the      *)
(* lifecycle lock).  A GDB that dies inside that call fails the runtime    *)
(* without ending the call, so mark_ready may still follow.                *)
(*                                                                         *)
(* `late' is about a call that was handling a stop when it found GDB dead. *)
(* The refresh inside the handler fails the runtime, and the handler goes  *)
(* on without another check: the stop, then the effects of its command and *)
(* of its caller, land on the failed session until that call returns.      *)
(***************************************************************************)
EXTENDS RuntimeState

CONSTANTS
    Threads,    \* thread numbers
    Pids        \* process ids given to attach

\* The reasons the session notes of its own accord; GDB reports the others.
OwnReasons == {"core-file", "attached", "thread-group-exited"}

ASSUME SelectionAssumption ==
    /\ Threads \in SUBSET Nat
    /\ Pids \in SUBSET Nat
    /\ OwnReasons \subseteq Reasons

VARIABLES
    self,       \* the SessionRuntime
    starting,   \* a start() call is under way
    late        \* did a stop handler outlive GDB in this session?

runtimeVars == <<self, starting, late>>

RuntimeTypeOK ==
    /\ self \in Runtime
    /\ starting \in BOOLEAN
    /\ late \in {"no", "handling", "done"}

RuntimeInit == self = InitialRuntime /\ starting = FALSE /\ late = "no"

-----------------------------------------------------------------------------
(* Startup: SessionLifecycleService.start *)

\* start() refuses a session that has a controller, then resets the runtime.
StartCalled ==
    /\ ~starting
    /\ ~self.controller
    /\ late # "handling"
    /\ self' = BeginStartup(self)
    /\ starting' = TRUE
    /\ late' = "no"

\* transport.start / adopt_controller
ControllerOpened ==
    /\ starting
    /\ self.state = "starting"
    /\ ~self.controller
    /\ self' = [self EXCEPT !.controller = TRUE]
    /\ UNCHANGED <<starting, late>>

\* A validation error, a failed ready check, or _cleanup_failed_start: the
\* transport is closed and the runtime failed.
StartFails ==
    /\ starting
    /\ late # "handling"
    /\ self' = MarkFailed([self EXCEPT !.controller = FALSE])
    /\ starting' = FALSE
    /\ late' = "no"

\* The tail of start(): target_loaded from the probe, the first execution
\* state when nothing has set one, and mark_ready.  A command that found GDB
\* dead has only added a warning, so the controller may be gone.
StartSucceeds(loaded, core) ==
    /\ starting
    /\ self.controller \/ self.state = "failed"
    /\ late # "handling"
    /\ LET a == [self EXCEPT !.target_loaded = loaded]
           b == CASE a.execution_state = "unknown" /\ core ->
                        MarkInferiorPaused(a, None, "core-file")
                  [] a.execution_state = "unknown" /\ ~core /\ loaded ->
                        MarkInferiorNotStarted(a, None)
                  [] OTHER -> a
       IN  self' = MarkReady(b)
    /\ starting' = FALSE
    /\ UNCHANGED late

-----------------------------------------------------------------------------
(* Termination *)

\* Any command, wait or status call that finds GDB dead or the pipe broken.
TransportTerminated ==
    /\ self.controller
    /\ self' = MarkTransportTerminated(self)
    /\ UNCHANGED <<starting, late>>

\* stop(): transport.exit clears the controller whether or not it raises.
Stopped ==
    /\ self.controller
    /\ ~starting
    /\ self' \in {MarkStopped([self EXCEPT !.controller = FALSE]),
                  MarkFailed([self EXCEPT !.controller = FALSE])}
    /\ UNCHANGED <<starting, late>>

-----------------------------------------------------------------------------
(* Notifications, on a live transport *)

Live(update) ==
    /\ self.controller
    /\ self' = update
    /\ UNCHANGED <<starting, late>>

GroupStarted(id)      == Live(MarkInferiorRunning(self, id))
GroupExited(id, code) == Live(MarkInferiorExited(self, id, "thread-group-exited", code))
GroupRemoved(id)      == Live(RemoveInferior(self, id))

\* A stopped notification: stack selection, then the state of the stopped
\* inferior (the selected one when the payload names none), then the event.
AfterStop(r, id, thread, reason, code, event) ==
    LET stopped == IF id = None THEN r.current_inferior_id ELSE id
        a == [r EXCEPT !.current_thread_id = IF thread = None THEN @ ELSE thread,
                       !.current_frame     = IF thread = None THEN @ ELSE 0]
        b == IF reason \in ExitReasons
             THEN MarkInferiorExited(a, stopped, reason, code)
             ELSE MarkInferiorPaused(a, stopped, reason)
    IN  RecordStopEvent(b, event)

\* The same batch told of a changed thread group, and the refresh that comes
\* before the stop finds GDB dead: the stop is applied to the failed runtime.
StopOutlivesGdb(id, thread, reason, code, event) ==
    /\ self.controller
    /\ self' = AfterStop(MarkTransportTerminated(self), id, thread, reason, code, event)
    /\ late' = "handling"
    /\ UNCHANGED starting

-----------------------------------------------------------------------------
(* What a call does after its notifications: nothing looks at the transport
   again, so these run on a live transport and in a call that outlived it. *)

GoesOn(update) ==
    /\ self.controller \/ late = "handling"
    /\ self' = update
    /\ UNCHANGED <<starting, late>>

\* The call that outlived GDB returns; later ones are refused.
CallReturns ==
    /\ late = "handling"
    /\ late' = "done"
    /\ UNCHANGED <<self, starting>>

\* The stop of a batch; that of the outer handler too when the refresh it
\* asked for is the call that outlived GDB.
StopReported(id, thread, reason, code, event) ==
    GoesOn(AfterStop(self, id, thread, reason, code, event))

\* A group-added notification, or the inferior add_inferior was told of.
GroupAdded(id) == GoesOn(EnsureInferior(self, id))

\* An execution command acknowledged with ^running, or an interrupt that
\* timed out.
RunningReported == GoesOn(MarkInferiorRunning(self, self.current_inferior_id))

InferiorSelected(id)         == GoesOn(MarkInferiorSelected(self, id))
InventoryRefreshed(id, ids)  == GoesOn(UpdateInferiorInventory(self, id, ids))

\* Thread and frame selection by the inspection service.
StackSelected(thread) ==
    GoesOn([self EXCEPT !.current_thread_id = thread, !.current_frame = 0])

\* file / core-file
TargetLoaded(core) ==
    LET a == [self EXCEPT !.target_loaded = TRUE, !.attached_pid = None]
        b == CASE a.execution_state # "unknown" -> a
               [] a.execution_state = "unknown" /\ core ->
                     MarkInferiorPaused(a, a.current_inferior_id, "core-file")
               [] OTHER -> MarkInferiorNotStarted(a, a.current_inferior_id)
    IN  GoesOn(b)

\* attach keeps an already reported stop; the pid is None when the command
\* does not name one.
Attached(pid) ==
    LET a == [self EXCEPT !.target_loaded = TRUE,
                          !.attached_pid  = IF pid = None THEN @ ELSE pid]
    IN  GoesOn(IF a.execution_state # "paused" \/ a.stop_reason = None
             THEN MarkInferiorPaused(a, a.current_inferior_id, "attached")
             ELSE a)

Detached == GoesOn([self EXCEPT !.attached_pid = None])

FollowForkModeSet(mode) == GoesOn([self EXCEPT !.follow_fork_mode = mode])
DetachOnForkSet(detach) == GoesOn([self EXCEPT !.detach_on_fork = detach])

RuntimeNext ==
    \/ StartCalled \/ ControllerOpened \/ StartFails
    \/ \E loaded, core \in BOOLEAN : StartSucceeds(loaded, core)
    \/ TransportTerminated \/ Stopped
    \/ \E id \in Ids : \/ GroupAdded(id) \/ GroupStarted(id) \/ GroupRemoved(id)
                       \/ \E code \in ExitCodes \cup {None} : GroupExited(id, code)
                       \/ InferiorSelected(id)
    \/ \E id \in Ids \cup {None}, thread \in Threads \cup {None}, reason \in Reasons \ OwnReasons,
          event \in StopEvents :
          \E code \in {None} \cup (IF reason \in ExitReasons THEN ExitCodes ELSE {}) :
             \/ StopReported(id, thread, reason, code, event)
             \/ StopOutlivesGdb(id, thread, reason, code, event)
    \/ CallReturns
    \/ RunningReported
    \/ \E ids \in SUBSET Ids, id \in Ids \cup {None} : InventoryRefreshed(id, ids)
    \/ \E thread \in Threads : StackSelected(thread)
    \/ \E core \in BOOLEAN : TargetLoaded(core)
    \/ \E pid \in Pids \cup {None} : Attached(pid)
    \/ Detached
    \/ \E mode \in {"parent", "child", None} : FollowForkModeSet(mode)
    \/ \E detach \in BOOLEAN \cup {None} : DetachOnForkSet(detach)

RuntimeSpec == RuntimeInit /\ [][RuntimeNext]_runtimeVars

-----------------------------------------------------------------------------
(* Properties *)

\* The execution state, stop reason and exit code a client reads always are
\* those of the selected inferior: no sequence of selections, removals,
\* refreshes and background notifications leaves the top-level fields behind.
SelectedMirror == SelectedMirrorsTracked(self)

\* A session that failed or was stopped keeps no transport and reports that
\* it does not run.  It shows nothing of its former target either, unless
\* GDB was found dead by the refresh of a stop being handled: that call goes
\* on to write its stop into the failed session.  A stopped session is blank
\* without exception.
DeadSessionIsBlank ==
    self.state \in {"failed", "stopped"} =>
        /\ ~self.controller /\ ~self.is_running
        /\ (self.state = "stopped" \/ late = "no") =>
                /\ self.current_inferior_id = None /\ self.inferior_count = None
                /\ Tracked(self) = {}
                /\ self.execution_state = "unknown" /\ self.attached_pid = None

\* The stop history never exceeds its limit, and its newest entry is the
\* last stop event.
HistoryIsRecent ==
    /\ Len(self.stop_history) <= StopHistoryLimit
    /\ self.last_stop_event = None => self.stop_history = << >>
    /\ (self.last_stop_event # None /\ StopHistoryLimit > 0) =>
            /\ self.stop_history # << >>
            /\ self.stop_history[Len(self.stop_history)] = self.last_stop_event

\* In a ready session no update makes the inferior count smaller than the
\* set of inferiors it tracks.
CountKept ==
    [][ (self.state = "ready" /\ CountCoversTracked(self)) => CountCoversTracked(self') ]_runtimeVars
=============================================================================
