---------------------------- MODULE RuntimeState ----------------------------
(***************************************************************************)
(* The mutable bookkeeping of one debugger session: the SessionRuntime     *)
(* dataclass of session/runtime.py as a record, and each of its methods as *)
(* a function from records to records.  Every method runs under the        *)
(* re-entrant leaf lock _state_lock, so one application of an operator is  *)
(* one atomic step of the program.                                         *)
(*                                                                         *)
(* `inferior_states' is a function whose domain is the set of tracked      *)
(* inferiors.  None stands for Python's None wherever a field is optional. *)
(***************************************************************************)
EXTENDS Integers, FiniteSets, Sequences

CONSTANTS
    None,               \* Python's None
    Ids,                \* the inferior numbers GDB may use
    Reasons,            \* stop reasons, among them the ones GDB reports
    ExitCodes,          \* process exit codes
    StopEvents,         \* the identities of stop events
    StopHistoryLimit    \* runtime.stop_history_limit

ASSUME NoneAssumption ==
    /\ None \notin Int
    /\ None \notin Reasons
    /\ None \notin ExitCodes
    /\ None \notin StopEvents

ASSUME IdsAssumption == Ids \in SUBSET (Nat \ {0}) /\ 1 \in Ids /\ IsFiniteSet(Ids)

ASSUME LimitAssumption == StopHistoryLimit \in Nat

-----------------------------------------------------------------------------
(* Types *)

ExecutionState == {"unknown", "not_started", "running", "paused", "exited"}

SessionState == {"created", "starting", "ready", "failed", "stopped"}

\* The stop reasons that mean the process is gone.
ExitReasons == {"exited", "exited-normally", "exited-signalled"}

InferiorRuntimeState ==
    [execution_state : ExecutionState,
     stop_reason     : Reasons \cup {None},
     exit_code       : ExitCodes \cup {None}]

\* InferiorRuntimeState(): the record a newly tracked inferior gets.
NewInferior ==
    [execution_state |-> "unknown", stop_reason |-> None, exit_code |-> None]

\* dict[int, InferiorRuntimeState]
InferiorStates == UNION {[D -> InferiorRuntimeState] : D \in SUBSET Ids}

NoInferiors == [i \in {} |-> NewInferior]

Runtime ==
    [state               : SessionState,
     controller          : BOOLEAN,
     is_running          : BOOLEAN,
     target_loaded       : BOOLEAN,
     attached_pid        : Nat \cup {None},
     execution_state     : ExecutionState,
     stop_reason         : Reasons \cup {None},
     exit_code           : ExitCodes \cup {None},
     current_thread_id   : Nat \cup {None},
     current_frame       : Nat \cup {None},
     current_inferior_id : Ids \cup {None},
     inferior_count      : Nat \cup {None},
     inferior_states     : InferiorStates,
     follow_fork_mode    : {"parent", "child", None},
     detach_on_fork      : BOOLEAN \cup {None},
     last_stop_event     : StopEvents \cup {None},
     stop_history        : Seq(StopEvents)]

InitialRuntime ==
    [state               |-> "created",
     controller          |-> FALSE,
     is_running          |-> FALSE,
     target_loaded       |-> FALSE,
     attached_pid        |-> None,
     execution_state     |-> "unknown",
     stop_reason         |-> None,
     exit_code           |-> None,
     current_thread_id   |-> None,
     current_frame       |-> None,
     current_inferior_id |-> None,
     inferior_count      |-> None,
     inferior_states     |-> NoInferiors,
     follow_fork_mode    |-> None,
     detach_on_fork      |-> None,
     last_stop_event     |-> None,
     stop_history        |-> << >>]

-----------------------------------------------------------------------------
(* Helpers *)

Tracked(r) == DOMAIN r.inferior_states

\* self.inferior_states[id] = s
Track(r, id, s) ==
    [r EXCEPT !.inferior_states =
        [i \in Tracked(r) \cup {id} |-> IF i = id THEN s ELSE r.inferior_states[i]]]

\* Broken variant for mutation: no default for an empty inventory.
MinOrNoneWithoutDefault(ids) ==
    IF ids = {} THEN 0 ELSE CHOOSE i \in ids : \A j \in ids : i <= j

\* min(ids) if ids else None
MinOrNone(ids) ==
    IF ids = {} THEN None ELSE CHOOSE i \in ids : \A j \in ids : i <= j

\* if self.inferior_count is None or self.inferior_count < len(...)
BumpCount(r) ==
    IF r.inferior_count = None \/ r.inferior_count < Cardinality(Tracked(r))
    THEN [r EXCEPT !.inferior_count = Cardinality(Tracked(r))]
    ELSE r

\* Copy one inferior record into the selected-inferior fields.
Mirror(r, s) ==
    [r EXCEPT !.execution_state = s.execution_state,
              !.stop_reason     = s.stop_reason,
              !.exit_code       = s.exit_code]

SynchronizeSelectedState(r) ==
    IF r.current_inferior_id = None
    THEN Mirror(r, NewInferior)
    ELSE LET t == IF r.current_inferior_id \in Tracked(r)
                  THEN r
                  ELSE Track(r, r.current_inferior_id, NewInferior)
         IN  Mirror(t, t.inferior_states[t.current_inferior_id])

ResetTransient(r) ==
    [r EXCEPT !.is_running          = FALSE,
              !.target_loaded       = FALSE,
              !.attached_pid        = None,
              !.execution_state     = "unknown",
              !.stop_reason         = None,
              !.exit_code           = None,
              !.current_thread_id   = None,
              !.current_frame       = None,
              !.current_inferior_id = None,
              !.inferior_count      = None,
              !.inferior_states     = NoInferiors,
              !.follow_fork_mode    = None,
              !.detach_on_fork      = None]

-----------------------------------------------------------------------------
(* Life cycle *)

BeginStartup(r) ==
    [ResetTransient(r) EXCEPT !.state           = "starting",
                              !.last_stop_event = None,
                              !.stop_history    = << >>]

MarkReady(r) ==
    LET a == [r EXCEPT !.state               = "ready",
                       !.is_running          = TRUE,
                       !.current_inferior_id =
                           IF r.current_inferior_id = None THEN 1 ELSE @,
                       !.inferior_count      =
                           IF r.inferior_count = None THEN 1 ELSE @]
        b == IF a.current_inferior_id \in Tracked(a)
             THEN a
             ELSE Track(a, a.current_inferior_id,
                        [execution_state |-> a.execution_state,
                         stop_reason     |-> a.stop_reason,
                         exit_code       |-> a.exit_code])
    IN  [SynchronizeSelectedState(b) EXCEPT
            !.follow_fork_mode = IF @ = None THEN "parent" ELSE @,
            !.detach_on_fork   = IF @ = None THEN TRUE ELSE @]

MarkFailed(r) == [ResetTransient(r) EXCEPT !.state = "failed"]

\* Broken variant for mutation: the runtime is marked but not reset.
MarkTransportTerminatedWithoutReset(r) ==
    [r EXCEPT !.controller = FALSE, !.state = "failed"]

MarkTransportTerminated(r) == MarkFailed([r EXCEPT !.controller = FALSE])

MarkStopped(r) == [ResetTransient(r) EXCEPT !.state = "stopped"]

-----------------------------------------------------------------------------
(* Selection and inventory *)

\* Broken variant for mutation: the count is not raised.
EnsureInferiorWithoutCount(r, id) ==
    IF id \in Tracked(r) THEN r ELSE Track(r, id, NewInferior)

EnsureInferior(r, id) ==
    BumpCount(IF id \in Tracked(r) THEN r ELSE Track(r, id, NewInferior))

\* Broken variant for mutation: the thread of the inferior left is kept.
MarkInferiorSelectedKeepsThread(r, id) ==
    LET a == [r EXCEPT !.current_inferior_id = id]
    IN  SynchronizeSelectedState(IF id = None THEN a ELSE EnsureInferior(a, id))

MarkInferiorSelected(r, id) ==
    LET a == [r EXCEPT !.current_inferior_id = id,
                       !.current_thread_id   = None,
                       !.current_frame       = None]
    IN  SynchronizeSelectedState(IF id = None THEN a ELSE EnsureInferior(a, id))

\* `ids' is the set listed by "info inferiors"; `count' is its size.
UpdateInferiorInventory(r, current, ids) ==
    LET a == [r EXCEPT !.inferior_states =
                  [i \in ids |-> IF i \in Tracked(r) THEN r.inferior_states[i]
                                                     ELSE NewInferior]]
        b == [a EXCEPT !.current_inferior_id =
                           IF current = None THEN MinOrNone(ids) ELSE current,
                       !.inferior_count      = Cardinality(ids)]
    IN  SynchronizeSelectedState(
            IF b.current_inferior_id = None
            THEN b
            ELSE EnsureInferior(b, b.current_inferior_id))

\* Broken variant for mutation: the top-level fields are not synchronized.
RemoveInferiorWithoutSync(r, id) ==
    LET rest == Tracked(r) \ {id}
        a    == [r EXCEPT !.inferior_states = [i \in rest |-> r.inferior_states[i]],
                          !.inferior_count  = Cardinality(rest)]
    IN  IF a.current_inferior_id = id
        THEN [a EXCEPT !.current_inferior_id = MinOrNone(rest),
                       !.current_thread_id   = None,
                       !.current_frame       = None]
        ELSE a

RemoveInferior(r, id) ==
    LET rest == Tracked(r) \ {id}
        a    == [r EXCEPT !.inferior_states = [i \in rest |-> r.inferior_states[i]],
                          !.inferior_count  = Cardinality(rest)]
        b    == IF a.current_inferior_id = id
                THEN [a EXCEPT !.current_inferior_id = MinOrNone(rest),
                               !.current_thread_id   = None,
                               !.current_frame       = None]
                ELSE a
    IN  IF id \in Tracked(r) THEN SynchronizeSelectedState(b) ELSE r

-----------------------------------------------------------------------------
(* Execution state.  `id' is an inferior or None for the selected one.     *)

\* _resolve_target_inferior_id also selects an inferior when none is.
ResolveTarget(r, id) ==
    IF r.current_inferior_id # None
    THEN r
    ELSE [r EXCEPT !.current_inferior_id = IF id # None THEN id ELSE 1]

UpdateInferiorState(r, id, s) ==
    LET a      == ResolveTarget(r, id)
        target == IF id # None THEN id ELSE a.current_inferior_id
        b      == BumpCount(Track(a, target, s))
    IN  IF target = b.current_inferior_id THEN Mirror(b, s) ELSE b

InState(x, reason, code) ==
    [execution_state |-> x, stop_reason |-> reason, exit_code |-> code]

MarkInferiorNotStarted(r, id) ==
    UpdateInferiorState(r, id, InState("not_started", None, None))
MarkInferiorRunning(r, id) ==
    UpdateInferiorState(r, id, InState("running", None, None))
MarkInferiorPaused(r, id, reason) ==
    UpdateInferiorState(r, id, InState("paused", reason, None))
MarkInferiorExited(r, id, reason, code) ==
    UpdateInferiorState(r, id, InState("exited", reason, code))

-----------------------------------------------------------------------------
(* Bounded history *)

\* Broken variant for mutation: the oldest items are kept.
TrimHistoryKeepsOldest(items, limit) ==
    SubSeq(items, 1, IF Len(items) > limit THEN limit ELSE Len(items))

\* _trim_history: keep the newest `limit' items; a limit below 1 keeps none.
TrimHistory(items, limit) ==
    SubSeq(items, 1 + (IF Len(items) > limit THEN Len(items) - limit ELSE 0), Len(items))

RecordStopEvent(r, event) ==
    [r EXCEPT !.last_stop_event = event,
              !.stop_history    = TrimHistory(Append(@, event), StopHistoryLimit)]

-----------------------------------------------------------------------------
(* What the methods keep true *)

\* The selected inferior is tracked, and the top-level execution fields show
\* exactly its record; with no inferior selected they show nothing.
SelectedMirrorsTracked(r) ==
    LET shown == InState(r.execution_state, r.stop_reason, r.exit_code)
    IN  IF r.current_inferior_id = None
        THEN shown = NewInferior
        ELSE /\ r.current_inferior_id \in Tracked(r)
             /\ shown = r.inferior_states[r.current_inferior_id]

\* The reported inventory size covers every tracked inferior.
CountCoversTracked(r) ==
    r.inferior_count = None \/ r.inferior_count >= Cardinality(Tracked(r))
=============================================================================
