------------------------- MODULE ExecutionProofs ----------------------------
(***************************************************************************)
(* The theorems about Execution, for every set of usages and every number  *)
(* of commands: stops enter the history in the order in which they         *)
(* happened, a successful run, continue or step reports its own stop, and, *)
(* in calm usage, the state the session shows is the inferior's and        *)
(* wait_for_stop answers at once only about an inferior that is at rest.   *)
(*                                                                         *)
(* Four invariants, each built on the ones before it:                      *)
(*   TypeInv   the types, and the draft of the operation in progress;      *)
(*   OrderInv  the history, what the operation has read, what is unread    *)
(*             and the run under way are one ascending line of tokens;     *)
(*   OwnInv    results come in the order of their commands, and ^running   *)
(*             is followed by the stop of that run before any older one;   *)
(*   CalmInv   for every point of an operation, where the stop is that put *)
(*             the inferior into the state it is in: already shown, read   *)
(*             by the operation, or ahead in the stream.                   *)
(***************************************************************************)
EXTENDS Execution, RuntimeStateProofs, SequenceTheorems

-----------------------------------------------------------------------------
(* A runtime whose selected inferior is number 1, the only one here *)

\* The session is sound and its selected inferior is number 1.
One(r) == Sound(r) /\ r.current_inferior_id = 1

\* The state a stop leaves the inferior in.
StateAfter(m) == IF m.reason \in ExitReasons THEN "exited" ELSE "paused"

\* What an update of the one inferior does: it is shown in its new state.
LEMMA UpdateOne ==
    ASSUME NEW r, One(r), NEW id \in {1, None}, NEW s \in InferiorRuntimeState
    PROVE  LET q == UpdateInferiorState(r, id, s) IN
           One(q) /\ SameSession(r, q) /\ q.execution_state = s.execution_state
<1> DEFINE t == Track(r, 1, s)
           b == BumpCount(t)
           q == UpdateInferiorState(r, id, s)
<1>1. r \in Runtime /\ SelectedMirrorsTracked(r) /\ r.current_inferior_id = 1
  BY DEF One, Sound
<1>2. id \in Ids \cup {None} /\ 1 # None /\ 1 \in Ids
  BY NoneIsNoId
<1>3. ResolveTarget(r, id) = r
  BY <1>1, <1>2 DEF ResolveTarget
<1>4. q = IF 1 = b.current_inferior_id THEN Mirror(b, s) ELSE b
  BY <1>1, <1>2, <1>3 DEF UpdateInferiorState
<1>5. t \in Runtime
  BY <1>1, <1>2, TrackType
<1>6. t.current_inferior_id = 1
  BY <1>1 DEF Track, Runtime
<1> HIDE DEF t
<1>7. b \in Runtime /\ b.current_inferior_id = 1
  BY <1>5, <1>6, BumpCountSound
<1>8. Sound(q) /\ SameSession(r, q)
  BY <1>1, <1>2, UpdateInferiorStateSound
<1> HIDE DEF b, q
<1>9. q.current_inferior_id = 1 /\ InState(q.execution_state, q.stop_reason, q.exit_code) = s
  BY <1>4, <1>7, MirrorType
<1>10. q.execution_state = s.execution_state
  BY <1>9 DEF InState
<1> QED
  BY <1>8, <1>9, <1>10 DEF One, q

\* The marks that this module uses.
LEMMA MarksOne ==
    ASSUME NEW r, One(r), NEW id \in {1, None}, NEW reason \in Reasons \cup {None}
    PROVE  /\ LET q == MarkInferiorNotStarted(r, id) IN
              One(q) /\ SameSession(r, q) /\ q.execution_state = "not_started"
           /\ LET q == MarkInferiorRunning(r, id) IN
              One(q) /\ SameSession(r, q) /\ q.execution_state = "running"
           /\ LET q == MarkInferiorPaused(r, id, reason) IN
              One(q) /\ SameSession(r, q) /\ q.execution_state = "paused"
           /\ LET q == MarkInferiorExited(r, id, reason, None) IN
              One(q) /\ SameSession(r, q) /\ q.execution_state = "exited"
<1>1. \A x \in ExecutionState, y \in Reasons \cup {None} :
         /\ InState(x, y, None) \in InferiorRuntimeState
         /\ InState(x, y, None).execution_state = x
  BY DEF InState, InferiorRuntimeState
<1>2. {"not_started", "running", "paused", "exited"} \subseteq ExecutionState
  BY DEF ExecutionState
<1>3. \A x \in ExecutionState, y \in Reasons \cup {None} :
         LET q == UpdateInferiorState(r, id, InState(x, y, None)) IN
         One(q) /\ SameSession(r, q) /\ q.execution_state = x
  <2> SUFFICES ASSUME NEW x \in ExecutionState, NEW y \in Reasons \cup {None}
               PROVE  LET q == UpdateInferiorState(r, id, InState(x, y, None)) IN
                      One(q) /\ SameSession(r, q) /\ q.execution_state = x
    OBVIOUS
  <2> DEFINE s == InState(x, y, None)
  <2>1. s \in InferiorRuntimeState /\ s.execution_state = x
    BY <1>1
  <2> HIDE DEF s
  <2>2. LET q == UpdateInferiorState(r, id, s) IN
        One(q) /\ SameSession(r, q) /\ q.execution_state = s.execution_state
    BY <2>1, UpdateOne
  <2> QED
    BY <2>1, <2>2 DEF s
<1> QED
  BY <1>2, <1>3
  DEF MarkInferiorNotStarted, MarkInferiorRunning, MarkInferiorPaused, MarkInferiorExited

\* A thread-group notification starts or ends the inferior in the runtime.
LEMMA ApplyGroupOne ==
    ASSUME NEW r, One(r), NEW m
    PROVE  LET q == ApplyGroup(r, m) IN
           /\ One(q) /\ SameSession(r, q)
           /\ q.execution_state =
                CASE m.type = "thread-group-started" -> "running"
                  [] m.type = "thread-group-exited"  -> "exited"
                  [] OTHER                           -> r.execution_state
<1>1. "thread-group-exited" \in Reasons \cup {None}
  BY ExecutionAssumption
<1>2. SameSession(r, r)
  BY DEF SameSession
<1>3. CASE m.type = "thread-group-started"
  BY <1>1, <1>3, MarksOne DEF ApplyGroup
<1>4. CASE m.type = "thread-group-exited"
  BY <1>1, <1>4, MarksOne DEF ApplyGroup
<1>5. CASE m.type \notin {"thread-group-started", "thread-group-exited"}
  BY <1>2, <1>5 DEF ApplyGroup
<1> QED
  BY <1>3, <1>4, <1>5

\* A stop is recorded, and the inferior is shown as it leaves it.
LEMMA ApplyStopOne ==
    ASSUME NEW r, One(r), NEW m \in Stops
    PROVE  LET q == ApplyStop(r, m) IN
           /\ One(q) /\ q.controller = r.controller
           /\ q.execution_state = StateAfter(m)
           /\ q.last_stop_event = m.token
           /\ q.stop_history = TrimHistory(Append(r.stop_history, m.token), StopHistoryLimit)
<1> DEFINE a == IF m.reason \in ExitReasons
                THEN MarkInferiorExited(r, r.current_inferior_id, m.reason, None)
                ELSE MarkInferiorPaused(r, r.current_inferior_id, m.reason)
           q == ApplyStop(r, m)
<1>1. m.reason \in Reasons \cup {None} /\ m.token \in StopEvents
  BY ExecutionAssumption DEF Stops, GdbReasons
<1>2. r.current_inferior_id \in {1, None}
  BY DEF One
<1>3. One(a) /\ SameSession(r, a) /\ a.execution_state = StateAfter(m)
  BY <1>1, <1>2, MarksOne DEF StateAfter
<1>4. q = RecordStopEvent(a, m.token)
  BY DEF ApplyStop
<1> HIDE DEF a, q
<1>5. /\ Sound(q) /\ SameInferiors(a, q) /\ q.controller = a.controller
      /\ q.last_stop_event = m.token
  BY <1>1, <1>3, <1>4, RecordStopEventSound DEF One
<1>6. q.stop_history = TrimHistory(Append(a.stop_history, m.token), StopHistoryLimit)
  BY <1>3, <1>4 DEF RecordStopEvent, One, Sound, Runtime
<1> QED
  BY <1>3, <1>5, <1>6 DEF One, SameInferiors, SameSession, q

\* _update_runtime_after_command: the first stop decides, then ^running.
LEMMA UpdateRuntimeOne ==
    ASSUME NEW r, One(r), NEW stops \in Seq(Stops), NEW class
    PROVE  LET q == UpdateRuntimeAfterCommand(r, stops, class) IN
           /\ One(q) /\ q.controller = r.controller
           /\ IF stops = << >>
              THEN /\ q.stop_history = r.stop_history
                   /\ q.last_stop_event = r.last_stop_event
                   /\ q.execution_state = IF class = "running" THEN "running"
                                                               ELSE r.execution_state
              ELSE /\ stops[1] \in Stops
                   /\ q.stop_history =
                         TrimHistory(Append(r.stop_history, stops[1].token), StopHistoryLimit)
                   /\ q.last_stop_event = stops[1].token
                   /\ q.execution_state = StateAfter(stops[1])
<1> DEFINE q == UpdateRuntimeAfterCommand(r, stops, class)
<1>1. CASE stops # << >>
  <2>1. stops[1] \in Stops /\ Head(stops) = stops[1]
    BY <1>1
  <2>2. q = ApplyStop(r, stops[1])
    BY <1>1, <2>1 DEF UpdateRuntimeAfterCommand
  <2> QED
    BY <1>1, <2>1, <2>2, ApplyStopOne
<1>2. CASE stops = << >> /\ class = "running"
  <2>1. q = MarkInferiorRunning(r, r.current_inferior_id)
    BY <1>2 DEF UpdateRuntimeAfterCommand
  <2>2. r.current_inferior_id \in {1, None}
    BY DEF One
  <2> QED
    BY <1>2, <2>1, <2>2, MarksOne DEF SameSession
<1>3. CASE stops = << >> /\ class # "running"
  BY <1>3 DEF UpdateRuntimeAfterCommand
<1> QED
  BY <1>1, <1>2, <1>3

\* The runtime of a session right after start().
LEMMA StartedOne ==
    LET q == MarkReady(MarkInferiorNotStarted(
                [BeginStartup(InitialRuntime) EXCEPT !.controller = TRUE,
                                                     !.target_loaded = TRUE], None)) IN
    /\ One(q) /\ q.controller /\ q.execution_state = "not_started"
    /\ q.stop_history = << >>
<1> DEFINE s == BeginStartup(InitialRuntime)
           t == [s EXCEPT !.controller = TRUE, !.target_loaded = TRUE]
           n == MarkInferiorNotStarted(t, None)
           q == MarkReady(n)
<1>1. Sound(s) /\ s \in Runtime
  BY InitialSound, BeginStartupSound DEF Sound
<1>2. s.current_inferior_id = None /\ s.stop_history = << >>
  BY DEF BeginStartup, ResetTransient, InitialRuntime
<1> HIDE DEF s
<1>3. t \in Runtime
  BY <1>1, ZenonT(40) DEF Runtime
<1>4. SameInferiors(s, t) /\ t.controller = TRUE /\ t.stop_history = s.stop_history
  BY <1>1 DEF Runtime, SameInferiors
<1>5. Sound(t) /\ t.current_inferior_id = None
  BY <1>1, <1>2, <1>3, <1>4, SameInferiorsSound DEF SameInferiors
<1> HIDE DEF t
<1> DEFINE z == InState("not_started", None, None)
           u == [t EXCEPT !.current_inferior_id = 1]
<1>6. z \in InferiorRuntimeState /\ z.execution_state = "not_started"
  BY DEF InState, InferiorRuntimeState, ExecutionState
<1>7. n = UpdateInferiorState(t, None, z)
  BY DEF MarkInferiorNotStarted
<1> HIDE DEF z
<1>8. Sound(n) /\ SameSession(t, n)
  BY <1>5, <1>6, <1>7, UpdateInferiorStateSound DEF Sound
<1>9. n.current_inferior_id = 1 /\ n.execution_state = "not_started"
  <2>1. u \in Runtime /\ u.current_inferior_id = 1
    BY <1>3, NoneIsNoId DEF Runtime
  <2>2. ResolveTarget(t, None) = u
    BY <1>5 DEF ResolveTarget
  <2> HIDE DEF u
  <2> DEFINE k == Track(u, 1, z)
             b == BumpCount(k)
  <2>3. n = IF 1 = b.current_inferior_id THEN Mirror(b, z) ELSE b
    BY <1>7, <2>1, <2>2 DEF UpdateInferiorState
  <2>4. k \in Runtime
    BY <1>6, <2>1, NoneIsNoId, TrackType
  <2>5. k.current_inferior_id = 1
    BY <2>1 DEF Track, Runtime
  <2> HIDE DEF k
  <2>6. b \in Runtime /\ b.current_inferior_id = 1
    BY <2>4, <2>5, BumpCountSound
  <2> HIDE DEF b, n
  <2>7. /\ n.current_inferior_id = 1
        /\ InState(n.execution_state, n.stop_reason, n.exit_code) = z
    BY <1>6, <2>3, <2>6, MirrorType
  <2> QED
    BY <2>7, <1>6 DEF InState, z
<1> HIDE DEF n
<1>10. n \in Runtime /\ SelectedMirrorsTracked(n)
  BY <1>8 DEF Sound
<1>11. /\ Sound(q) /\ q.controller = n.controller /\ q.stop_history = n.stop_history
  BY <1>10, MarkReadySound
<1>12. q.current_inferior_id = 1 /\ q.execution_state = "not_started"
  <2> DEFINE c == IF n.inferior_count = None THEN 1 ELSE n.inferior_count
             a == [n EXCEPT !.state = "ready", !.is_running = TRUE,
                            !.current_inferior_id = 1, !.inferior_count = c]
             y == SynchronizeSelectedState(a)
             f == IF y.follow_fork_mode = None THEN "parent" ELSE y.follow_fork_mode
             d == IF y.detach_on_fork = None THEN TRUE ELSE y.detach_on_fork
  <2>1. /\ n.current_inferior_id \in Tracked(n)
        /\ n.inferior_states[1].execution_state = "not_started"
    BY <1>9, <1>10, NoneIsNoId DEF SelectedMirrorsTracked, InState
  <2>2. c \in Nat
    BY <1>10, RuntimeFields
  <2> HIDE DEF c
  <2>3. a \in Runtime
    <3> DEFINE v == [n EXCEPT !.state = "ready", !.is_running = TRUE]
    <3>1. v \in Runtime
      BY <1>10, ZenonT(40) DEF Runtime, SessionState
    <3>2. a = [v EXCEPT !.current_inferior_id = 1, !.inferior_count = c]
      BY <1>10, ZenonT(40) DEF Runtime
    <3>3. 1 \in Ids \cup {None} /\ c \in Nat \cup {None}
      BY <2>2, NoneIsNoId
    <3> HIDE DEF v, a
    <3> QED
      BY <3>1, <3>2, <3>3, ZenonT(40) DEF Runtime
  <2>4. a.current_inferior_id = 1 /\ a.inferior_states = n.inferior_states
    BY <1>10 DEF Runtime
  <2>5. q = [y EXCEPT !.follow_fork_mode = f, !.detach_on_fork = d]
    <3>1. 1 \in Tracked(a)
      BY <1>9, <2>1, <2>4 DEF Tracked
    <3>2. a = [n EXCEPT !.state = "ready", !.is_running = TRUE,
                        !.current_inferior_id =
                            IF n.current_inferior_id = None THEN 1 ELSE @,
                        !.inferior_count =
                            IF n.inferior_count = None THEN 1 ELSE @]
      BY <1>9, NoneIsNoId DEF c
    <3> HIDE DEF a, y
    <3> QED
      BY <2>4, <3>1, <3>2 DEF MarkReady, y
  <2> HIDE DEF a
  <2>6. y \in Runtime /\ y.current_inferior_id = 1
    BY <2>3, <2>4, SynchronizeSound DEF Sound
  <2>7. y.execution_state = "not_started"
    <3>1. y = Mirror(a, a.inferior_states[1])
      BY <1>9, <2>1, <2>4, NoneIsNoId DEF SynchronizeSelectedState, Tracked
    <3> QED
      BY <2>1, <2>3, <2>4, <3>1 DEF Mirror, Runtime
  <2> HIDE DEF y, q, f, d
  <2> QED
    BY <2>5, <2>6, <2>7 DEF Runtime
<1> QED
  BY <1>2, <1>4, <1>8, <1>11, <1>12 DEF One, SameSession, s, t, n, q

-----------------------------------------------------------------------------
(* Types, and what an operation in progress keeps of the runtime *)

\* An answer to a command.
IsResult(m) == m.type = "result"

\* While an operation is in progress the runtime waits: the draft of the
\* operation has the same history, and nobody else writes it.
DraftInv ==
    /\ Sound(rt) /\ (rt.controller => One(rt))
    /\ ~Busy => op = Idle
    /\ Busy => /\ rt.controller
               /\ One(op.draft) /\ op.draft.controller
               /\ op.draft.stop_history = rt.stop_history
               /\ op.draft.last_stop_event = rt.last_stop_event
    /\ op.kind \in {"wait", "interrupt"} => op.responses = << >> /\ op.async = << >>

\* The inductive type invariant; a running inferior was resumed by a command.
TypeInv == TypeOK /\ DraftInv /\ (gdb.inferior = "running" => gdb.run # 0)

\* The states GDB's inferior can be in.
GdbStates == {"not_started", "running", "paused", "exited"}

\* The types of TypeOK, named.
GdbType == [alive : BOOLEAN, run : 0..MaxCommands, sigint : BOOLEAN, inferior : GdbStates]

\* The outcomes of operations.
Results == [kind : AllKinds \cup {"idle"}, token : 0..MaxCommands, status : Statuses,
            actual : GdbStates]

\* The names of this module, once and for all.
LEMMA Names ==
    /\ "idle" \notin AllKinds /\ {"wait", "interrupt"} \cap SentKinds = {}
    /\ SentKinds \subseteq AllKinds /\ {"wait", "interrupt"} \subseteq AllKinds
    /\ ExecKinds \subseteq SentKinds /\ {"good", "bad", "call"} \subseteq SentKinds
    /\ MaxCommands \in Nat
    /\ None \notin Classes
BY ExecutionAssumption DEF AllKinds, SentKinds, ExecKinds, Classes

\* No operation is an operation, with a sound draft.
LEMMA IdleType == Idle \in Op /\ Idle.kind = "idle" /\ Sound(Idle.draft)
                  /\ Idle.responses = << >> /\ Idle.async = << >>
<1>1. InitialRuntime \in Runtime /\ Sound(InitialRuntime)
  BY InitialSound DEF Sound
<1> QED
  BY <1>1, Names DEF Idle, Op

\* mark_transport_terminated: the session is over; its history stays.
LEMMA TerminatedSound ==
    ASSUME NEW r, Sound(r)
    PROVE  LET q == MarkTransportTerminated(r) IN
           /\ Sound(q) /\ ~q.controller
           /\ q.stop_history = r.stop_history /\ q.last_stop_event = r.last_stop_event
<1> DEFINE a == [r EXCEPT !.controller = FALSE]
           q == MarkTransportTerminated(r)
<1>1. /\ Sound(a) /\ a.controller = FALSE
      /\ a.last_stop_event = r.last_stop_event /\ a.stop_history = r.stop_history
  BY ControllerSet
<1>2. a \in Runtime /\ q = MarkFailed(a)
  BY <1>1 DEF Sound, MarkTransportTerminated
<1> HIDE DEF a, q
<1> QED
  BY <1>1, <1>2, EndedSound DEF q

\* A return ends the operation.
LEMMA ReturnType ==
    ASSUME TypeOK, NEW o, o.kind \in AllKinds \cup {"idle"}, o.token \in 0..MaxCommands,
           NEW status \in Statuses, Return(o, status)
    PROVE  /\ op' = Idle /\ op' \in Op /\ ~Busy' /\ op'.kind = "idle"
           /\ result' \in Results /\ result'.status = status
           /\ result'.kind = o.kind /\ result'.token = o.token
           /\ result'.actual = gdb.inferior
BY IdleType DEF TypeOK, Return, Busy, Results, GdbStates

\* So does the start of one.
LEMMA NewOpType ==
    ASSUME TypeInv, ~Busy, rt.controller, NEW k \in AllKinds, NEW t \in 0..MaxCommands
    PROVE  LET o == NewOp(k, t) IN
           /\ o \in Op /\ o.kind = k /\ o.token = t /\ o.draft = rt /\ o.class = None
           /\ o.responses = << >> /\ o.async = << >> /\ One(rt)
BY DEF TypeInv, TypeOK, DraftInv, NewOp, Op

\* A step that leaves the runtime alone and ends the operation, if any.
LEMMA QuietReturn ==
    ASSUME TypeInv, NEW o, o.kind \in AllKinds \cup {"idle"}, o.token \in 0..MaxCommands,
           NEW status \in Statuses, Return(o, status),
           Sound(rt'), rt'.controller => One(rt'),
           UNCHANGED <<usage, gdb, stdin, token>>, out' \in Seq(Record)
    PROVE  TypeInv'
<1>1. /\ op' = Idle /\ op' \in Op /\ ~Busy' /\ op'.kind = "idle"
      /\ result' \in Results
  BY ReturnType DEF TypeInv
<1>2. rt' \in Runtime
  BY DEF Sound
<1>3. TypeOK'
  BY <1>1, <1>2 DEF TypeInv, TypeOK, Results, GdbStates
<1>4. DraftInv'
  BY <1>1, IdleType DEF TypeInv, DraftInv, Busy
<1> QED
  BY <1>3, <1>4 DEF TypeInv

\* The start of an operation.
LEMMA BeginType ==
    ASSUME TypeInv, ~Busy, rt.controller, NEW k \in AllKinds, NEW t \in 0..MaxCommands,
           op' = NewOp(k, t), UNCHANGED <<usage, out, rt, result>>,
           gdb' \in GdbType, gdb'.inferior = gdb.inferior, gdb'.run = gdb.run,
           stdin' \in Seq([kind : SentKinds, token : 1..MaxCommands]),
           token' \in 1..(MaxCommands + 1)
    PROVE  TypeInv'
<1>1. /\ op' \in Op /\ op'.kind = k /\ op'.draft = rt
      /\ op'.responses = << >> /\ op'.async = << >> /\ One(rt)
  BY NewOpType
<1>2. TypeOK'
  BY <1>1 DEF TypeInv, TypeOK, GdbType, GdbStates
<1>3. DraftInv'
  BY <1>1, Names DEF TypeInv, DraftInv, Busy
<1> QED
  BY <1>2, <1>3 DEF TypeInv

\* Reading one record: what it does to the operation.
LEMMA SortType ==
    ASSUME TypeInv, Busy, NEW m \in Record
    PROVE  LET o == Sort(op, m) IN
           /\ o \in Op /\ o.kind = op.kind /\ o.token = op.token
           /\ One(o.draft) /\ SameSession(op.draft, o.draft)
           /\ IsResult(m) /\ m.token = op.token =>
                 /\ o.class = m.class /\ o.draft = op.draft
                 /\ o.responses = op.responses /\ o.async = op.async
           /\ IsResult(m) /\ m.token # op.token => o = op
           /\ IsStop(m) /\ op.class = "running" =>
                 /\ o.class = op.class /\ o.draft = op.draft /\ m \in Stops
                 /\ o.responses = Append(op.responses, m) /\ o.async = op.async
           /\ IsStop(m) /\ op.class # "running" =>
                 /\ o.class = op.class /\ o.draft = op.draft /\ m \in Stops
                 /\ o.responses = op.responses /\ o.async = Append(op.async, m)
           /\ ~IsResult(m) /\ ~IsStop(m) =>
                 /\ o.class = op.class /\ o.responses = op.responses /\ o.async = op.async
                 /\ o.draft.execution_state = IF m.type = "thread-group-started"
                                              THEN "running" ELSE "exited"
<1> DEFINE o == Sort(op, m)
<1>1. op \in Op /\ One(op.draft) /\ SameSession(op.draft, op.draft)
  BY DEF TypeInv, TypeOK, DraftInv, SameSession
<1>2. CASE IsResult(m) /\ m.token = op.token
  <2>1. m.class \in Classes
    BY <1>2 DEF IsResult, Record, Stops
  <2> QED
    BY <1>1, <1>2, <2>1 DEF Sort, Op, IsResult, IsStop
<1>3. CASE IsResult(m) /\ m.token # op.token
  <2>1. ApplyGroup(op.draft, m) = op.draft
    BY <1>3 DEF ApplyGroup, IsResult
  <2>2. o = [op EXCEPT !.draft = op.draft]
    BY <1>3, <2>1 DEF Sort, IsResult, IsStop
  <2>3. o = op
    BY <1>1, <2>2 DEF Op
  <2> QED
    BY <1>1, <1>3, <2>3 DEF IsResult, IsStop
<1>4. CASE IsStop(m) /\ op.class = "running"
  <2>1. m \in Stops
    BY <1>4 DEF IsStop, Record
  <2>2. Append(op.responses, m) \in Seq(Stops)
    BY <1>1, <2>1 DEF Op
  <2>3. o = [op EXCEPT !.responses = Append(op.responses, m)]
    BY <1>4 DEF Sort, IsStop
  <2> QED
    BY <1>1, <1>4, <2>1, <2>2, <2>3 DEF Op, IsResult, IsStop
<1>5. CASE IsStop(m) /\ op.class # "running"
  <2>1. m \in Stops
    BY <1>5 DEF IsStop, Record
  <2>2. Append(op.async, m) \in Seq(Stops)
    BY <1>1, <2>1 DEF Op
  <2>3. o = [op EXCEPT !.async = Append(op.async, m)]
    BY <1>5 DEF Sort, IsStop
  <2> QED
    BY <1>1, <1>5, <2>1, <2>2, <2>3 DEF Op, IsResult, IsStop
<1>6. CASE ~IsResult(m) /\ ~IsStop(m)
  <2> DEFINE d == ApplyGroup(op.draft, m)
  <2>1. m.type \in {"thread-group-started", "thread-group-exited"}
    BY <1>6 DEF IsResult, IsStop, Record, Stops
  <2>2. /\ One(d) /\ SameSession(op.draft, d)
        /\ d.execution_state = IF m.type = "thread-group-started" THEN "running" ELSE "exited"
    BY <1>1, <2>1, ApplyGroupOne
  <2>3. o = [op EXCEPT !.draft = d]
    BY <1>6 DEF Sort, IsResult, IsStop
  <2>4. d \in Runtime
    BY <2>2 DEF One, Sound
  <2> HIDE DEF d
  <2> QED
    BY <1>1, <1>6, <2>2, <2>3, <2>4 DEF Op
<1> QED
  BY <1>2, <1>3, <1>4, <1>5, <1>6

\* The same for the loop that waits for a stop.
LEMMA SortWaitingType ==
    ASSUME TypeInv, Busy, NEW m \in Record, ~IsStop(m)
    PROVE  LET o == SortWaiting(op, m) IN
           /\ o \in Op /\ o.kind = op.kind /\ o.token = op.token
           /\ One(o.draft) /\ SameSession(op.draft, o.draft)
           /\ o.responses = op.responses /\ o.async = op.async
           /\ IsResult(m) => o.class = m.class /\ o.draft = op.draft
           /\ ~IsResult(m) => o.class = op.class
<1> DEFINE o == SortWaiting(op, m)
<1>1. op \in Op /\ One(op.draft) /\ SameSession(op.draft, op.draft)
  BY DEF TypeInv, TypeOK, DraftInv, SameSession
<1>2. CASE IsResult(m)
  <2>1. m.class \in Classes
    BY <1>2 DEF IsResult, Record, Stops
  <2> QED
    BY <1>1, <1>2, <2>1 DEF SortWaiting, Op, IsResult
<1>3. CASE ~IsResult(m)
  <2> DEFINE d == ApplyGroup(op.draft, m)
  <2>1. One(d) /\ SameSession(op.draft, d)
    BY <1>1, ApplyGroupOne
  <2>2. o = [op EXCEPT !.draft = d]
    BY <1>3 DEF SortWaiting, IsResult
  <2>3. d \in Runtime
    BY <2>1 DEF One, Sound
  <2> HIDE DEF d
  <2> QED
    BY <1>1, <1>3, <2>1, <2>2, <2>3 DEF Op
<1> QED
  BY <1>2, <1>3

\* Reading keeps the types.
LEMMA ReadType ==
    ASSUME TypeInv, Busy, NEW o \in Op, op' = o, o.kind = op.kind, One(o.draft),
           SameSession(op.draft, o.draft), out' \in Seq(Record),
           o.kind \in {"wait", "interrupt"} =>
              o.responses = op.responses /\ o.async = op.async,
           UNCHANGED <<usage, gdb, stdin, token, rt, result>>
    PROVE  TypeInv'
<1>1. TypeOK'
  BY DEF TypeInv, TypeOK
<1>2. DraftInv'
  BY DEF TypeInv, DraftInv, Busy, SameSession
<1> QED
  BY <1>1, <1>2 DEF TypeInv

-----------------------------------------------------------------------------
(* Streams of records: what is read leaves a suffix, what is written extends *)

\* p is q without its first k elements.
Suffix(p, q, k) ==
    /\ Len(q) = Len(p) + k
    /\ DOMAIN p = 1..Len(p) /\ DOMAIN q = 1..Len(q)
    /\ \A i \in DOMAIN p : i + k \in DOMAIN q /\ p[i] = q[i + k]

\* p is q with a at its end.
Extension(p, q, a) ==
    /\ Len(p) = Len(q) + 1
    /\ DOMAIN q = 1..Len(q) /\ DOMAIN p = 1..Len(p)
    /\ p[Len(p)] = a
    /\ \A i \in DOMAIN q : i \in DOMAIN p /\ p[i] = q[i]
    /\ \A i \in DOMAIN p : i \in DOMAIN q \/ i = Len(p)

\* Reading one record leaves a suffix.
LEMMA TailIsSuffix ==
    ASSUME NEW S, NEW q \in Seq(S), q # << >>
    PROVE  /\ Tail(q) \in Seq(S) /\ Suffix(Tail(q), q, 1)
           /\ Head(q) = q[1] /\ 1 \in DOMAIN q /\ Head(q) \in S
           /\ Len(q) \in Nat /\ Len(q) >= 1 /\ Len(Tail(q)) \in Nat
<1>1. /\ Len(q) \in Nat /\ Len(q) >= 1 /\ DOMAIN q = 1..Len(q)
      /\ Head(q) = q[1] /\ Head(q) \in S
  OBVIOUS
<1> DEFINE p == Tail(q)
<1>2. p \in Seq(S) /\ Len(p) = Len(q) - 1 /\ DOMAIN p = 1..(Len(q) - 1)
  OBVIOUS
<1>3. \A i \in 1..(Len(q) - 1) : p[i] = q[i + 1]
  OBVIOUS
<1> HIDE DEF p
<1>4. Suffix(p, q, 1)
  BY <1>1, <1>2, <1>3 DEF Suffix
<1> QED
  BY <1>1, <1>2, <1>4 DEF p

\* So does reading the first k.
LEMMA RestIsSuffix ==
    ASSUME NEW S, NEW q \in Seq(S), NEW k \in 1..Len(q)
    PROVE  LET p == SubSeq(q, k + 1, Len(q)) IN p \in Seq(S) /\ Suffix(p, q, k)
<1> DEFINE n == k + 1
           p == SubSeq(q, n, Len(q))
<1>1. /\ Len(q) \in Int /\ DOMAIN q = 1..Len(q) /\ n \in Int /\ k <= Len(q) /\ n = k + 1
      /\ k \in Nat /\ Len(q) \in Nat /\ \A i \in n..Len(q) : q[i] \in S
  OBVIOUS
<1> HIDE DEF n
<1>2. /\ p \in Seq(S) /\ Len(p) = (IF n <= Len(q) THEN Len(q) - n + 1 ELSE 0)
      /\ \A i \in 1..(Len(q) - n + 1) : p[i] = q[n + i - 1]
  BY <1>1, SubSeqProperties
<1> HIDE DEF p
<1>3. Len(p) = Len(q) - k /\ DOMAIN p = 1..(Len(q) - k)
  <2> DEFINE l == Len(q)
             z == Len(p)
  <2>1. /\ l \in Nat /\ k \in Nat /\ n = k + 1 /\ k <= l
        /\ (n <= l => z = l - n + 1) /\ (~(n <= l) => z = 0)
    BY <1>1, <1>2
  <2>2. DOMAIN p = 1..z
    BY <1>2
  <2> HIDE DEF l, z
  <2>3. z = l - k
    BY <2>1
  <2> QED
    BY <2>2, <2>3 DEF l, z
<1>4. \A i \in 1..(Len(q) - k) : i + k \in 1..Len(q) /\ p[i] = q[i + k]
  <2> SUFFICES ASSUME NEW i \in 1..(Len(q) - k) PROVE i + k \in 1..Len(q) /\ p[i] = q[i + k]
    OBVIOUS
  <2>1. n + i - 1 = i + k /\ i \in 1..(Len(q) - n + 1) /\ i + k \in 1..Len(q)
    BY <1>1
  <2> QED
    BY <1>2, <2>1
<1>5. Suffix(p, q, k)
  BY <1>1, <1>3, <1>4 DEF Suffix
<1> QED
  BY <1>2, <1>5 DEF p, n

\* Writing one record extends the stream.
LEMMA AppendExtends ==
    ASSUME NEW S, NEW q \in Seq(S), NEW a \in S
    PROVE  Append(q, a) \in Seq(S) /\ Extension(Append(q, a), q, a)
<1> DEFINE p == Append(q, a)
<1>1. Len(q) \in Nat /\ DOMAIN q = 1..Len(q)
  OBVIOUS
<1>2. p \in Seq(S) /\ Len(p) = Len(q) + 1 /\ p[Len(q) + 1] = a /\ DOMAIN p = 1..(Len(q) + 1)
  BY <1>1
<1>3. \A i \in 1..Len(q) : p[i] = q[i]
  BY <1>1
<1> HIDE DEF p
<1>4. Extension(p, q, a)
  BY <1>1, <1>2, <1>3 DEF Extension
<1> QED
  BY <1>2, <1>4 DEF p

\* One record written, with or without a group notification before it.
LEMMA WriteExtends ==
    ASSUME NEW S, NEW q \in Seq(S), NEW a \in S, NEW g \in S
    PROVE  /\ q \o << >> \o <<a>> = Append(q, a)
           /\ q \o <<g>> \o <<a>> = Append(Append(q, g), a)
<1>1. \A s \in Seq(S), e \in S : s \o <<e>> = Append(s, e)
  OBVIOUS
<1>2. q \o << >> = q
  OBVIOUS
<1>3. Append(q, g) \in Seq(S)
  OBVIOUS
<1> QED
  BY <1>1, <1>2, <1>3

\* An empty stream has no record.
LEMMA EmptyStream ==
    ASSUME NEW S, NEW q \in Seq(S)
    PROVE  /\ q = << >> <=> Len(q) = 0
           /\ q = << >> => DOMAIN q = {}
           /\ Len(q) \in Nat /\ DOMAIN q = 1..Len(q)
           /\ \A i \in DOMAIN q : q[i] \in S /\ i \in Nat /\ 1 <= i /\ i <= Len(q)
OBVIOUS

\* The first stop a command has read.
LEMMA FirstNotification ==
    ASSUME TypeInv
    PROVE  LET s == Notifications(op) IN
           /\ s \in Seq(Stops) /\ op.responses \in Seq(Stops) /\ op.async \in Seq(Stops)
           /\ s = << >> <=> op.responses = << >> /\ op.async = << >>
           /\ s # << >> => s[1] = IF op.responses # << >> THEN op.responses[1] ELSE op.async[1]
<1> DEFINE a == op.responses
           b == op.async
           s == a \o b
<1>1. a \in Seq(Stops) /\ b \in Seq(Stops)
  BY DEF TypeInv, TypeOK, Op
<1> HIDE DEF a, b
<1>2. s \in Seq(Stops) /\ Len(s) = Len(a) + Len(b)
  BY <1>1
<1>3. a # << >> => Len(a) >= 1 /\ s[1] = a[1]
  BY <1>1
<1>4. a = << >> => s = b
  BY <1>1
<1>5. a # << >> => s # << >>
  BY <1>1, <1>2, <1>3, EmptyStream
<1> QED
  BY <1>1, <1>2, <1>3, <1>4, <1>5 DEF Notifications, a, b

-----------------------------------------------------------------------------
(* The type invariant is inductive *)

\* What an operation records when it ends.
Unrecorded ==
    rt'.stop_history = rt.stop_history /\ rt'.last_stop_event = rt.last_stop_event

\* The stop t has been recorded.
Recorded(t) ==
    /\ rt'.stop_history = TrimHistory(Append(rt.stop_history, t), StopHistoryLimit)
    /\ rt'.last_stop_event = t

\* The runtime after the end of an operation that has read `stops'.
LEMMA EndUpdates ==
    ASSUME TypeInv, Busy, NEW stops \in Seq(Stops),
           rt' = UpdateRuntimeAfterCommand(op.draft, stops, op.class)
    PROVE  /\ One(rt') /\ rt'.controller
           /\ IF stops = << >>
              THEN /\ Unrecorded
                   /\ rt'.execution_state = IF op.class = "running" THEN "running"
                                            ELSE op.draft.execution_state
              ELSE /\ stops[1] \in Stops
                   /\ Recorded(stops[1].token)
                   /\ rt'.execution_state = StateAfter(stops[1])
<1>1. /\ One(op.draft) /\ op.draft.controller
      /\ op.draft.stop_history = rt.stop_history
      /\ op.draft.last_stop_event = rt.last_stop_event
  BY DEF TypeInv, DraftInv
<1> QED
  BY <1>1, UpdateRuntimeOne DEF Unrecorded, Recorded

\* A new session is well typed.
LEMMA TypeInit == Init => TypeInv
<1> SUFFICES ASSUME Init PROVE TypeInv
  OBVIOUS
<1>1. One(rt) /\ rt.controller /\ rt \in Runtime /\ Sound(rt)
  BY StartedOne DEF Init, One, Sound
<1>2. TypeOK
  BY <1>1, IdleType, Names DEF Init, TypeOK, Statuses
<1>3. DraftInv
  BY <1>1, IdleType DEF Init, DraftInv, Busy
<1> QED
  BY <1>2, <1>3 DEF TypeInv, Init

\* GDB takes a command from its input and answers.
LEMMA ExecuteFacts ==
    ASSUME TypeInv, GdbExecute
    PROVE  LET c == Head(stdin)
               resumes == \/ c.kind = "run"
                          \/ c.kind \in {"continue", "step"} /\ gdb.inferior = "paused"
               class == IF resumes THEN "running"
                        ELSE IF c.kind \in {"good", "call"} THEN "done" ELSE "error"
               a == Result(c.token, class)
           IN  /\ c \in [kind : SentKinds, token : 1..MaxCommands]
               /\ gdb.alive /\ gdb.inferior # "running" /\ stdin # << >> /\ stdin' = Tail(stdin)
               /\ a \in Record /\ class \in Classes
               /\ IF c.kind = "run"
                  THEN out' = Append(Append(out, Group("thread-group-started")), a)
                  ELSE out' = Append(out, a)
               /\ out' \in Seq(Record)
               /\ gdb' \in GdbType
               /\ gdb'.alive
               /\ resumes => gdb'.inferior = "running" /\ gdb'.run = c.token
               /\ ~resumes => gdb' = gdb
<1> DEFINE c == Head(stdin)
           resumes == \/ c.kind = "run"
                      \/ c.kind \in {"continue", "step"} /\ gdb.inferior = "paused"
           class == IF resumes THEN "running"
                    ELSE IF c.kind \in {"good", "call"} THEN "done" ELSE "error"
           a == Result(c.token, class)
           g == Group("thread-group-started")
<1>1. c \in [kind : SentKinds, token : 1..MaxCommands]
  BY TailIsSuffix DEF TypeInv, TypeOK, GdbExecute
<1>2. class \in Classes
  BY DEF Classes
<1>3. /\ gdb.alive /\ gdb.inferior # "running" /\ stdin # << >> /\ stdin' = Tail(stdin)
      /\ out' = out \o (IF c.kind = "run" THEN <<g>> ELSE << >>) \o <<a>>
      /\ gdb' = IF resumes THEN [gdb EXCEPT !.inferior = "running", !.run = c.token] ELSE gdb
  BY DEF GdbExecute
<1>4. a \in Record /\ g \in Record
  <2> HIDE DEF c, class
  <2> QED
    BY <1>1, <1>2 DEF Result, Group, Record
<1> HIDE DEF c, class, a, g, resumes
<1>5. out \in Seq(Record)
  BY DEF TypeInv, TypeOK
<1>6. /\ IF c.kind = "run" THEN out' = Append(Append(out, g), a) ELSE out' = Append(out, a)
      /\ out' \in Seq(Record)
  <2>1. Append(out, g) \in Seq(Record)
    BY <1>4, <1>5, AppendExtends
  <2>2. Append(out, a) \in Seq(Record) /\ Append(Append(out, g), a) \in Seq(Record)
    BY <1>4, <1>5, <2>1, AppendExtends
  <2>3. CASE c.kind = "run"
    <3>1. out' = out \o <<g>> \o <<a>>
      BY <1>3, <2>3
    <3>2. out \o <<g>> \o <<a>> = Append(Append(out, g), a)
      BY <1>4, <1>5, WriteExtends
    <3> QED
      BY <2>2, <2>3, <3>1, <3>2
  <2>4. CASE c.kind # "run"
    <3>1. out' = out \o << >> \o <<a>>
      BY <1>3, <2>4
    <3> QED
      BY <1>4, <1>5, <2>2, <2>4, <3>1, WriteExtends
  <2> QED
    BY <2>3, <2>4
<1>7. /\ gdb' \in GdbType /\ gdb'.alive
      /\ resumes => gdb'.inferior = "running" /\ gdb'.run = c.token
      /\ ~resumes => gdb' = gdb
  <2>1. gdb \in GdbType /\ gdb.alive
    BY <1>3 DEF TypeInv, TypeOK, GdbType, GdbStates
  <2>2. CASE ~resumes
    BY <1>3, <2>1, <2>2
  <2>3. CASE resumes
    <3>1. gdb' = [gdb EXCEPT !.inferior = "running", !.run = c.token]
      BY <1>3, <2>3
    <3>2. c.token \in 0..MaxCommands
      BY <1>1, Names
    <3>3. gdb' \in GdbType
      BY <2>1, <3>1, <3>2 DEF GdbType, GdbStates
    <3>4. gdb'.alive = gdb.alive /\ gdb'.inferior = "running" /\ gdb'.run = c.token
      BY <2>1, <3>1 DEF GdbType
    <3> QED
      BY <2>1, <2>3, <3>3, <3>4
  <2> QED
    BY <2>2, <2>3
<1> QED
  BY <1>1, <1>2, <1>3, <1>4, <1>6, <1>7 DEF c, class, a, g, resumes

\* The inferior stops or exits.
LEMMA StopsFacts ==
    ASSUME TypeInv, NEW reason \in GdbReasons, InferiorStops(reason)
    PROVE  LET a == Stop(gdb.run, reason) IN
           /\ gdb.alive /\ gdb.inferior = "running"
           /\ a \in Stops /\ a \in Record /\ out' \in Seq(Record)
           /\ IsStop(a) /\ a.token = gdb.run /\ a.reason = reason
           /\ IF reason \in ExitReasons
              THEN out' = Append(Append(out, Group("thread-group-exited")), a)
              ELSE out' = Append(out, a)
           /\ reason \in ExitReasons => usage.exits
           /\ gdb' \in GdbType
           /\ gdb'.alive /\ gdb'.run = gdb.run /\ gdb'.inferior = StateAfter(a)
<1> DEFINE a == Stop(gdb.run, reason)
           g == Group("thread-group-exited")
<1>1. IsStop(a) /\ a.token = gdb.run /\ a.reason = reason
  BY DEF Stop, IsStop
<1>0. gdb.alive /\ gdb.inferior = "running" /\ (reason \in ExitReasons => usage.exits)
  BY DEF InferiorStops
<1>2. a \in Stops /\ a \in Record /\ g \in Record
  <2>1. gdb.run \in 1..MaxCommands
    BY <1>0, Names DEF TypeInv, TypeOK
  <2> QED
    BY <2>1 DEF Stop, Stops, Record, Group
<1>3. /\ gdb' = [gdb EXCEPT !.inferior = IF reason \in ExitReasons THEN "exited" ELSE "paused",
                            !.sigint = FALSE]
      /\ out' = out \o (IF reason \in ExitReasons THEN <<g>> ELSE << >>) \o <<a>>
  BY DEF InferiorStops
<1> HIDE DEF a, g
<1>4. /\ gdb' \in GdbType
      /\ gdb'.alive /\ gdb'.run = gdb.run /\ gdb'.inferior = StateAfter(a)
  <2>1. gdb \in GdbType /\ gdb.alive
    BY <1>0 DEF TypeInv, TypeOK, GdbType, GdbStates
  <2>2. gdb' \in GdbType
    BY <1>3, <2>1 DEF GdbType, GdbStates
  <2>3. /\ gdb'.alive = gdb.alive /\ gdb'.run = gdb.run
        /\ gdb'.inferior = IF reason \in ExitReasons THEN "exited" ELSE "paused"
    BY <1>3, <2>1 DEF GdbType, GdbStates
  <2> QED
    BY <1>1, <2>1, <2>2, <2>3 DEF StateAfter
<1>5. /\ IF reason \in ExitReasons THEN out' = Append(Append(out, g), a)
                                    ELSE out' = Append(out, a)
      /\ out' \in Seq(Record)
  <2>1. out \in Seq(Record)
    BY DEF TypeInv, TypeOK
  <2>2. Append(out, g) \in Seq(Record)
    BY <1>2, <2>1, AppendExtends
  <2>3. Append(out, a) \in Seq(Record) /\ Append(Append(out, g), a) \in Seq(Record)
    BY <1>2, <2>1, <2>2, AppendExtends
  <2>4. CASE reason \in ExitReasons
    <3>1. out' = out \o <<g>> \o <<a>>
      BY <1>3, <2>4
    <3>2. out \o <<g>> \o <<a>> = Append(Append(out, g), a)
      BY <1>2, <2>1, WriteExtends
    <3> QED
      BY <2>3, <2>4, <3>1, <3>2
  <2>5. CASE reason \notin ExitReasons
    <3>1. out' = out \o << >> \o <<a>>
      BY <1>3, <2>5
    <3> QED
      BY <1>2, <2>1, <2>3, <2>5, <3>1, WriteExtends
  <2> QED
    BY <2>4, <2>5
<1> QED
  BY <1>0, <1>1, <1>2, <1>3, <1>4, <1>5 DEF a, g

\* The end of an operation, as the other invariants see it: a suffix of the
\* stream is left, and at most one stop is recorded.
LEMMA ReturnFacts ==
    ASSUME TypeInv
    PROVE  /\ op.kind \in AllKinds \cup {"idle"} /\ op.token \in 0..MaxCommands
           /\ Statuses = {"none", "success", "running", "timeout", "error", "fatal",
                          "refused", "existing", "warning"}
           /\ \A k \in AllKinds : NewOp(k, 0).kind = k /\ NewOp(k, 0).token = 0
           /\ out \in Seq(Record) /\ Sound(rt) /\ (rt.controller => One(rt))
           /\ 0 \in 0..MaxCommands
BY Names DEF TypeInv, TypeOK, DraftInv, Op, NewOp, Statuses

\* StopRead: the first stop is applied, and for interrupt the pause after it.
LEMMA StopReadFacts ==
    ASSUME TypeInv, StopRead
    PROVE  LET m == out[1] IN
           /\ Head(out) = m /\ m \in Stops /\ IsStop(m) /\ 1 \in DOMAIN out
           /\ One(rt') /\ rt'.controller /\ Recorded(m.token)
           /\ rt'.execution_state = IF op.kind = "interrupt" THEN "paused" ELSE StateAfter(m)
           /\ \E k \in 1..Len(out) : out' \in Seq(Record) /\ Suffix(out', out, k)
<1> DEFINE m == out[1]
           s == <<m>>
           a == UpdateRuntimeAfterCommand(op.draft, s, op.class)
<1>1. out \in Seq(Record) /\ out # << >> /\ Busy
  BY DEF TypeInv, TypeOK, StopRead
<1>2. Head(out) = m /\ m \in Record /\ 1 \in DOMAIN out
  BY <1>1, TailIsSuffix
<1>3. IsStop(m) /\ m \in Stops
  <2>1. IsStop(m)
    BY <1>2 DEF StopRead
  <2> QED
    BY <1>2, <2>1 DEF Record, IsStop
<1>4. rt' = IF op.kind = "interrupt" THEN MarkInferiorPaused(a, None, m.reason) ELSE a
  BY <1>2 DEF StopRead
<1> HIDE DEF m
<1>5. s \in Seq(Stops) /\ s # << >> /\ s[1] = m
  BY <1>3
<1> HIDE DEF s
<1>6. /\ One(op.draft) /\ op.draft.controller
      /\ op.draft.stop_history = rt.stop_history
      /\ op.draft.last_stop_event = rt.last_stop_event
  BY <1>1 DEF TypeInv, DraftInv
<1>7. /\ One(a) /\ a.controller
      /\ a.stop_history = TrimHistory(Append(rt.stop_history, m.token), StopHistoryLimit)
      /\ a.last_stop_event = m.token /\ a.execution_state = StateAfter(m)
  BY <1>5, <1>6, UpdateRuntimeOne
<1> HIDE DEF a
<1>8. m.reason \in Reasons \cup {None}
  BY <1>3 DEF Stops, GdbReasons
<1>9. /\ One(rt') /\ rt'.controller /\ Recorded(m.token)
      /\ rt'.execution_state = IF op.kind = "interrupt" THEN "paused" ELSE StateAfter(m)
  <2>1. CASE op.kind = "interrupt"
    <3>1. LET q == MarkInferiorPaused(a, None, m.reason) IN
          One(q) /\ SameSession(a, q) /\ q.execution_state = "paused"
      BY <1>7, <1>8, MarksOne
    <3> QED
      BY <1>4, <1>7, <2>1, <3>1 DEF SameSession, Recorded
  <2>2. CASE op.kind # "interrupt"
    BY <1>4, <1>7, <2>2 DEF Recorded
  <2> QED
    BY <2>1, <2>2
<1>10. PICK k \in 1..Len(out) : out' = SubSeq(out, k + 1, Len(out))
  BY DEF StopRead
<1>11. out' \in Seq(Record) /\ Suffix(out', out, k)
  BY <1>1, <1>10, RestIsSuffix
<1> QED
  BY <1>2, <1>3, <1>9, <1>11 DEF m

\* WaitTimesOut: no stop; interrupt then marks the inferior as running.
LEMMA WaitTimesOutFacts ==
    ASSUME TypeInv, WaitTimesOut
    PROVE  /\ One(rt') /\ rt'.controller /\ Unrecorded
           /\ op.kind = "interrupt" => rt'.execution_state = "running"
           /\ op.class # "running" /\ op.kind # "interrupt" =>
                 rt'.execution_state = op.draft.execution_state
<1> DEFINE a == UpdateRuntimeAfterCommand(op.draft, << >>, op.class)
<1>1. /\ One(op.draft) /\ op.draft.controller
      /\ op.draft.stop_history = rt.stop_history
      /\ op.draft.last_stop_event = rt.last_stop_event
  BY DEF TypeInv, DraftInv, WaitTimesOut
<1>2. rt' = IF op.kind = "interrupt" THEN MarkInferiorRunning(a, None) ELSE a
  BY DEF WaitTimesOut
<1>3. << >> \in Seq(Stops)
  OBVIOUS
<1>4. /\ One(a) /\ a.controller /\ a.stop_history = rt.stop_history
      /\ a.last_stop_event = rt.last_stop_event
      /\ op.class # "running" => a.execution_state = op.draft.execution_state
  BY <1>1, <1>3, UpdateRuntimeOne
<1> HIDE DEF a
<1>5. CASE op.kind = "interrupt"
  <2>1. LET q == MarkInferiorRunning(a, None) IN
        One(q) /\ SameSession(a, q) /\ q.execution_state = "running"
    BY <1>4, MarksOne
  <2> QED
    BY <1>2, <1>4, <1>5, <2>1 DEF SameSession, Unrecorded
<1>6. CASE op.kind # "interrupt"
  BY <1>2, <1>4, <1>6 DEF Unrecorded
<1> QED
  BY <1>5, <1>6

\* call_function applies its own responses to the runtime itself.
LEMMA CallFacts ==
    ASSUME TypeInv, CallReturns
    PROVE  /\ One(rt') /\ rt'.controller
           /\ IF op.responses = << >>
              THEN /\ Unrecorded
                   /\ rt'.execution_state = IF op.class = "running" THEN "running"
                                                                   ELSE rt.execution_state
              ELSE /\ op.responses[1] \in Stops
                   /\ Recorded(op.responses[1].token)
<1>1. One(rt) /\ rt.controller /\ op.responses \in Seq(Stops)
  BY DEF TypeInv, TypeOK, DraftInv, CallReturns, Op
<1>2. rt' = UpdateRuntimeAfterCommand(rt, op.responses, op.class)
  BY DEF CallReturns
<1> QED
  BY <1>1, <1>2, UpdateRuntimeOne DEF Unrecorded, Recorded

\* The end of any other command.
LEMMA CommandFacts ==
    ASSUME TypeInv, Busy,
           rt' = UpdateRuntimeAfterCommand(op.draft, Notifications(op), op.class)
    PROVE  LET m == IF op.responses # << >> THEN op.responses[1] ELSE op.async[1] IN
           /\ One(rt') /\ rt'.controller
           /\ IF op.responses = << >> /\ op.async = << >>
              THEN /\ Unrecorded
                   /\ rt'.execution_state = IF op.class = "running" THEN "running"
                                            ELSE op.draft.execution_state
              ELSE m \in Stops /\ Recorded(m.token) /\ rt'.execution_state = StateAfter(m)
<1> DEFINE s == Notifications(op)
<1>1. s \in Seq(Stops)
  BY FirstNotification
<1>2. /\ s = << >> <=> op.responses = << >> /\ op.async = << >>
      /\ s # << >> => s[1] = IF op.responses # << >> THEN op.responses[1] ELSE op.async[1]
  BY FirstNotification
<1> HIDE DEF s
<1>3. rt' = UpdateRuntimeAfterCommand(op.draft, s, op.class)
  BY DEF s
<1> QED
  BY <1>1, <1>2, <1>3, EndUpdates

\* The steps of GDB keep the types.
LEMMA TypeGdb ==
    ASSUME TypeInv, Gdb, UNCHANGED usage
    PROVE  TypeInv'
<1>1. CASE GdbExecute
  <2> DEFINE c == Head(stdin)
  <2>1. /\ stdin \in Seq([kind : SentKinds, token : 1..MaxCommands]) /\ stdin # << >>
        /\ c \in [kind : SentKinds, token : 1..MaxCommands]
        /\ stdin' = Tail(stdin) /\ out' \in Seq(Record) /\ gdb' \in GdbType
        /\ gdb'.run = c.token \/ gdb' = gdb
    BY <1>1, ExecuteFacts DEF TypeInv, TypeOK
  <2>2. stdin' \in Seq([kind : SentKinds, token : 1..MaxCommands])
    BY <2>1, TailIsSuffix
  <2>3. gdb'.inferior = "running" => gdb'.run # 0
    <3> HIDE DEF c
    <3> QED
      BY <2>1 DEF TypeInv
  <2>4. UNCHANGED <<token, rt, op, result>>
    BY <1>1 DEF GdbExecute
  <2> QED
    BY <2>1, <2>2, <2>3, <2>4 DEF TypeInv, TypeOK, DraftInv, Busy, GdbType, GdbStates
<1>2. ASSUME NEW reason \in GdbReasons, InferiorStops(reason) PROVE TypeInv'
  <2>1. /\ out' \in Seq(Record) /\ gdb' \in GdbType
        /\ gdb'.inferior = "paused" \/ gdb'.inferior = "exited"
    BY <1>2, StopsFacts DEF StateAfter
  <2>2. UNCHANGED <<stdin, token, rt, op, result>>
    BY <1>2 DEF InferiorStops
  <2> QED
    BY <2>1, <2>2 DEF TypeInv, TypeOK, DraftInv, Busy, GdbType, GdbStates
<1>3. CASE GdbDies
  <2>1. gdb' = [gdb EXCEPT !.alive = FALSE] /\ gdb \in GdbType
    BY <1>3 DEF GdbDies, TypeInv, TypeOK, GdbType, GdbStates
  <2>2. gdb' \in GdbType /\ gdb'.inferior = gdb.inferior /\ gdb'.run = gdb.run
    BY <2>1 DEF GdbType
  <2>3. UNCHANGED <<stdin, out, token, rt, op, result>>
    BY <1>3 DEF GdbDies
  <2> QED
    BY <2>2, <2>3 DEF TypeInv, TypeOK, DraftInv, Busy, GdbType, GdbStates
<1> QED
  BY <1>1, <1>2, <1>3 DEF Gdb

\* The steps of the client keep the types.
LEMMA TypeClient ==
    ASSUME TypeInv, Client, UNCHANGED usage
    PROVE  TypeInv'
<1>0. /\ op.kind \in AllKinds \cup {"idle"} /\ op.token \in 0..MaxCommands
      /\ Statuses = {"none", "success", "running", "timeout", "error", "fatal",
                     "refused", "existing", "warning"}
      /\ \A k \in AllKinds : NewOp(k, 0).kind = k /\ NewOp(k, 0).token = 0
      /\ out \in Seq(Record) /\ Sound(rt) /\ (rt.controller => One(rt))
      /\ 0 \in 0..MaxCommands
  BY ReturnFacts
<1> DEFINE Same == UNCHANGED <<gdb, stdin, out, token>>
<1>1. ASSUME NEW k \in AllKinds, FoundDead(k) PROVE TypeInv'
  <2>1. rt' = MarkTransportTerminated(rt) /\ Same /\ Return(NewOp(k, 0), "error")
    BY <1>1 DEF FoundDead
  <2>2. Sound(rt') /\ ~rt'.controller
    BY <1>0, <2>1, TerminatedSound
  <2> QED
    BY <1>0, <2>1, <2>2, QuietReturn
<1>2. ASSUME NEW k \in AllKinds, SendCommand(k) PROVE TypeInv'
  <2> DEFINE C == [kind : SentKinds, token : 1..MaxCommands]
  <2>1. /\ ~Busy /\ rt.controller /\ k \in SentKinds /\ token <= usage.commands
        /\ stdin' = Append(stdin, [kind |-> k, token |-> token]) /\ token' = token + 1
        /\ op' = NewOp(k, token) /\ UNCHANGED <<gdb, out, rt, result>>
    BY <1>2 DEF SendCommand
  <2>2. usage.commands \in 1..MaxCommands /\ token \in 1..(MaxCommands + 1)
    BY ExecutionAssumption DEF TypeInv, TypeOK, Usage
  <2>3. token \in 1..MaxCommands /\ token' \in 1..(MaxCommands + 1) /\ token \in 0..MaxCommands
    BY <2>1, <2>2, Names
  <2>4. stdin \in Seq(C) /\ [kind |-> k, token |-> token] \in C
    BY <2>1, <2>3 DEF TypeInv, TypeOK
  <2>5. stdin' \in Seq(C)
    BY <2>1, <2>4, AppendExtends
  <2>6. gdb' \in GdbType /\ gdb' = gdb
    BY <2>1 DEF TypeInv, TypeOK, GdbType, GdbStates
  <2> QED
    BY <2>1, <2>3, <2>5, <2>6, BeginType
<1>3. CASE ContinueRefused
  <2>1. rt' = rt /\ Same /\ Return(NewOp("continue", 0), "refused") /\ "continue" \in AllKinds
    BY <1>3 DEF ContinueRefused, AllKinds, SentKinds, ExecKinds
  <2> QED
    BY <1>0, <2>1, QuietReturn
<1>4. CASE WaitExisting
  <2>1. rt' = rt /\ Same /\ Return(NewOp("wait", 0), "existing") /\ "wait" \in AllKinds
    BY <1>4 DEF WaitExisting, AllKinds
  <2> QED
    BY <1>0, <2>1, QuietReturn
<1>5. CASE WaitForStop
  <2>1. /\ op' = NewOp("wait", 0) /\ "wait" \in AllKinds /\ ~Busy /\ rt.controller
        /\ Same /\ UNCHANGED <<rt, result>>
    BY <1>5 DEF WaitForStop, AllKinds
  <2>2. /\ gdb' \in GdbType /\ gdb' = gdb /\ token' \in 1..(MaxCommands + 1)
        /\ stdin' \in Seq([kind : SentKinds, token : 1..MaxCommands])
    BY <2>1 DEF TypeInv, TypeOK, GdbType, GdbStates
  <2> QED
    BY <1>0, <2>1, <2>2, BeginType
<1>6. CASE Interrupt
  <2>1. /\ op' = NewOp("interrupt", 0) /\ "interrupt" \in AllKinds /\ ~Busy /\ rt.controller
        /\ gdb' = [gdb EXCEPT !.sigint = (gdb.inferior = "running")]
        /\ UNCHANGED <<stdin, out, token, rt, result>>
    BY <1>6 DEF Interrupt, AllKinds
  <2>2. gdb \in GdbType
    BY DEF TypeInv, TypeOK, GdbType, GdbStates
  <2>3. gdb' \in GdbType /\ gdb'.inferior = gdb.inferior /\ gdb'.run = gdb.run
    BY <2>1, <2>2 DEF GdbType
  <2>4. /\ token' \in 1..(MaxCommands + 1)
        /\ stdin' \in Seq([kind : SentKinds, token : 1..MaxCommands])
    BY <2>1 DEF TypeInv, TypeOK
  <2> QED
    BY <1>0, <2>1, <2>3, <2>4, BeginType
<1> QED
  BY <1>1, <1>2, <1>3, <1>4, <1>5, <1>6 DEF Client

\* The steps of the server keep the types.
LEMMA TypeServer ==
    ASSUME TypeInv, Server, UNCHANGED usage
    PROVE  TypeInv'
<1>0. /\ op.kind \in AllKinds \cup {"idle"} /\ op.token \in 0..MaxCommands
      /\ Statuses = {"none", "success", "running", "timeout", "error", "fatal",
                     "refused", "existing", "warning"}
      /\ \A k \in AllKinds : NewOp(k, 0).kind = k /\ NewOp(k, 0).token = 0
      /\ out \in Seq(Record) /\ Sound(rt) /\ (rt.controller => One(rt))
      /\ 0 \in 0..MaxCommands
  BY ReturnFacts
<1> DEFINE Same == UNCHANGED <<gdb, stdin, out, token>>
<1>1. CASE ReadRecord
  <2>1. /\ Busy /\ op.kind \in SentKinds /\ out # << >> /\ op' = Sort(op, Head(out))
        /\ out' = Tail(out) /\ UNCHANGED <<gdb, stdin, token, rt, result>>
    BY <1>1 DEF ReadRecord
  <2>2. Head(out) \in Record /\ out' \in Seq(Record)
    BY <1>0, <2>1, TailIsSuffix
  <2>3. /\ op' \in Op /\ op'.kind = op.kind /\ One(op'.draft) /\ SameSession(op.draft, op'.draft)
    BY <2>1, <2>2, SortType
  <2>4. op'.kind \notin {"wait", "interrupt"}
    BY <2>1, <2>3, Names
  <2> QED
    BY <2>1, <2>2, <2>3, <2>4, ReadType
<1>2. CASE CommandReturns
  <2>1. Busy /\ Same
    BY <1>2 DEF CommandReturns
  <2>2. CASE op.class = "error"
    <3>1. rt' = rt /\ Return(op, "error")
      BY <1>2, <2>2 DEF CommandReturns
    <3> QED
      BY <1>0, <2>1, <3>1, QuietReturn
  <2>3. CASE op.class # "error"
    <3>1. /\ rt' = UpdateRuntimeAfterCommand(op.draft, Notifications(op), op.class)
          /\ Return(op, "success")
      BY <1>2, <2>3 DEF CommandReturns
    <3>2. One(rt')
      BY <2>1, <3>1, CommandFacts
    <3> QED
      BY <1>0, <2>1, <3>1, <3>2, QuietReturn DEF One
  <2> QED
    BY <2>2, <2>3
<1>3. CASE CallReturns
  <2>1. Same /\ Return(op, IF op.class = "error" THEN "error" ELSE "success")
    BY <1>3 DEF CallReturns
  <2>2. One(rt')
    BY <1>3, CallFacts
  <2>3. (IF op.class = "error" THEN "error" ELSE "success") \in Statuses
    BY <1>0
  <2> QED
    BY <1>0, <2>1, <2>2, <2>3, QuietReturn DEF One
<1>4. ASSUME NEW acknowledged \in BOOLEAN, CommandTimesOut(acknowledged) PROVE TypeInv'
  <2> DEFINE s == IF acknowledged /\ op.kind \in ExecKinds
                     /\ (op.class = "running" \/ rt'.execution_state = "running")
                  THEN "running" ELSE "timeout"
  <2>1. /\ Busy /\ Same /\ Return(op, s)
        /\ rt' = UpdateRuntimeAfterCommand(op.draft, Notifications(op), op.class)
    BY <1>4 DEF CommandTimesOut
  <2>2. One(rt')
    BY <2>1, CommandFacts
  <2>3. s \in Statuses
    BY <1>0
  <2> HIDE DEF s
  <2> QED
    BY <1>0, <2>1, <2>2, <2>3, QuietReturn DEF One
<1>5. CASE CallTimesOut
  <2>1. rt' = rt /\ Same /\ Return(op, "timeout")
    BY <1>5 DEF CallTimesOut
  <2> QED
    BY <1>0, <2>1, QuietReturn
<1>6. CASE ReadWaiting
  <2>1. /\ Busy /\ out # << >> /\ ~IsStop(Head(out)) /\ op' = SortWaiting(op, Head(out))
        /\ out' = Tail(out) /\ UNCHANGED <<gdb, stdin, token, rt, result>>
    BY <1>6 DEF ReadWaiting
  <2>2. Head(out) \in Record /\ out' \in Seq(Record)
    BY <1>0, <2>1, TailIsSuffix
  <2>3. /\ op' \in Op /\ op'.kind = op.kind /\ One(op'.draft) /\ SameSession(op.draft, op'.draft)
        /\ op'.responses = op.responses /\ op'.async = op.async
    BY <2>1, <2>2, SortWaitingType
  <2> QED
    BY <2>1, <2>2, <2>3, ReadType
<1>7. CASE StopRead
  <2>1. Return(op, "success") /\ UNCHANGED <<gdb, stdin, token>>
    BY <1>7 DEF StopRead
  <2>2. One(rt') /\ out' \in Seq(Record)
    BY <1>7, StopReadFacts
  <2> QED
    BY <1>0, <2>1, <2>2, QuietReturn DEF One
<1>8. CASE WaitTimesOut
  <2>1. Same /\ Return(op, IF op.kind = "interrupt" THEN "warning" ELSE "timeout")
    BY <1>8 DEF WaitTimesOut
  <2>2. One(rt')
    BY <1>8, WaitTimesOutFacts
  <2>3. (IF op.kind = "interrupt" THEN "warning" ELSE "timeout") \in Statuses
    BY <1>0
  <2> QED
    BY <1>0, <2>1, <2>2, <2>3, QuietReturn DEF One
<1>9. CASE TransportFails
  <2>1. rt' = MarkTransportTerminated(rt) /\ Same /\ Return(op, "fatal")
    BY <1>9 DEF TransportFails
  <2>2. Sound(rt') /\ ~rt'.controller
    BY <1>0, <2>1, TerminatedSound
  <2> QED
    BY <1>0, <2>1, <2>2, QuietReturn
<1> QED
  BY <1>1, <1>2, <1>3, <1>4, <1>5, <1>6, <1>7, <1>8, <1>9 DEF Server

\* The type invariant is inductive.
LEMMA TypeStep == TypeInv /\ [Next]_vars => TypeInv'
<1> SUFFICES ASSUME TypeInv, [Next]_vars PROVE TypeInv'
  OBVIOUS
<1>1. CASE Next
  BY <1>1, TypeGdb, TypeClient, TypeServer DEF Next
<1>2. CASE UNCHANGED vars
  BY <1>2 DEF vars, TypeInv, TypeOK, DraftInv, Busy
<1> QED
  BY <1>1, <1>2

-----------------------------------------------------------------------------
(* Stops in order *)

\* The run that the command with token t started has ended.
Ended(t) == t <= gdb.run /\ (gdb.inferior = "running" => t < gdb.run)

\* A command that was sent and awaits its answer.
Sent == op.kind \in SentKinds

\* Commands are numbered as they are sent; the last one is the operation's.
Numbered ==
    /\ gdb.run < token
    /\ \A i \in DOMAIN stdin : gdb.run < stdin[i].token /\ stdin[i].token < token
    /\ \A i, j \in DOMAIN stdin : i < j => stdin[i].token < stdin[j].token
    /\ Sent => op.token + 1 = token

\* The stops still to be read are those of ended runs, in order.
UnreadInOrder ==
    /\ \A i \in DOMAIN out : IsStop(out[i]) => Ended(out[i].token)
    /\ \A i, j \in DOMAIN out :
          i < j /\ IsStop(out[i]) /\ IsStop(out[j]) => out[i].token < out[j].token

\* A stop that the operation has read: it is recorded, if at all, at its end.
Read(t) == \/ \E i \in DOMAIN op.responses : op.responses[i].token = t
           \/ \E i \in DOMAIN op.async : op.async[i].token = t

\* An ended run whose stop is older than those to be read.
Past(t) == Ended(t) /\ \A i \in DOMAIN out : IsStop(out[i]) => t < out[i].token

\* What was read is older than what was not; what was recorded is older still.
ReadInOrder ==
    /\ \A t \in 1..MaxCommands : Read(t) => Past(t)
    /\ \A k \in DOMAIN rt.stop_history :
          /\ Past(rt.stop_history[k])
          /\ \A t \in 1..MaxCommands : Read(t) => rt.stop_history[k] < t

\* The history, what an operation has read, what is unread: one ascending line.
OrderInv == Numbered /\ UnreadInOrder /\ ReadInOrder /\ StopsInOrder

\* What GDB writes at once: a record a, perhaps after a notification g.
Grown(a, g) ==
    /\ Len(out') > Len(out)
    /\ DOMAIN out = 1..Len(out) /\ DOMAIN out' = 1..Len(out')
    /\ \A i \in DOMAIN out : i \in DOMAIN out' /\ out'[i] = out[i]
    /\ out'[Len(out')] = a
    /\ \A i \in DOMAIN out' : i \in DOMAIN out \/ i = Len(out') \/ out'[i] = g

\* Where the records of a stream that has grown come from.
LEMMA GrownFacts ==
    ASSUME TypeInv, NEW a \in Record, NEW g \in Record,
           out' = Append(out, a) \/ out' = Append(Append(out, g), a)
    PROVE  Grown(a, g) /\ Len(out) \in Nat /\ Len(out') \in Nat
<1>1. out \in Seq(Record) /\ Len(out) \in Nat
  BY DEF TypeInv, TypeOK
<1>2. CASE out' = Append(out, a)
  <2>1. Extension(out', out, a)
    BY <1>1, <1>2, AppendExtends
  <2> QED
    BY <1>1, <2>1 DEF Grown, Extension
<1>3. CASE out' = Append(Append(out, g), a)
  <2> DEFINE p == Append(out, g)
  <2>1. p \in Seq(Record) /\ Extension(p, out, g)
    BY <1>1, AppendExtends
  <2>2. out' = Append(p, a)
    BY <1>3
  <2> HIDE DEF p
  <2>3. Extension(out', p, a)
    BY <2>1, <2>2, AppendExtends
  <2>4. Len(p) = Len(out) + 1 /\ Len(out') = Len(out) + 2
    BY <1>1, <2>1, <2>3 DEF Extension
  <2>5. \A i \in DOMAIN out : i \in DOMAIN out' /\ out'[i] = out[i]
    BY <2>1, <2>3 DEF Extension
  <2>6. \A i \in DOMAIN out' : i \in DOMAIN out \/ i = Len(out') \/ out'[i] = g
    BY <2>1, <2>3 DEF Extension
  <2>7. /\ DOMAIN out = 1..Len(out) /\ DOMAIN out' = 1..Len(out')
        /\ out'[Len(out')] = a
    BY <2>1, <2>3 DEF Extension
  <2> QED
    BY <1>1, <2>4, <2>5, <2>6, <2>7 DEF Grown
<1> QED
  BY <1>2, <1>3

\* A trimmed history is part of the history.
LEMMA TrimOrder ==
    ASSUME NEW h \in Seq(StopEvents), NEW t \in StopEvents,
           \A i, j \in DOMAIN h : i < j => h[i] < h[j],
           \A i \in DOMAIN h : h[i] < t
    PROVE  LET q == TrimHistory(Append(h, t), StopHistoryLimit) IN
           /\ \A i, j \in DOMAIN q : i < j => q[i] < q[j]
           /\ \A i \in DOMAIN q : q[i] = t \/ \E j \in DOMAIN h : q[i] = h[j]
<1> DEFINE u == Append(h, t)
           m == IF Len(u) > StopHistoryLimit THEN Len(u) - StopHistoryLimit ELSE 0
           n == 1 + m
           q == SubSeq(u, n, Len(u))
<1>1. /\ u \in Seq(StopEvents) /\ Extension(u, h, t) /\ Len(u) \in Nat
  BY AppendExtends
<1> HIDE DEF u
<1>2. m \in Nat
  BY <1>1, LimitAssumption
<1> HIDE DEF m
<1>3. n \in Int /\ n >= 1 /\ Len(u) \in Int /\ \A i \in n..Len(u) : u[i] \in StopEvents
  BY <1>1, <1>2
<1> HIDE DEF n
<1>4. /\ Len(q) = (IF n <= Len(u) THEN Len(u) - n + 1 ELSE 0) /\ q \in Seq(StopEvents)
      /\ \A i \in 1..(Len(u) - n + 1) : q[i] = u[n + i - 1]
  BY <1>3, SubSeqProperties
<1> HIDE DEF q
<1>5. \A i \in DOMAIN q : /\ i \in Int /\ n + i - 1 \in DOMAIN u /\ q[i] = u[n + i - 1]
  <2>1. SUFFICES ASSUME NEW i \in DOMAIN q
                 PROVE  i \in Int /\ n + i - 1 \in DOMAIN u /\ q[i] = u[n + i - 1]
    OBVIOUS
  <2>2. DOMAIN q = 1..Len(q) /\ DOMAIN u = 1..Len(u)
    BY <1>1, <1>4
  <2>3. n <= Len(u)
    BY <1>4, <2>2
  <2>4. i \in 1..(Len(u) - n + 1)
    BY <1>4, <2>2, <2>3
  <2>5. q[i] = u[n + i - 1]
    BY <1>4, <2>4
  <2>6. i \in Int /\ 1 <= n + i - 1 /\ n + i - 1 <= Len(u) /\ n + i - 1 \in Int
    BY <1>3, <2>4
  <2>7. n + i - 1 \in DOMAIN u
    BY <1>3, <2>2, <2>6
  <2> QED
    BY <2>5, <2>6, <2>7
<1>6. \A i, j \in DOMAIN u : i < j => u[i] < u[j]
  <2> SUFFICES ASSUME NEW i \in DOMAIN u, NEW j \in DOMAIN u, i < j PROVE u[i] < u[j]
    OBVIOUS
  <2>1. Len(h) \in Nat
    OBVIOUS
  <2>2. i \in DOMAIN h /\ u[i] = h[i]
    BY <1>1, <2>1 DEF Extension
  <2>3. CASE j \in DOMAIN h
    BY <1>1, <2>2, <2>3 DEF Extension
  <2>4. CASE j \notin DOMAIN h
    BY <1>1, <2>2, <2>4 DEF Extension
  <2> QED
    BY <2>3, <2>4
<1>7. \A i \in DOMAIN u : u[i] = t \/ \E j \in DOMAIN h : u[i] = h[j]
  BY <1>1 DEF Extension
<1>8. \A i, j \in DOMAIN q : i < j => q[i] < q[j]
  <2> SUFFICES ASSUME NEW i \in DOMAIN q, NEW j \in DOMAIN q, i < j PROVE q[i] < q[j]
    OBVIOUS
  <2>1. n + i - 1 < n + j - 1
    BY <1>3, <1>5
  <2> QED
    BY <1>5, <1>6, <2>1
<1>9. \A i \in DOMAIN q : q[i] = t \/ \E j \in DOMAIN h : q[i] = h[j]
  BY <1>5, <1>7
<1> QED
  BY <1>8, <1>9 DEF TrimHistory, q, n, m, u

\* A stream that has been read from keeps its order.
LEMMA UnreadSuffix ==
    ASSUME TypeInv, UnreadInOrder, NEW k \in Nat, Suffix(out', out, k),
           gdb'.run = gdb.run, gdb'.inferior = gdb.inferior
    PROVE  /\ UnreadInOrder'
           /\ \A t : Past(t) => Past(t)'
<1>1. \A t : Ended(t) <=> Ended(t)'
  BY DEF Ended
<1>2. \A i \in DOMAIN out' : i + k \in DOMAIN out /\ out'[i] = out[i + k] /\ i \in Nat
  BY DEF Suffix
<1>3. \A i, j \in DOMAIN out' : i < j => i + k < j + k
  BY <1>2
<1>4. UnreadInOrder'
  BY <1>1, <1>2, <1>3 DEF UnreadInOrder, Ended
<1>5. ASSUME NEW t, Past(t) PROVE Past(t)'
  BY <1>1, <1>2, <1>5 DEF Past
<1> QED
  BY <1>4, <1>5

\* The end of an operation that records nothing, or a stop in its turn.
LEMMA OrderEnd ==
    ASSUME TypeInv, OrderInv, op' = Idle, UNCHANGED <<gdb, stdin, token>>,
           NEW k \in Nat, Suffix(out', out, k),
           \/ Unrecorded
           \/ \E t \in 1..MaxCommands :
                /\ Recorded(t) /\ Past(t)'
                /\ \A i \in DOMAIN rt.stop_history : rt.stop_history[i] < t
    PROVE  OrderInv'
<1>1. UnreadInOrder' /\ \A t : Past(t) => Past(t)'
  BY UnreadSuffix DEF OrderInv
<1>2. Numbered'
  BY IdleType, Names DEF OrderInv, Numbered, Sent
<1>3. \A t : ~Read(t)'
  BY IdleType DEF Read
<1>4. CASE Unrecorded
  <2>1. StopsInOrder'
    BY <1>4 DEF OrderInv, StopsInOrder, Unrecorded
  <2>2. ReadInOrder'
    BY <1>1, <1>3, <1>4 DEF OrderInv, ReadInOrder, Unrecorded
  <2> QED
    BY <1>1, <1>2, <2>1, <2>2 DEF OrderInv
<1>5. ASSUME NEW t \in 1..MaxCommands, Recorded(t), Past(t)',
             \A i \in DOMAIN rt.stop_history : rt.stop_history[i] < t
      PROVE  OrderInv'
  <2> DEFINE h == rt.stop_history
             q == TrimHistory(Append(h, t), StopHistoryLimit)
  <2>1. h \in Seq(StopEvents) /\ t \in StopEvents
    BY ExecutionAssumption DEF TypeInv, TypeOK, Runtime
  <2>2. \A i, j \in DOMAIN h : i < j => h[i] < h[j]
    BY DEF OrderInv, StopsInOrder
  <2>3. /\ \A i, j \in DOMAIN q : i < j => q[i] < q[j]
        /\ \A i \in DOMAIN q : q[i] = t \/ \E j \in DOMAIN h : q[i] = h[j]
    BY <1>5, <2>1, <2>2, TrimOrder
  <2>4. rt'.stop_history = q
    BY <1>5 DEF Recorded
  <2> HIDE DEF q
  <2>5. StopsInOrder'
    BY <2>3, <2>4 DEF StopsInOrder
  <2>6. \A x : (\E i \in DOMAIN q : x = q[i]) => Past(x)'
    <3> SUFFICES ASSUME NEW x, NEW i \in DOMAIN q, x = q[i] PROVE Past(x)'
      OBVIOUS
    <3>1. CASE x = t
      BY <1>5, <3>1
    <3>2. CASE \E j \in DOMAIN h : x = h[j]
      <4>1. Past(x)
        BY <3>2 DEF OrderInv, ReadInOrder
      <4> QED
        BY <1>1, <4>1
    <3> QED
      BY <2>3, <3>1, <3>2
  <2>7. ReadInOrder'
    BY <1>3, <2>4, <2>6 DEF ReadInOrder
  <2> QED
    BY <1>1, <1>2, <2>5, <2>7 DEF OrderInv
<1> QED
  BY <1>4, <1>5

\* A new session has seen no stop.
LEMMA OrderInit == Init => OrderInv
<1> SUFFICES ASSUME Init PROVE OrderInv
  OBVIOUS
<1>1. rt.stop_history = << >> /\ op = Idle
  BY StartedOne DEF Init
<1>2. op.responses = << >> /\ op.async = << >> /\ op.kind \notin SentKinds
  BY <1>1, IdleType, Names
<1>3. DOMAIN out = {} /\ DOMAIN stdin = {} /\ DOMAIN rt.stop_history = {}
  BY <1>1 DEF Init
<1>4. \A t : ~Read(t)
  BY <1>2 DEF Read
<1>5. gdb.run < token
  BY DEF Init
<1> QED
  BY <1>2, <1>3, <1>4, <1>5
  DEF OrderInv, Numbered, UnreadInOrder, ReadInOrder, StopsInOrder, Sent

\* A step of the stream and the runtime that leaves what was read alone.
LEMMA OrderKept ==
    ASSUME TypeInv, OrderInv, UNCHANGED <<rt>>, \A t : Read(t)' => Read(t),
           \A t \in Nat : Past(t) => Past(t)'
    PROVE  ReadInOrder' /\ StopsInOrder'
<1>1. StopsInOrder'
  BY DEF OrderInv, StopsInOrder
<1>2. \A t \in 1..MaxCommands : Read(t)' => Past(t)'
  <2>1. 1..MaxCommands \subseteq Nat
    BY Names
  <2> QED
    BY <2>1 DEF OrderInv, ReadInOrder
<1>3. \A k \in DOMAIN rt.stop_history : \A x : x = rt.stop_history[k] =>
         Past(x)' /\ \A t \in 1..MaxCommands : Read(t)' => x < t
  <2>1. \A k \in DOMAIN rt.stop_history : rt.stop_history[k] \in Nat
    BY ExecutionAssumption DEF TypeInv, TypeOK, Runtime
  <2> QED
    BY <2>1 DEF OrderInv, ReadInOrder
<1>4. ReadInOrder'
  BY <1>2, <1>3 DEF ReadInOrder
<1> QED
  BY <1>1, <1>4

\* The records of the stream carry the numbers of commands.
LEMMA StopTokens ==
    ASSUME TypeInv
    PROVE  /\ \A i \in DOMAIN out : out[i] \in Record
           /\ \A i \in DOMAIN out : IsStop(out[i]) =>
                 out[i] \in Stops /\ out[i].token \in Nat /\ out[i].token \in 1..MaxCommands
           /\ \A i \in DOMAIN out : IsResult(out[i]) =>
                 /\ out[i].token \in Nat /\ out[i].token \in 1..MaxCommands
                 /\ out[i].class \in Classes
<1>1. out \in Seq(Record)
  BY DEF TypeInv, TypeOK
<1>2. \A i \in DOMAIN out : out[i] \in Record
  BY <1>1
<1>3. \A m \in Record : IsStop(m) => m \in Stops /\ m.token \in 1..MaxCommands
  BY DEF Record, IsStop, Stops
<1>4. \A m \in Record : IsResult(m) => m.token \in 1..MaxCommands /\ m.class \in Classes
  BY DEF Record, IsResult, Stops
<1>5. 1..MaxCommands \subseteq Nat
  BY Names
<1> QED
  BY <1>2, <1>3, <1>4, <1>5

\* So do the commands of the input.
LEMMA CommandTokens ==
    ASSUME TypeInv
    PROVE  /\ \A i \in DOMAIN stdin : /\ stdin[i].token \in Nat
                                      /\ stdin[i].kind \in SentKinds
           /\ DOMAIN stdin = {} => stdin = << >>
<1> DEFINE C == [kind : SentKinds, token : 1..MaxCommands]
<1>1. \A d \in C : d.token \in Nat /\ d.kind \in SentKinds
  BY Names
<1>2. stdin \in Seq(C)
  BY DEF TypeInv, TypeOK
<1> HIDE DEF C
<1>3. \A i \in DOMAIN stdin : stdin[i] \in C
  BY <1>2
<1>4. DOMAIN stdin = {} => stdin = << >>
  BY <1>2
<1> QED
  BY <1>1, <1>3, <1>4

\* A command that resumes the inferior starts a run later than every stop.
LEMMA OrderExecute ==
    ASSUME TypeInv, OrderInv, GdbExecute
    PROVE  OrderInv'
<1> DEFINE C == [kind : SentKinds, token : 1..MaxCommands]
           c == Head(stdin)
           g == Group("thread-group-started")
<1>1. stdin \in Seq(C) /\ stdin # << >> /\ stdin' = Tail(stdin) /\ c \in C
  BY ExecuteFacts DEF TypeInv, TypeOK
<1>2. Suffix(stdin', stdin, 1) /\ c = stdin[1] /\ 1 \in DOMAIN stdin
  BY <1>1, TailIsSuffix
<1>3. UNCHANGED <<token, rt, op>>
  BY DEF GdbExecute
<1>4. /\ gdb.run < c.token /\ c.token < token /\ gdb.run \in Nat /\ c.token \in Nat
      /\ \A i \in DOMAIN stdin' : c.token < stdin'[i].token
  <2>1. gdb.run < c.token /\ c.token < token /\ gdb.run \in Nat /\ c.token \in Nat
    BY <1>1, <1>2, Names DEF OrderInv, Numbered, TypeInv, TypeOK
  <2>2. \A i \in DOMAIN stdin' : i + 1 \in DOMAIN stdin /\ 1 < i + 1 /\ stdin'[i] = stdin[i + 1]
    BY <1>2 DEF Suffix
  <2> QED
    BY <1>2, <2>1, <2>2 DEF OrderInv, Numbered
<1>5. \/ gdb' = gdb
      \/ gdb'.inferior = "running" /\ gdb'.run = c.token
  BY ExecuteFacts
<1>6. gdb.inferior # "running"
  BY ExecuteFacts
<1>7. PICK a \in Record : /\ a.type = "result"
                          /\ out' = Append(out, a) \/ out' = Append(Append(out, g), a)
  <2>1. \A t, x : Result(t, x).type = "result"
    BY DEF Result
  <2> QED
    BY <2>1, ExecuteFacts
<1>8. g \in Record /\ ~IsStop(g) /\ ~IsStop(a)
  BY <1>7 DEF Group, Record, IsStop
<1> HIDE DEF c, g
<1>9. Grown(a, g)
  BY <1>7, <1>8, GrownFacts
<1>10. \A i \in DOMAIN out' : IsStop(out'[i]) => i \in DOMAIN out /\ out'[i] = out[i]
  BY <1>8, <1>9 DEF Grown
<1>11. ASSUME NEW t \in Nat, Ended(t) PROVE Ended(t)'
  <2>1. CASE gdb' = gdb
    BY <1>11, <2>1 DEF Ended
  <2>2. CASE gdb'.inferior = "running" /\ gdb'.run = c.token
    <3>1. t <= gdb.run /\ gdb.run < c.token
      BY <1>4, <1>11 DEF Ended
    <3>2. t < c.token /\ t <= c.token
      BY <1>4, <3>1
    <3> QED
      BY <2>2, <3>2 DEF Ended
  <2> QED
    BY <1>5, <2>1, <2>2
<1>12. UnreadInOrder'
  <2>0. \A i \in DOMAIN out : IsStop(out[i]) => out[i].token \in Nat
    BY StopTokens
  <2>1. \A i \in DOMAIN out' : IsStop(out'[i]) => \A x : x = out'[i].token => Ended(x)'
    BY <1>10, <1>11, <2>0 DEF OrderInv, UnreadInOrder
  <2>2. \A i, j \in DOMAIN out' :
           i < j /\ IsStop(out'[i]) /\ IsStop(out'[j]) => out'[i].token < out'[j].token
    BY <1>10 DEF OrderInv, UnreadInOrder
  <2> QED
    BY <2>1, <2>2 DEF UnreadInOrder
<1>13. \A t \in Nat : Past(t) => Past(t)'
  BY <1>10, <1>11 DEF Past
<1>14. \A t : Read(t)' => Read(t)
  BY <1>3 DEF Read
<1>15. Numbered'
  <2>1. gdb'.run < token' /\ \A i \in DOMAIN stdin' : gdb'.run < stdin'[i].token
    <3>1. CASE gdb' = gdb
      <4>1. \A i \in DOMAIN stdin' : i + 1 \in DOMAIN stdin /\ stdin'[i] = stdin[i + 1]
        BY <1>2 DEF Suffix
      <4> QED
        BY <1>3, <3>1, <4>1 DEF OrderInv, Numbered
    <3>2. CASE gdb'.run = c.token
      BY <1>3, <1>4, <3>2
    <3> QED
      BY <1>5, <3>1, <3>2
  <2>2. \A i \in DOMAIN stdin' : i \in Int /\ i + 1 \in DOMAIN stdin /\ stdin'[i] = stdin[i + 1]
    BY <1>2 DEF Suffix
  <2>3. \A i, j \in DOMAIN stdin' : i < j => i + 1 < j + 1
    BY <2>2
  <2>4. \A i, j \in DOMAIN stdin' : i < j => stdin'[i].token < stdin'[j].token
    BY <2>2, <2>3 DEF OrderInv, Numbered
  <2>5. \A i \in DOMAIN stdin' : stdin'[i].token < token'
    BY <1>3, <2>2 DEF OrderInv, Numbered
  <2> QED
    BY <1>3, <2>1, <2>4, <2>5 DEF OrderInv, Numbered, Sent
<1> QED
  BY <1>3, <1>12, <1>13, <1>14, <1>15, OrderKept DEF OrderInv

\* A stop is written after all that are unread.
LEMMA OrderStops ==
    ASSUME TypeInv, OrderInv, NEW reason \in GdbReasons, InferiorStops(reason)
    PROVE  OrderInv'
<1> DEFINE a == Stop(gdb.run, reason)
           g == Group("thread-group-exited")
<1>1. /\ a \in Record /\ IsStop(a) /\ a.token = gdb.run /\ gdb.inferior = "running"
      /\ out' = Append(out, a) \/ out' = Append(Append(out, g), a)
      /\ gdb'.run = gdb.run /\ gdb'.inferior # "running"
  BY StopsFacts DEF StateAfter
<1>2. g \in Record /\ ~IsStop(g)
  BY DEF Group, Record, IsStop
<1>3. UNCHANGED <<stdin, token, rt, op>>
  BY DEF InferiorStops
<1> HIDE DEF a, g
<1>4. Grown(a, g) /\ Len(out) \in Nat /\ Len(out') \in Nat
  BY <1>1, <1>2, GrownFacts
<1>5. \A i \in DOMAIN out' : IsStop(out'[i]) =>
         \/ i \in DOMAIN out /\ out'[i] = out[i]
         \/ i = Len(out') /\ out'[i] = a
  BY <1>2, <1>4 DEF Grown
<1>6. \A t : Ended(t) => Ended(t)' /\ t < gdb.run
  BY <1>1 DEF Ended
<1>7. gdb.run \in Nat
  BY DEF TypeInv, TypeOK
<1>8. UnreadInOrder'
  <2>1. \A i \in DOMAIN out' : IsStop(out'[i]) => \A x : x = out'[i].token => Ended(x)'
    <3> SUFFICES ASSUME NEW i \in DOMAIN out', IsStop(out'[i]), NEW x, x = out'[i].token
                 PROVE  Ended(x)'
      OBVIOUS
    <3>1. CASE i \in DOMAIN out /\ out'[i] = out[i]
      BY <1>6, <3>1 DEF OrderInv, UnreadInOrder
    <3>2. CASE out'[i] = a
      BY <1>1, <1>7, <3>2 DEF Ended
    <3> QED
      BY <1>5, <3>1, <3>2
  <2>2. \A i, j \in DOMAIN out' :
           i < j /\ IsStop(out'[i]) /\ IsStop(out'[j]) => out'[i].token < out'[j].token
    <3> SUFFICES ASSUME NEW i \in DOMAIN out', NEW j \in DOMAIN out', i < j,
                        IsStop(out'[i]), IsStop(out'[j])
                 PROVE  out'[i].token < out'[j].token
      OBVIOUS
    <3>1. i \in DOMAIN out /\ out'[i] = out[i]
      <4>1. i < Len(out')
        BY <1>4 DEF Grown
      <4>2. i # Len(out')
        BY <1>4, <4>1
      <4> QED
        BY <1>5, <4>2
    <3>2. CASE j \in DOMAIN out /\ out'[j] = out[j]
      BY <3>1, <3>2 DEF OrderInv, UnreadInOrder
    <3>3. CASE out'[j] = a
      BY <1>1, <1>6, <3>1, <3>3 DEF OrderInv, UnreadInOrder
    <3> QED
      BY <1>5, <3>2, <3>3
  <2> QED
    BY <2>1, <2>2 DEF UnreadInOrder
<1>9. \A t : Past(t) => Past(t)'
  <2> SUFFICES ASSUME NEW t, Past(t) PROVE Past(t)'
    OBVIOUS
  <2>1. Ended(t)' /\ t < a.token
    BY <1>1, <1>6 DEF Past
  <2>2. \A i \in DOMAIN out' : IsStop(out'[i]) => t < out'[i].token
    BY <1>5, <2>1 DEF Past
  <2> QED
    BY <2>1, <2>2 DEF Past
<1>10. \A t : Read(t)' => Read(t)
  BY <1>3 DEF Read
<1>11. Numbered'
  BY <1>1, <1>3 DEF OrderInv, Numbered, Sent
<1> QED
  BY <1>3, <1>8, <1>9, <1>10, <1>11, OrderKept DEF OrderInv

\* The start of an operation.
LEMMA OrderBegin ==
    ASSUME TypeInv, OrderInv, ~Busy, rt.controller, NEW k \in AllKinds,
           NEW t \in 0..MaxCommands, op' = NewOp(k, t), UNCHANGED <<out, rt>>,
           gdb'.run = gdb.run, gdb'.inferior = gdb.inferior,
           \/ k \notin SentKinds /\ UNCHANGED <<stdin, token>>
           \/ /\ t = token /\ token' = token + 1 /\ k \in SentKinds
              /\ stdin' = Append(stdin, [kind |-> k, token |-> token])
    PROVE  OrderInv'
<1>1. op'.responses = << >> /\ op'.async = << >> /\ op'.kind = k /\ op'.token = t
  BY NewOpType
<1>2. \A x : Read(x)' => Read(x)
  BY <1>1 DEF Read
<1>3. \A x : Past(x) => Past(x)'
  BY DEF Past, Ended
<1>4. UnreadInOrder'
  BY DEF OrderInv, UnreadInOrder, Ended
<1>5. token \in Nat /\ gdb.run \in Nat
  BY Names DEF TypeInv, TypeOK
<1>6. Numbered'
  <2>1. CASE k \notin SentKinds /\ UNCHANGED <<stdin, token>>
    BY <1>1, <2>1 DEF OrderInv, Numbered, Sent
  <2>2. CASE /\ t = token /\ token' = token + 1 /\ k \in SentKinds
             /\ stdin' = Append(stdin, [kind |-> k, token |-> token])
    <3> DEFINE C == [kind : SentKinds, token : 1..MaxCommands]
               c == [kind |-> k, token |-> token]
    <3>1. c \in C /\ c.token = token /\ stdin \in Seq(C)
      BY <2>2, Names DEF TypeInv, TypeOK
    <3>2. stdin' = Append(stdin, c)
      BY <2>2
    <3>6. \A i \in DOMAIN stdin : stdin[i].token \in Nat
      <4>1. \A d \in C : d.token \in Nat
        BY Names
      <4> HIDE DEF C, c
      <4>2. \A i \in DOMAIN stdin : stdin[i] \in C
        BY <3>1
      <4> QED
        BY <4>1, <4>2
    <3> HIDE DEF C, c
    <3>3. Extension(stdin', stdin, c) /\ Len(stdin) \in Nat
      BY <3>1, <3>2, AppendExtends
    <3>4. \A i \in DOMAIN stdin' : \/ i \in DOMAIN stdin /\ stdin'[i] = stdin[i]
                                   \/ i = Len(stdin') /\ stdin'[i] = c
      BY <3>3 DEF Extension
    <3>5. \A i \in DOMAIN stdin : stdin[i].token < token /\ gdb.run < stdin[i].token
      BY DEF OrderInv, Numbered
    <3>7. \A i \in DOMAIN stdin' : gdb.run < stdin'[i].token /\ stdin'[i].token < token'
      BY <1>5, <2>2, <3>1, <3>4, <3>5, <3>6 DEF OrderInv, Numbered
    <3>8. \A i, j \in DOMAIN stdin' : i < j => stdin'[i].token < stdin'[j].token
      <4> SUFFICES ASSUME NEW i \in DOMAIN stdin', NEW j \in DOMAIN stdin', i < j
                   PROVE  stdin'[i].token < stdin'[j].token
        OBVIOUS
      <4>1. i \in DOMAIN stdin /\ stdin'[i] = stdin[i]
        <5>1. i # Len(stdin')
          BY <3>3 DEF Extension
        <5> QED
          BY <3>4, <5>1
      <4> QED
        BY <3>1, <3>4, <3>5, <4>1 DEF OrderInv, Numbered
    <3>9. gdb.run < token + 1
      BY <1>5 DEF OrderInv, Numbered
    <3> QED
      BY <1>1, <2>2, <3>7, <3>8, <3>9 DEF Numbered, Sent
  <2> QED
    BY <2>1, <2>2
<1> QED
  BY <1>2, <1>3, <1>4, <1>6, OrderKept DEF OrderInv

\* Reading one record.
LEMMA OrderRead ==
    ASSUME TypeInv, OrderInv, out # << >>, out' = Tail(out),
           UNCHANGED <<gdb, stdin, token, rt>>,
           op'.kind = op.kind, op'.token = op.token,
           \A t : Read(t)' => Read(t) \/ (IsStop(Head(out)) /\ t = Head(out).token)
    PROVE  OrderInv'
<1>1. out \in Seq(Record)
  BY DEF TypeInv, TypeOK
<1>2. Suffix(out', out, 1) /\ Head(out) = out[1] /\ 1 \in DOMAIN out
  BY <1>1, TailIsSuffix
<1>3. UnreadInOrder' /\ \A t : Past(t) => Past(t)'
  BY <1>2, UnreadSuffix DEF OrderInv
<1>4. Numbered'
  BY DEF OrderInv, Numbered, Sent
<1>5. StopsInOrder'
  BY DEF OrderInv, StopsInOrder
<1>6. \A i \in DOMAIN out' : i + 1 \in DOMAIN out /\ 1 < i + 1 /\ out'[i] = out[i + 1]
  BY <1>2 DEF Suffix
<1>7. ASSUME IsStop(out[1]), NEW t, t = out[1].token
      PROVE  Past(t)' /\ \A x : Past(x) => x < t
  <2>1. Ended(t)'
    BY <1>2, <1>7 DEF OrderInv, UnreadInOrder, Ended
  <2>2. \A i \in DOMAIN out' : IsStop(out'[i]) => t < out'[i].token
    BY <1>2, <1>6, <1>7 DEF OrderInv, UnreadInOrder
  <2>3. \A x : Past(x) => x < t
    BY <1>2, <1>7 DEF Past
  <2> QED
    BY <2>1, <2>2, <2>3 DEF Past
<1>8. \A t \in 1..MaxCommands : Read(t)' => Past(t)'
  BY <1>2, <1>3, <1>7 DEF OrderInv, ReadInOrder
<1>9. \A k \in DOMAIN rt.stop_history : \A x : x = rt.stop_history[k] =>
         Past(x)' /\ \A t \in 1..MaxCommands : Read(t)' => x < t
  BY <1>2, <1>3, <1>7 DEF OrderInv, ReadInOrder
<1>10. ReadInOrder'
  BY <1>8, <1>9 DEF ReadInOrder
<1> QED
  BY <1>3, <1>4, <1>5, <1>10 DEF OrderInv

\* The operations of the server that end one, in one list.
LEMMA OrderServer ==
    ASSUME TypeInv, OrderInv, Server
    PROVE  OrderInv'
<1> DEFINE Same == UNCHANGED <<gdb, stdin, out, token>>
<1>1. out \in Seq(Record) /\ Suffix(out, out, 0)
  BY DEF TypeInv, TypeOK, Suffix
<1>2. \A m : Read(m.token) /\ m \in Stops =>
         /\ m.token \in 1..MaxCommands /\ Past(m.token)
         /\ \A i \in DOMAIN rt.stop_history : rt.stop_history[i] < m.token
  BY DEF OrderInv, ReadInOrder, Stops
<1>3. ASSUME Same, op' = Idle, Unrecorded PROVE OrderInv'
  BY <1>1, <1>3, OrderEnd
<1>4. ASSUME Same, op' = Idle, NEW m \in Stops, Read(m.token), Recorded(m.token) PROVE OrderInv'
  <2> DEFINE t == m.token
  <2>1. /\ t \in 1..MaxCommands /\ Past(t)
        /\ \A i \in DOMAIN rt.stop_history : rt.stop_history[i] < t
    BY <1>2, <1>4
  <2> HIDE DEF t
  <2>2. Past(t)'
    BY <1>4, <2>1 DEF Past, Ended, t
  <2>3. Recorded(t)
    BY <1>4 DEF t
  <2> QED
    BY <1>1, <1>4, <2>1, <2>2, <2>3, OrderEnd
<1>5. /\ op.responses # << >> /\ op.responses \in Seq(Stops) => Read(op.responses[1].token)
      /\ op.async # << >> /\ op.async \in Seq(Stops) => Read(op.async[1].token)
  <2>1. \A s \in Seq(Stops) : s # << >> => 1 \in DOMAIN s
    OBVIOUS
  <2> QED
    BY <2>1 DEF Read
<1>6. op.responses \in Seq(Stops) /\ op.async \in Seq(Stops)
  BY FirstNotification
<1>7. ASSUME Same, op' = Idle, Busy,
             rt' = UpdateRuntimeAfterCommand(op.draft, Notifications(op), op.class)
      PROVE  OrderInv'
  <2> DEFINE m == IF op.responses # << >> THEN op.responses[1] ELSE op.async[1]
  <2>1. CASE op.responses = << >> /\ op.async = << >>
    BY <1>3, <1>7, <2>1, CommandFacts
  <2>2. CASE ~(op.responses = << >> /\ op.async = << >>)
    <3>1. m \in Stops /\ Recorded(m.token)
      BY <1>7, <2>2, CommandFacts
    <3>2. Read(m.token)
      BY <1>5, <1>6, <2>2
    <3> HIDE DEF m
    <3> QED
      BY <1>4, <1>7, <3>1, <3>2
  <2> QED
    BY <2>1, <2>2
<1>8. CASE ReadRecord
  <2>1. /\ Busy /\ out # << >> /\ op' = Sort(op, Head(out))
        /\ out' = Tail(out) /\ UNCHANGED <<gdb, stdin, token, rt>>
    BY <1>8 DEF ReadRecord
  <2> DEFINE m == Head(out)
  <2>2. m \in Record
    BY <1>1, <2>1, TailIsSuffix
  <2>3. /\ op'.kind = op.kind /\ op'.token = op.token
        /\ \/ op'.responses = op.responses /\ op'.async = op.async
           \/ IsStop(m) /\ op'.responses = Append(op.responses, m) /\ op'.async = op.async
           \/ IsStop(m) /\ op'.responses = op.responses /\ op'.async = Append(op.async, m)
        /\ IsStop(m) => m \in Stops
    BY <2>1, <2>2, SortType
  <2> HIDE DEF m
  <2>4. \A t : Read(t)' => Read(t) \/ (IsStop(m) /\ t = m.token)
    <3>1. CASE op'.responses = op.responses /\ op'.async = op.async
      BY <3>1 DEF Read
    <3>2. \A s \in Seq(Stops) : IsStop(m) =>
             \A i \in DOMAIN Append(s, m) : \/ i \in DOMAIN s /\ Append(s, m)[i] = s[i]
                                            \/ Append(s, m)[i] = m
      BY <2>3
    <3>3. CASE IsStop(m) /\ op'.responses = Append(op.responses, m) /\ op'.async = op.async
      BY <1>6, <3>2, <3>3 DEF Read
    <3>4. CASE IsStop(m) /\ op'.responses = op.responses /\ op'.async = Append(op.async, m)
      BY <1>6, <3>2, <3>4 DEF Read
    <3> QED
      BY <2>3, <3>1, <3>3, <3>4
  <2> QED
    BY <2>1, <2>3, <2>4, OrderRead DEF m
<1>9. CASE CommandReturns
  <2>1. CASE op.class = "error"
    <3>1. Same /\ op' = Idle /\ rt' = rt
      BY <1>9, <2>1 DEF CommandReturns, Return
    <3> QED
      BY <1>3, <3>1 DEF Unrecorded
  <2>2. CASE op.class # "error"
    BY <1>7, <1>9, <2>2 DEF CommandReturns, Return
  <2> QED
    BY <2>1, <2>2
<1>10. CASE CallReturns
  <2>1. Same /\ op' = Idle
    BY <1>10 DEF CallReturns, Return
  <2>2. CASE op.responses = << >>
    BY <1>3, <1>10, <2>1, <2>2, CallFacts
  <2>3. CASE op.responses # << >>
    BY <1>4, <1>5, <1>6, <1>10, <2>1, <2>3, CallFacts
  <2> QED
    BY <2>2, <2>3
<1>11. ASSUME NEW acknowledged \in BOOLEAN, CommandTimesOut(acknowledged) PROVE OrderInv'
  BY <1>7, <1>11 DEF CommandTimesOut, Return
<1>12. CASE CallTimesOut
  <2>1. Same /\ op' = Idle /\ rt' = rt
    BY <1>12 DEF CallTimesOut, Return
  <2> QED
    BY <1>3, <2>1 DEF Unrecorded
<1>13. CASE ReadWaiting
  <2>1. /\ Busy /\ out # << >> /\ ~IsStop(Head(out)) /\ op' = SortWaiting(op, Head(out))
        /\ out' = Tail(out) /\ UNCHANGED <<gdb, stdin, token, rt>>
    BY <1>13 DEF ReadWaiting
  <2>2. Head(out) \in Record
    BY <1>1, <2>1, TailIsSuffix
  <2>3. /\ op'.kind = op.kind /\ op'.token = op.token
        /\ op'.responses = op.responses /\ op'.async = op.async
    BY <2>1, <2>2, SortWaitingType
  <2>4. \A t : Read(t)' => Read(t)
    BY <2>3 DEF Read
  <2> QED
    BY <2>1, <2>3, <2>4, OrderRead
<1>14. CASE StopRead
  <2> DEFINE t == out[1].token
  <2>1. op' = Idle /\ UNCHANGED <<gdb, stdin, token>>
    BY <1>14 DEF StopRead, Return
  <2>2. /\ IsStop(out[1]) /\ 1 \in DOMAIN out /\ Recorded(t)
        /\ \E k \in 1..Len(out) : Suffix(out', out, k)
    BY <1>14, StopReadFacts
  <2>3. t \in 1..MaxCommands /\ Ended(t)
    BY <2>2, StopTokens DEF OrderInv, UnreadInOrder
  <2>4. PICK k \in 1..Len(out) : Suffix(out', out, k)
    BY <2>2
  <2>5. k \in Nat /\ k >= 1
    BY <1>1
  <2>6. \A i \in DOMAIN out' : i + k \in DOMAIN out /\ 1 < i + k /\ out'[i] = out[i + k]
    BY <2>4, <2>5 DEF Suffix
  <2>7. \A i \in DOMAIN out' : IsStop(out'[i]) => t < out'[i].token
    BY <2>2, <2>6 DEF OrderInv, UnreadInOrder
  <2>8. \A i \in DOMAIN rt.stop_history : rt.stop_history[i] < t
    BY <2>2 DEF OrderInv, ReadInOrder, Past
  <2> HIDE DEF t
  <2>9. PICK u : u = t
    OBVIOUS
  <2>10. Past(u)'
    BY <2>1, <2>3, <2>7, <2>9 DEF Past, Ended
  <2> QED
    BY <2>1, <2>2, <2>3, <2>4, <2>5, <2>8, <2>9, <2>10, OrderEnd
<1>15. CASE WaitTimesOut
  <2>1. Same /\ op' = Idle
    BY <1>15 DEF WaitTimesOut, Return
  <2> QED
    BY <1>3, <1>15, <2>1, WaitTimesOutFacts
<1>16. CASE TransportFails
  <2>1. Same /\ op' = Idle /\ rt' = MarkTransportTerminated(rt)
    BY <1>16 DEF TransportFails, Return
  <2>2. Unrecorded
    BY <2>1, TerminatedSound DEF TypeInv, DraftInv, Unrecorded
  <2> QED
    BY <1>3, <2>1, <2>2
<1> QED
  BY <1>8, <1>9, <1>10, <1>11, <1>12, <1>13, <1>14, <1>15, <1>16 DEF Server

\* The order of stops is inductive.
LEMMA OrderStep == TypeInv /\ OrderInv /\ [Next]_vars => OrderInv'
<1> SUFFICES ASSUME TypeInv, OrderInv, [Next]_vars PROVE OrderInv'
  OBVIOUS
<1>1. CASE Gdb
  <2>1. CASE GdbDies
    <3>1. gdb' = [gdb EXCEPT !.alive = FALSE] /\ UNCHANGED <<stdin, out, token, rt, op>>
      BY <2>1 DEF GdbDies
    <3>2. gdb'.run = gdb.run /\ gdb'.inferior = gdb.inferior
      BY <3>1 DEF TypeInv, TypeOK
    <3> QED
      BY <3>1, <3>2
      DEF OrderInv, Numbered, UnreadInOrder, ReadInOrder, StopsInOrder, Past, Ended, Read, Sent
  <2> QED
    BY <1>1, <2>1, OrderExecute, OrderStops DEF Gdb
<1>2. CASE Client
  <2> DEFINE Same == UNCHANGED <<gdb, stdin, out, token>>
  <2>1. ASSUME Same, op' = Idle, Unrecorded PROVE OrderInv'
    <3>1. out \in Seq(Record) /\ Suffix(out, out, 0)
      BY DEF TypeInv, TypeOK, Suffix
    <3> QED
      BY <2>1, <3>1, OrderEnd
  <2>2. ASSUME NEW k \in AllKinds, FoundDead(k) PROVE OrderInv'
    <3>1. Same /\ op' = Idle /\ rt' = MarkTransportTerminated(rt)
      BY <2>2 DEF FoundDead, Return
    <3>2. Unrecorded
      BY <3>1, TerminatedSound DEF TypeInv, DraftInv, Unrecorded
    <3> QED
      BY <2>1, <3>1, <3>2
  <2>3. ASSUME NEW k \in AllKinds, SendCommand(k) PROVE OrderInv'
    <3>1. /\ ~Busy /\ rt.controller /\ k \in SentKinds /\ token <= usage.commands
          /\ stdin' = Append(stdin, [kind |-> k, token |-> token]) /\ token' = token + 1
          /\ op' = NewOp(k, token) /\ UNCHANGED <<gdb, out, rt>>
      BY <2>3 DEF SendCommand
    <3>2. usage.commands \in 1..MaxCommands /\ token \in 1..(MaxCommands + 1)
      BY ExecutionAssumption DEF TypeInv, TypeOK, Usage
    <3>3. token \in 0..MaxCommands
      BY <3>1, <3>2, Names
    <3> QED
      BY <3>1, <3>3, OrderBegin
  <2>4. CASE ContinueRefused
    BY <2>1, <2>4 DEF ContinueRefused, Return, Unrecorded
  <2>5. CASE WaitExisting
    BY <2>1, <2>5 DEF WaitExisting, Return, Unrecorded
  <2>6. CASE WaitForStop
    <3>1. /\ op' = NewOp("wait", 0) /\ ~Busy /\ rt.controller /\ Same /\ rt' = rt
          /\ "wait" \in AllKinds /\ "wait" \notin SentKinds /\ 0 \in 0..MaxCommands
      BY <2>6, Names DEF WaitForStop
    <3> QED
      BY <3>1, OrderBegin
  <2>7. CASE Interrupt
    <3>1. /\ op' = NewOp("interrupt", 0) /\ ~Busy /\ rt.controller
          /\ UNCHANGED <<stdin, out, token, rt>>
          /\ "interrupt" \in AllKinds /\ "interrupt" \notin SentKinds /\ 0 \in 0..MaxCommands
          /\ gdb' = [gdb EXCEPT !.sigint = (gdb.inferior = "running")]
      BY <2>7, Names DEF Interrupt
    <3>2. gdb'.run = gdb.run /\ gdb'.inferior = gdb.inferior
      BY <3>1 DEF TypeInv, TypeOK
    <3> QED
      BY <3>1, <3>2, OrderBegin
  <2> QED
    BY <1>2, <2>2, <2>3, <2>4, <2>5, <2>6, <2>7 DEF Client
<1>3. CASE Server
  BY <1>3, OrderServer
<1>4. CASE UNCHANGED vars
  BY <1>4
  DEF vars, OrderInv, Numbered, UnreadInOrder, ReadInOrder, StopsInOrder, Past, Ended, Read, Sent
<1> QED
  BY <1>1, <1>2, <1>3, <1>4 DEF Next

\* Stops enter the history in the order in which they happened, each once,
\* whoever reads them and whatever the client does.
THEOREM StopsAreInOrder == Spec => []StopsInOrder
<1>1. Init => TypeInv /\ OrderInv
  BY TypeInit, OrderInit
<1>2. TypeInv /\ OrderInv /\ [Next]_vars => (TypeInv /\ OrderInv)'
  BY TypeStep, OrderStep
<1>3. OrderInv => StopsInOrder
  BY DEF OrderInv
<1> QED
  BY <1>1, <1>2, <1>3, PTL DEF Spec

-----------------------------------------------------------------------------
(* The stop of one's own *)

\* The run of command t ends, later in the stream than `from', in a stop with
\* its token, and no older stop comes in between.
EndsIn(t, from) ==
    /\ \A j \in DOMAIN out : j > from /\ IsStop(out[j]) => t <= out[j].token
    /\ \/ \E j \in DOMAIN out : j > from /\ IsStop(out[j]) /\ out[j].token = t
       \/ gdb.inferior = "running" /\ gdb.run = t

\* Results are written in the order of the commands, each once.
ResultsInOrder ==
    \A i \in DOMAIN out : IsResult(out[i]) =>
       /\ out[i].token < token
       /\ \A j \in DOMAIN stdin : out[i].token < stdin[j].token
       /\ \A j \in DOMAIN out : i < j /\ IsResult(out[j]) => out[i].token < out[j].token
       /\ out[i].class = "running" => EndsIn(out[i].token, i)

\* The operation's command, from the input to the result and the stop.
OwnCommand ==
    Sent =>
      /\ \A i \in DOMAIN stdin : stdin[i].token = op.token => stdin[i].kind = op.kind
      /\ \A i \in DOMAIN out :
            IsResult(out[i]) /\ out[i].token = op.token /\ op.kind \in ExecKinds
                => out[i].class # "done"
      /\ op.kind \in ExecKinds => op.class # "done"
      /\ op.class # None => stdin = << >> /\ \A i \in DOMAIN out : ~IsResult(out[i])
      /\ op.class # "running" => op.responses = << >>
      /\ op.class = "running" /\ op.responses = << >> => EndsIn(op.token, 0)
      /\ op.class = "running" /\ op.responses # << >> => op.responses[1].token = op.token

\* The invariant about a command and its own stop.
OwnInv == ResultsInOrder /\ OwnCommand /\ ExecReportsOwnStop

\* Everything so far.
BaseInv == TypeInv /\ OrderInv /\ OwnInv

\* Reading takes what is read off the front.
LEMMA EndsInSuffix ==
    ASSUME TypeInv, NEW k \in Nat, Suffix(out', out, k), UNCHANGED gdb,
           NEW t, NEW n \in Nat, NEW m \in Nat, n = m + k, EndsIn(t, n)
    PROVE  EndsIn(t, m)'
<1>1. Len(out) \in Nat /\ Len(out') \in Nat
  <2>1. Len(out) \in Nat /\ Len(out) = Len(out') + k /\ DOMAIN out' = 1..Len(out')
    BY DEF TypeInv, TypeOK, Suffix
  <2> QED
    BY <2>1
<1>2. \A i \in DOMAIN out' : i \in Nat /\ i + k \in DOMAIN out /\ out'[i] = out[i + k]
  BY DEF Suffix
<1>3. \A j \in DOMAIN out' : j > m /\ IsStop(out'[j]) => t <= out'[j].token
  <2> SUFFICES ASSUME NEW j \in DOMAIN out', j > m, IsStop(out'[j]) PROVE t <= out'[j].token
    OBVIOUS
  <2>1. j + k > n
    BY <1>2
  <2> QED
    BY <1>2, <2>1 DEF EndsIn
<1>4. ASSUME NEW j \in DOMAIN out, j > n, IsStop(out[j]), out[j].token = t
      PROVE  \E i \in DOMAIN out' : i > m /\ IsStop(out'[i]) /\ out'[i].token = t
  <2>1. j \in Nat /\ j <= Len(out)
    BY <1>1 DEF Suffix
  <2>2. j - k \in DOMAIN out' /\ j - k > m /\ (j - k) + k = j
    BY <1>1, <1>4, <2>1 DEF Suffix
  <2> QED
    BY <1>2, <1>4, <2>2
<1> QED
  BY <1>3, <1>4 DEF EndsIn

\* Reading keeps the results in order.
LEMMA OwnResultsSuffix ==
    ASSUME TypeInv, ResultsInOrder, NEW k \in Nat, Suffix(out', out, k),
           UNCHANGED <<gdb, stdin, token>>
    PROVE  ResultsInOrder'
<1>1. \A i \in DOMAIN out' : i \in Nat /\ i + k \in DOMAIN out /\ out'[i] = out[i + k]
  BY DEF Suffix
<1>2. \A i, j \in DOMAIN out' : i < j => i + k < j + k
  BY <1>1
<1>3. ASSUME NEW i \in DOMAIN out', IsResult(out'[i]), out'[i].class = "running",
             NEW t, t = out'[i].token
      PROVE  EndsIn(t, i)'
  <2>1. EndsIn(t, i + k)
    BY <1>1, <1>3 DEF ResultsInOrder
  <2>2. i + k \in Nat /\ i \in Nat
    BY <1>1
  <2> QED
    BY <2>1, <2>2, EndsInSuffix
<1>4. \A i \in DOMAIN out' : IsResult(out'[i]) =>
         /\ out'[i].token < token
         /\ \A j \in DOMAIN stdin : out'[i].token < stdin[j].token
         /\ \A j \in DOMAIN out' : i < j /\ IsResult(out'[j]) => out'[i].token < out'[j].token
  BY <1>1, <1>2 DEF ResultsInOrder
<1> QED
  BY <1>3, <1>4 DEF ResultsInOrder

\* The end of an operation.
LEMMA OwnEnd ==
    ASSUME TypeInv, OwnInv, op' = Idle, UNCHANGED <<gdb, stdin, token>>,
           NEW k \in Nat, Suffix(out', out, k), ExecReportsOwnStop'
    PROVE  OwnInv'
<1>1. ResultsInOrder'
  BY OwnResultsSuffix DEF OwnInv
<1>2. OwnCommand'
  BY IdleType, Names DEF OwnCommand, Sent
<1> QED
  BY <1>1, <1>2 DEF OwnInv

\* In a new session no command has been sent.
LEMMA OwnInit == Init => OwnInv
<1> SUFFICES ASSUME Init PROVE OwnInv
  OBVIOUS
<1>1. DOMAIN out = {} /\ op.kind \notin SentKinds /\ result.kind \notin ExecKinds
  BY IdleType, Names DEF Init
<1> QED
  BY <1>1 DEF OwnInv, ResultsInOrder, OwnCommand, ExecReportsOwnStop, Sent

\* GDB answers a command, after the answers to all earlier ones.
LEMMA OwnExecute ==
    ASSUME TypeInv, OrderInv, OwnInv, GdbExecute
    PROVE  OwnInv'
<1> DEFINE C == [kind : SentKinds, token : 1..MaxCommands]
           c == Head(stdin)
           g == Group("thread-group-started")
           resumes == \/ c.kind = "run"
                      \/ c.kind \in {"continue", "step"} /\ gdb.inferior = "paused"
           class == IF resumes THEN "running"
                    ELSE IF c.kind \in {"good", "call"} THEN "done" ELSE "error"
           a == Result(c.token, class)
<1>1. /\ stdin \in Seq(C) /\ stdin # << >> /\ stdin' = Tail(stdin) /\ c \in C
      /\ gdb.inferior # "running" /\ a \in Record
      /\ out' = Append(out, a) \/ out' = Append(Append(out, g), a)
      /\ resumes => gdb'.inferior = "running" /\ gdb'.run = c.token
  BY ExecuteFacts DEF TypeInv, TypeOK
<1>2. Suffix(stdin', stdin, 1) /\ c = stdin[1] /\ 1 \in DOMAIN stdin
  BY <1>1, TailIsSuffix
<1>3. UNCHANGED <<token, rt, op, result>>
  BY DEF GdbExecute
<1>4. /\ g \in Record /\ ~IsStop(g) /\ ~IsResult(g)
      /\ ~IsStop(a) /\ IsResult(a) /\ a.token = c.token /\ a.class = class
  BY <1>1 DEF Group, Record, IsStop, IsResult, Result
<1>5. class = "running" => resumes
  OBVIOUS
<1>6. c.kind \in ExecKinds => class # "done"
  BY DEF ExecKinds
<1> HIDE DEF class, a, g, c, resumes
<1>7. Grown(a, g) /\ Len(out) \in Nat /\ Len(out') \in Nat
  BY <1>1, <1>4, GrownFacts
<1>8. \A i \in DOMAIN out' : IsStop(out'[i]) => i \in DOMAIN out /\ out'[i] = out[i]
  BY <1>4, <1>7 DEF Grown
<1>9. \A i \in DOMAIN out' : IsResult(out'[i]) =>
         \/ i \in DOMAIN out /\ out'[i] = out[i]
         \/ i = Len(out') /\ out'[i] = a
  BY <1>4, <1>7 DEF Grown
<1>10. \A j \in DOMAIN stdin' : j \in Nat /\ j + 1 \in DOMAIN stdin /\ stdin'[j] = stdin[j + 1]
                                /\ c.token < stdin'[j].token
  <2>1. \A j \in DOMAIN stdin' : j \in Nat /\ j + 1 \in DOMAIN stdin /\ 1 < j + 1
                                 /\ stdin'[j] = stdin[j + 1]
    BY <1>2 DEF Suffix
  <2> QED
    BY <1>2, <2>1 DEF OrderInv, Numbered
<1>11. c.token < token
  BY <1>2 DEF OrderInv, Numbered
<1>12. ASSUME NEW t, NEW n, EndsIn(t, n) PROVE EndsIn(t, n)'
  <2>1. PICK j \in DOMAIN out : j > n /\ IsStop(out[j]) /\ out[j].token = t
    BY <1>1, <1>12 DEF EndsIn
  <2>2. j \in DOMAIN out' /\ out'[j] = out[j]
    BY <1>7 DEF Grown
  <2>3. \A i \in DOMAIN out' : i > n /\ IsStop(out'[i]) => t <= out'[i].token
    BY <1>8, <1>12 DEF EndsIn
  <2> QED
    BY <2>1, <2>2, <2>3 DEF EndsIn
<1>13. ResultsInOrder'
  <2>1. ASSUME NEW i \in DOMAIN out, IsResult(out[i]), out'[i] = out[i], i \in DOMAIN out'
        PROVE  /\ out'[i].token < token'
               /\ \A j \in DOMAIN stdin' : out'[i].token < stdin'[j].token
               /\ \A j \in DOMAIN out' : i < j /\ IsResult(out'[j]) => out'[i].token < out'[j].token
               /\ out'[i].class = "running" => \A t : t = out'[i].token => EndsIn(t, i)'
    <3>1. out[i].token < token' /\ out[i].token < c.token
      BY <1>2, <1>3, <2>1 DEF OwnInv, ResultsInOrder
    <3>2. \A j \in DOMAIN stdin' : out'[i].token < stdin'[j].token
      BY <1>10, <2>1 DEF OwnInv, ResultsInOrder
    <3>3. \A j \in DOMAIN out' : i < j /\ IsResult(out'[j]) => out'[i].token < out'[j].token
      BY <1>4, <1>9, <2>1, <3>1 DEF OwnInv, ResultsInOrder
    <3>4. out'[i].class = "running" => \A t : t = out'[i].token => EndsIn(t, i)'
      BY <1>12, <2>1 DEF OwnInv, ResultsInOrder
    <3> QED
      BY <2>1, <3>1, <3>2, <3>3, <3>4
  <2>2. ASSUME NEW i \in DOMAIN out', i = Len(out'), out'[i] = a
        PROVE  /\ out'[i].token < token'
               /\ \A j \in DOMAIN stdin' : out'[i].token < stdin'[j].token
               /\ \A j \in DOMAIN out' : i < j /\ IsResult(out'[j]) => out'[i].token < out'[j].token
               /\ out'[i].class = "running" => \A t : t = out'[i].token => EndsIn(t, i)'
    <3>1. \A j \in DOMAIN out' : ~(i < j) /\ ~(j > i)
      BY <1>7, <2>2 DEF Grown
    <3>2. out'[i].class = "running" => \A t : t = out'[i].token => EndsIn(t, i)'
      BY <1>1, <1>4, <1>5, <2>2, <3>1 DEF EndsIn
    <3> QED
      BY <1>3, <1>4, <1>10, <1>11, <2>2, <3>1, <3>2
  <2>3. \A i \in DOMAIN out' : IsResult(out'[i]) =>
               /\ out'[i].token < token'
               /\ \A j \in DOMAIN stdin' : out'[i].token < stdin'[j].token
               /\ \A j \in DOMAIN out' : i < j /\ IsResult(out'[j]) => out'[i].token < out'[j].token
               /\ out'[i].class = "running" => \A t : t = out'[i].token => EndsIn(t, i)'
    BY <1>9, <2>1, <2>2
  <2> QED
    BY <2>3 DEF ResultsInOrder
<1>14. OwnCommand'
  <2> SUFFICES ASSUME Sent PROVE OwnCommand'
    BY <1>3 DEF OwnCommand, Sent
  <2>1. op.class = None
    BY <1>1 DEF OwnInv, OwnCommand
  <2>2. \A i \in DOMAIN stdin' : stdin'[i].token = op.token => stdin'[i].kind = op.kind
    BY <1>10 DEF OwnInv, OwnCommand
  <2>3. \A i \in DOMAIN out' :
            IsResult(out'[i]) /\ out'[i].token = op.token /\ op.kind \in ExecKinds
                => out'[i].class # "done"
    <3>1. a.token = op.token => c.kind = op.kind
      BY <1>2, <1>4 DEF OwnInv, OwnCommand
    <3> QED
      BY <1>4, <1>6, <1>9, <3>1 DEF OwnInv, OwnCommand
  <2>4. op.responses = << >>
    BY <2>1, ExecutionAssumption DEF OwnInv, OwnCommand
  <2> QED
    BY <1>3, <2>1, <2>2, <2>3, <2>4, ExecutionAssumption DEF OwnCommand
<1>15. ExecReportsOwnStop'
  BY <1>3 DEF OwnInv, ExecReportsOwnStop, Busy
<1> QED
  BY <1>13, <1>14, <1>15 DEF OwnInv

\* A stop carries the token of the run it ends, the latest there is.
LEMMA OwnStops ==
    ASSUME TypeInv, OrderInv, OwnInv, NEW reason \in GdbReasons, InferiorStops(reason)
    PROVE  OwnInv'
<1> DEFINE a == Stop(gdb.run, reason)
           g == Group("thread-group-exited")
<1>1. /\ a \in Record /\ IsStop(a) /\ a.token = gdb.run /\ gdb.inferior = "running"
      /\ out' = Append(out, a) \/ out' = Append(Append(out, g), a)
      /\ gdb'.run = gdb.run /\ gdb'.inferior # "running"
  BY StopsFacts DEF StateAfter
<1>2. g \in Record /\ ~IsStop(g) /\ ~IsResult(g) /\ ~IsResult(a)
  BY <1>1 DEF Group, Record, IsStop, IsResult
<1>3. UNCHANGED <<stdin, token, rt, op, result>>
  BY DEF InferiorStops
<1> HIDE DEF a, g
<1>4. Grown(a, g) /\ Len(out) \in Nat /\ Len(out') \in Nat
  BY <1>1, <1>2, GrownFacts
<1>5. \A i \in DOMAIN out' : IsStop(out'[i]) =>
         \/ i \in DOMAIN out /\ out'[i] = out[i]
         \/ i = Len(out') /\ out'[i] = a
  BY <1>2, <1>4 DEF Grown
<1>6. \A i \in DOMAIN out' : IsResult(out'[i]) => i \in DOMAIN out /\ out'[i] = out[i]
  BY <1>2, <1>4 DEF Grown
<1>7. gdb.run \in Nat
  BY DEF TypeInv, TypeOK
<1>8. ASSUME NEW t, NEW n \in Nat, n <= Len(out), EndsIn(t, n) PROVE EndsIn(t, n)'
  <2>1. t <= gdb.run
    <3>1. CASE gdb.run = t
      BY <1>7, <3>1
    <3>2. CASE \E j \in DOMAIN out : j > n /\ IsStop(out[j]) /\ out[j].token = t
      BY <3>2 DEF OrderInv, UnreadInOrder, Ended
    <3> QED
      BY <1>8, <3>1, <3>2 DEF EndsIn
  <2>2. \A i \in DOMAIN out' : i > n /\ IsStop(out'[i]) => t <= out'[i].token
    BY <1>1, <1>5, <1>8, <2>1 DEF EndsIn
  <2>3. \E j \in DOMAIN out' : j > n /\ IsStop(out'[j]) /\ out'[j].token = t
    <3>1. CASE gdb.run = t
      <4>1. Len(out') \in DOMAIN out' /\ Len(out') > n /\ out'[Len(out')] = a
        BY <1>4, <1>8 DEF Grown
      <4> QED
        BY <1>1, <3>1, <4>1
    <3>2. CASE \E j \in DOMAIN out : j > n /\ IsStop(out[j]) /\ out[j].token = t
      BY <1>4, <3>2 DEF Grown
    <3> QED
      BY <1>8, <3>1, <3>2 DEF EndsIn
  <2> QED
    BY <2>2, <2>3 DEF EndsIn
<1>9. ResultsInOrder'
  <2>1. \A i \in DOMAIN out : i \in Nat /\ i <= Len(out)
    BY <1>4 DEF Grown
  <2>2. \A i \in DOMAIN out' : IsResult(out'[i]) /\ out'[i].class = "running" =>
           \A t : t = out'[i].token => EndsIn(t, i)'
    BY <1>6, <1>8, <2>1 DEF OwnInv, ResultsInOrder
  <2>3. \A i \in DOMAIN out' : IsResult(out'[i]) =>
         /\ out'[i].token < token'
         /\ \A j \in DOMAIN stdin' : out'[i].token < stdin'[j].token
         /\ \A j \in DOMAIN out' : i < j /\ IsResult(out'[j]) => out'[i].token < out'[j].token
    BY <1>3, <1>6 DEF OwnInv, ResultsInOrder
  <2> QED
    BY <2>2, <2>3 DEF ResultsInOrder
<1>10. OwnCommand'
  <2> SUFFICES ASSUME Sent PROVE OwnCommand'
    BY <1>3 DEF OwnCommand, Sent
  <2>1. op.class = "running" /\ op.responses = << >> => \A t : t = op.token => EndsIn(t, 0)'
    BY <1>4, <1>8 DEF OwnInv, OwnCommand
  <2>2. op.class # None => stdin = << >> /\ \A i \in DOMAIN out' : ~IsResult(out'[i])
    BY <1>6 DEF OwnInv, OwnCommand
  <2>3. \A i \in DOMAIN out' :
            IsResult(out'[i]) /\ out'[i].token = op.token /\ op.kind \in ExecKinds
                => out'[i].class # "done"
    BY <1>6 DEF OwnInv, OwnCommand
  <2> QED
    BY <1>3, <2>1, <2>2, <2>3 DEF OwnInv, OwnCommand
<1>11. ExecReportsOwnStop'
  BY <1>3 DEF OwnInv, ExecReportsOwnStop, Busy
<1> QED
  BY <1>9, <1>10, <1>11 DEF OwnInv

\* A new command has a new token.
LEMMA OwnBegin ==
    ASSUME TypeInv, OwnInv, ~Busy, rt.controller, NEW k \in AllKinds,
           NEW t \in 0..MaxCommands, op' = NewOp(k, t), UNCHANGED <<out, rt>>,
           gdb'.run = gdb.run, gdb'.inferior = gdb.inferior,
           \/ k \notin SentKinds /\ UNCHANGED <<stdin, token>>
           \/ /\ t = token /\ token' = token + 1 /\ k \in SentKinds
              /\ stdin' = Append(stdin, [kind |-> k, token |-> token])
              /\ \A i \in DOMAIN stdin : stdin[i].token < token
    PROVE  OwnInv'
<1>1. /\ op'.responses = << >> /\ op'.class = None /\ op'.kind = k /\ op'.token = t
  BY NewOpType
<1>2. \A x, n : EndsIn(x, n) => EndsIn(x, n)'
  BY DEF EndsIn
<1>3. ExecReportsOwnStop'
  BY <1>1, Names DEF ExecReportsOwnStop, Busy
<1>4. CASE k \notin SentKinds /\ UNCHANGED <<stdin, token>>
  <2>1. ResultsInOrder'
    <3>1. \A i \in DOMAIN out : IsResult(out[i]) /\ out[i].class = "running" =>
             \A x : x = out[i].token => EndsIn(x, i)'
      BY <1>2 DEF OwnInv, ResultsInOrder
    <3> QED
      BY <1>4, <3>1 DEF OwnInv, ResultsInOrder
  <2>2. OwnCommand'
    BY <1>1, <1>4 DEF OwnCommand, Sent
  <2> QED
    BY <1>3, <2>1, <2>2 DEF OwnInv
<1>5. CASE /\ t = token /\ token' = token + 1 /\ k \in SentKinds
           /\ stdin' = Append(stdin, [kind |-> k, token |-> token])
           /\ \A i \in DOMAIN stdin : stdin[i].token < token
  <2> DEFINE C == [kind : SentKinds, token : 1..MaxCommands]
             c == [kind |-> k, token |-> token]
  <2>1. c \in C /\ c.token = token /\ c.kind = k /\ stdin \in Seq(C) /\ token \in Nat
    BY <1>5, Names DEF TypeInv, TypeOK
  <2>2. stdin' = Append(stdin, c)
    BY <1>5
  <2> HIDE DEF C, c
  <2>3. Extension(stdin', stdin, c)
    BY <2>1, <2>2, AppendExtends
  <2>4. \A i \in DOMAIN stdin' : \/ i \in DOMAIN stdin /\ stdin'[i] = stdin[i]
                                 \/ stdin'[i] = c
    BY <2>3 DEF Extension
  <2>5. \A i \in DOMAIN out : IsResult(out[i]) => out[i].token < token /\ out[i].token \in Nat
    BY StopTokens DEF OwnInv, ResultsInOrder
  <2>6. ResultsInOrder'
    <3>1. \A i \in DOMAIN out : IsResult(out[i]) /\ out[i].class = "running" =>
             \A x : x = out[i].token => EndsIn(x, i)'
      BY <1>2 DEF OwnInv, ResultsInOrder
    <3>2. \A i \in DOMAIN out : IsResult(out[i]) =>
            /\ out[i].token < token'
            /\ \A j \in DOMAIN stdin' : out[i].token < stdin'[j].token
      BY <1>5, <2>1, <2>4, <2>5 DEF OwnInv, ResultsInOrder
    <3> QED
      BY <3>1, <3>2 DEF OwnInv, ResultsInOrder
  <2>7. OwnCommand'
    <3>1. \A i \in DOMAIN stdin' : stdin'[i].token = token => stdin'[i].kind = k
      <4>1. \A i \in DOMAIN stdin : stdin[i].token # token
        BY <1>5, <2>1
      <4> QED
        BY <2>1, <2>4, <4>1
    <3>2. \A i \in DOMAIN out : IsResult(out[i]) => out[i].token # token
      BY <2>1, <2>5
    <3> QED
      BY <1>1, <1>5, <3>1, <3>2, ExecutionAssumption DEF OwnCommand
  <2> QED
    BY <1>3, <2>6, <2>7 DEF OwnInv
<1> QED
  BY <1>4, <1>5

\* The command's own result is followed by its own stop.
LEMMA OwnRead ==
    ASSUME TypeInv, OrderInv, OwnInv, ReadRecord
    PROVE  OwnInv'
<1> DEFINE m == out[1]
<1>1. /\ Busy /\ Sent /\ out # << >> /\ op' = Sort(op, Head(out))
      /\ out' = Tail(out) /\ UNCHANGED <<gdb, stdin, token, rt, result>>
  BY DEF ReadRecord, Sent
<1>2. out \in Seq(Record)
  BY DEF TypeInv, TypeOK
<1>3. Head(out) = m /\ m \in Record /\ 1 \in DOMAIN out /\ Suffix(out', out, 1)
  BY <1>1, <1>2, TailIsSuffix
<1>4. ResultsInOrder'
  BY <1>1, <1>3, OwnResultsSuffix DEF OwnInv
<1>5. \A i \in DOMAIN out' : i \in Nat /\ 1 < i + 1 /\ i + 1 \in DOMAIN out /\ out'[i] = out[i + 1]
  BY <1>3 DEF Suffix
<1>6. /\ op'.kind = op.kind /\ op'.token = op.token
      /\ IsResult(m) /\ m.token = op.token =>
            op'.class = m.class /\ op'.responses = op.responses
      /\ IsResult(m) /\ m.token # op.token => op' = op
      /\ IsStop(m) /\ op.class = "running" =>
            op'.class = op.class /\ op'.responses = Append(op.responses, m)
      /\ IsStop(m) /\ op.class # "running" =>
            op'.class = op.class /\ op'.responses = op.responses
      /\ ~IsResult(m) /\ ~IsStop(m) =>
            op'.class = op.class /\ op'.responses = op.responses
  BY <1>1, <1>3, SortType
<1>7. ExecReportsOwnStop'
  BY <1>1, <1>6 DEF OwnInv, ExecReportsOwnStop, Busy
<1>8. /\ \A i \in DOMAIN stdin : stdin[i].token = op.token => stdin[i].kind = op.kind
      /\ \A i \in DOMAIN out' :
            IsResult(out'[i]) /\ out'[i].token = op.token /\ op.kind \in ExecKinds
                => out'[i].class # "done"
      /\ op.class # None => stdin = << >> /\ \A i \in DOMAIN out' : ~IsResult(out'[i])
  BY <1>1, <1>5 DEF OwnInv, OwnCommand
<1>9. ASSUME NEW t, EndsIn(t, 1) PROVE EndsIn(t, 0)'
  BY <1>1, <1>3, <1>9, EndsInSuffix
<1>10. op.token + 1 = token /\ token \in Nat /\ op.token \in Nat
  BY <1>1, Names DEF OrderInv, Numbered, TypeInv, TypeOK, Op
<1> HIDE DEF m
<1>11. CASE IsResult(m) /\ m.token = op.token
  <2>1. op.class = None
    BY <1>1, <1>3, <1>11 DEF OwnInv, OwnCommand, m
  <2>2. op.responses = << >>
    BY <1>1, <2>1, ExecutionAssumption DEF OwnInv, OwnCommand
  <2>3. stdin = << >>
    <3>1. \A j \in DOMAIN stdin : op.token < stdin[j].token /\ stdin[j].token < token
      BY <1>3, <1>11 DEF OwnInv, ResultsInOrder, OrderInv, Numbered, m
    <3>2. \A j \in DOMAIN stdin : stdin[j].token \in Int
      BY CommandTokens
    <3>3. \A j \in DOMAIN stdin : FALSE
      BY <1>10, <3>1, <3>2
    <3>4. DOMAIN stdin = {}
      BY <3>3
    <3> QED
      BY <3>4, CommandTokens
  <2>4. \A i \in DOMAIN out' : ~IsResult(out'[i])
    <3> SUFFICES ASSUME NEW i \in DOMAIN out', IsResult(out'[i]) PROVE FALSE
      OBVIOUS
    <3>1. op.token < out'[i].token /\ out'[i].token < token
      BY <1>3, <1>5, <1>11 DEF OwnInv, ResultsInOrder, m
    <3>2. out'[i].token \in Nat
      BY <1>5, StopTokens
    <3> QED
      BY <1>10, <3>1, <3>2
  <2>5. m.class = "running" => EndsIn(op.token, 1)
    BY <1>3, <1>11 DEF OwnInv, ResultsInOrder, m
  <2>6. m.class = "running" => \A t : t = op.token => EndsIn(t, 0)'
    BY <1>9, <2>5
  <2>7. op.kind \in ExecKinds => m.class # "done"
    BY <1>1, <1>3, <1>11 DEF OwnInv, OwnCommand, m
  <2>8. OwnCommand'
    BY <1>1, <1>6, <1>8, <1>11, <2>2, <2>3, <2>4, <2>6, <2>7 DEF OwnCommand
  <2> QED
    BY <1>4, <1>7, <2>8 DEF OwnInv
<1>12. CASE IsResult(m) /\ m.token # op.token
  <2>1. op.class = None
    BY <1>1, <1>3, <1>12 DEF OwnInv, OwnCommand, m
  <2>2. op.responses = << >>
    BY <1>1, <2>1, ExecutionAssumption DEF OwnInv, OwnCommand
  <2>3. OwnCommand'
    BY <1>1, <1>6, <1>8, <1>12, <2>1, <2>2, ExecutionAssumption DEF OwnCommand
  <2> QED
    BY <1>4, <1>7, <2>3 DEF OwnInv
<1>13. CASE IsStop(m) /\ op.class = "running"
  <2>1. op'.responses # << >> /\ op'.responses[1].token = op.token
    <3>1. op.responses \in Seq(Stops)
      BY FirstNotification
    <3>2. Append(op.responses, m) # << >>
      BY <3>1
    <3>3. CASE op.responses = << >>
      <4>1. EndsIn(op.token, 0)
        BY <1>1, <1>13, <3>3 DEF OwnInv, OwnCommand
      <4>2. op.token <= m.token
        BY <1>3, <1>13, <4>1 DEF EndsIn, m
      <4>3. Ended(m.token)
        BY <1>3, <1>13 DEF OrderInv, UnreadInOrder, m
      <4>4. m.token \in Nat /\ gdb.run \in Nat
        BY <1>3, <1>13, StopTokens DEF TypeInv, TypeOK, m
      <4>5. ASSUME gdb.inferior = "running", gdb.run = op.token
            PROVE  m.token = op.token
        BY <1>10, <4>2, <4>3, <4>4, <4>5 DEF Ended
      <4>6. ASSUME NEW j \in DOMAIN out, IsStop(out[j]), out[j].token = op.token
            PROVE  m.token = op.token
        <5>1. CASE j = 1
          BY <4>6, <5>1 DEF m
        <5>2. CASE j # 1
          <6>1. 1 < j
            BY <1>2, <5>2
          <6>2. m.token < op.token
            BY <1>3, <1>13, <4>6, <6>1 DEF OrderInv, UnreadInOrder, m
          <6> QED
            BY <1>10, <4>2, <4>4, <6>2
        <5> QED
          BY <5>1, <5>2
      <4>7. m.token = op.token
        BY <4>1, <4>5, <4>6 DEF EndsIn
      <4>8. Append(op.responses, m)[1] = m
        BY <3>3
      <4> QED
        BY <1>6, <1>13, <3>2, <4>7, <4>8
    <3>4. CASE op.responses # << >>
      <4>1. op.responses[1].token = op.token
        BY <1>1, <1>13, <3>4 DEF OwnInv, OwnCommand
      <4>2. Append(op.responses, m)[1] = op.responses[1]
        BY <3>1, <3>4
      <4> QED
        BY <1>6, <1>13, <3>2, <4>1, <4>2
    <3> QED
      BY <3>3, <3>4
  <2>2. OwnCommand'
    BY <1>1, <1>6, <1>8, <1>13, <2>1, ExecutionAssumption DEF OwnCommand
  <2> QED
    BY <1>4, <1>7, <2>2 DEF OwnInv
<1>14. CASE IsStop(m) /\ op.class # "running"
  <2>1. op.responses = << >> /\ (op.kind \in ExecKinds => op.class # "done")
    BY <1>1, <1>14 DEF OwnInv, OwnCommand
  <2>2. OwnCommand'
    BY <1>1, <1>6, <1>8, <1>14, <2>1 DEF OwnCommand
  <2> QED
    BY <1>4, <1>7, <2>2 DEF OwnInv
<1>15. CASE ~IsResult(m) /\ ~IsStop(m)
  <2>1. \A t : EndsIn(t, 0) => EndsIn(t, 1)
    <3>1. \A j \in DOMAIN out : IsStop(out[j]) => j > 1
      <4>1. \A j \in DOMAIN out : j \in Nat /\ j >= 1
        BY <1>2
      <4> QED
        BY <1>15, <4>1 DEF m
    <3>2. \A j \in DOMAIN out : j > 1 => j > 0
      BY <1>2
    <3> QED
      BY <3>1, <3>2 DEF EndsIn
  <2>2. op.class = "running" /\ op.responses = << >> => \A t : t = op.token => EndsIn(t, 0)'
    BY <1>1, <1>9, <2>1 DEF OwnInv, OwnCommand
  <2>3. OwnCommand'
    BY <1>1, <1>6, <1>8, <1>15, <2>2 DEF OwnInv, OwnCommand
  <2> QED
    BY <1>4, <1>7, <2>3 DEF OwnInv
<1> QED
  BY <1>11, <1>12, <1>13, <1>14, <1>15

\* The steps of the server keep it.
LEMMA OwnServer ==
    ASSUME TypeInv, OrderInv, OwnInv, Server
    PROVE  OwnInv'
<1> DEFINE Same == UNCHANGED <<gdb, stdin, out, token>>
<1>1. out \in Seq(Record) /\ Suffix(out, out, 0)
  BY DEF TypeInv, TypeOK, Suffix
<1>2. ASSUME Same, NEW status, Return(op, status), status # "success" \/ op.kind \notin ExecKinds
      PROVE  OwnInv'
  <2>1. op' = Idle /\ ExecReportsOwnStop'
    BY <1>2 DEF Return, ExecReportsOwnStop
  <2> QED
    BY <1>1, <1>2, <2>1, OwnEnd
<1>3. CASE ReadRecord
  BY <1>3, OwnRead
<1>4. CASE CommandReturns
  <2>1. Busy /\ Sent /\ Complete(op) /\ Same
    BY <1>4 DEF CommandReturns, Sent
  <2>2. CASE op.class = "error"
    BY <1>2, <1>4, <2>2 DEF CommandReturns
  <2>3. CASE op.class # "error"
    <3>1. /\ rt' = UpdateRuntimeAfterCommand(op.draft, Notifications(op), op.class)
          /\ Return(op, "success")
      BY <1>4, <2>3 DEF CommandReturns
    <3>2. CASE op.kind \notin ExecKinds
      BY <1>2, <2>1, <3>1, <3>2
    <3>3. CASE op.kind \in ExecKinds
      <4>1. op.class \in Classes \cup {None}
        BY DEF TypeInv, TypeOK, Op
      <4>2. op.class = "running" /\ op.responses # << >>
        BY <2>1, <2>3, <3>3, <4>1 DEF OwnInv, OwnCommand, Complete, Classes
      <4>3. op.responses[1].token = op.token
        BY <2>1, <4>2 DEF OwnInv, OwnCommand
      <4>4. rt'.last_stop_event = op.token
        BY <2>1, <3>1, <4>2, <4>3, CommandFacts DEF Recorded
      <4>5. op' = Idle /\ ExecReportsOwnStop'
        BY <3>1, <4>4 DEF Return, ExecReportsOwnStop
      <4> QED
        BY <1>1, <2>1, <4>5, OwnEnd
    <3> QED
      BY <3>2, <3>3
  <2> QED
    BY <2>2, <2>3
<1>5. "call" \notin ExecKinds /\ "wait" \notin ExecKinds /\ "interrupt" \notin ExecKinds
  BY DEF ExecKinds
<1>6. CASE CallReturns
  BY <1>2, <1>5, <1>6 DEF CallReturns
<1>7. ASSUME NEW acknowledged \in BOOLEAN, CommandTimesOut(acknowledged) PROVE OwnInv'
  <2> DEFINE s == IF acknowledged /\ op.kind \in ExecKinds
                     /\ (op.class = "running" \/ rt'.execution_state = "running")
                  THEN "running" ELSE "timeout"
  <2>1. Same /\ Return(op, s)
    BY <1>7 DEF CommandTimesOut
  <2>2. s # "success"
    OBVIOUS
  <2> HIDE DEF s
  <2> QED
    BY <1>2, <2>1, <2>2
<1>8. CASE CallTimesOut
  BY <1>2, <1>8 DEF CallTimesOut
<1>9. CASE ReadWaiting
  <2>1. /\ Busy /\ out # << >> /\ ~IsStop(Head(out)) /\ op' = SortWaiting(op, Head(out))
        /\ out' = Tail(out) /\ UNCHANGED <<gdb, stdin, token, rt, result>>
        /\ op.kind \in {"wait", "interrupt"}
    BY <1>9 DEF ReadWaiting
  <2>2. Head(out) \in Record /\ Suffix(out', out, 1)
    BY <1>1, <2>1, TailIsSuffix
  <2>3. op'.kind = op.kind
    BY <2>1, <2>2, SortWaitingType
  <2>4. ResultsInOrder'
    BY <2>1, <2>2, OwnResultsSuffix DEF OwnInv
  <2>5. OwnCommand'
    BY <2>1, <2>3, Names DEF OwnCommand, Sent
  <2>6. ExecReportsOwnStop'
    BY <2>1, <2>3 DEF OwnInv, ExecReportsOwnStop, Busy
  <2> QED
    BY <2>4, <2>5, <2>6 DEF OwnInv
<1>10. CASE StopRead
  <2>1. /\ op' = Idle /\ UNCHANGED <<gdb, stdin, token>> /\ Return(op, "success")
        /\ op.kind \in {"wait", "interrupt"}
    BY <1>10 DEF StopRead, Return
  <2>2. PICK k \in 1..Len(out) : Suffix(out', out, k)
    BY <1>10, StopReadFacts
  <2>3. k \in Nat
    BY <1>1
  <2>4. ExecReportsOwnStop'
    BY <1>5, <2>1 DEF Return, ExecReportsOwnStop
  <2> QED
    BY <2>1, <2>2, <2>3, <2>4, OwnEnd
<1>11. CASE WaitTimesOut
  <2>1. Same /\ op.kind \notin ExecKinds
    BY <1>5, <1>11 DEF WaitTimesOut
  <2> QED
    BY <1>2, <1>11, <2>1 DEF WaitTimesOut
<1>12. CASE TransportFails
  BY <1>2, <1>12 DEF TransportFails
<1> QED
  BY <1>3, <1>4, <1>6, <1>7, <1>8, <1>9, <1>10, <1>11, <1>12 DEF Server

\* The invariant about a command and its own stop is inductive.
LEMMA OwnStep == TypeInv /\ OrderInv /\ OwnInv /\ [Next]_vars => OwnInv'
<1> SUFFICES ASSUME TypeInv, OrderInv, OwnInv, [Next]_vars PROVE OwnInv'
  OBVIOUS
<1>1. CASE Gdb
  <2>1. CASE GdbDies
    <3>1. gdb' = [gdb EXCEPT !.alive = FALSE] /\ UNCHANGED <<stdin, out, token, rt, op, result>>
      BY <2>1 DEF GdbDies
    <3>2. gdb'.run = gdb.run /\ gdb'.inferior = gdb.inferior
      BY <3>1 DEF TypeInv, TypeOK
    <3>3. \A t, n : EndsIn(t, n) => EndsIn(t, n)'
      BY <3>1, <3>2 DEF EndsIn
    <3>4. ResultsInOrder'
      <4>1. \A i \in DOMAIN out : IsResult(out[i]) /\ out[i].class = "running" =>
               \A x : x = out[i].token => EndsIn(x, i)'
        BY <3>3 DEF OwnInv, ResultsInOrder
      <4> QED
        BY <3>1, <4>1 DEF OwnInv, ResultsInOrder
    <3>5. OwnCommand'
      <4>1. Sent /\ op.class = "running" /\ op.responses = << >> =>
               \A x : x = op.token => EndsIn(x, 0)'
        BY <3>3 DEF OwnInv, OwnCommand
      <4> QED
        BY <3>1, <4>1 DEF OwnInv, OwnCommand, Sent
    <3> QED
      BY <3>1, <3>4, <3>5 DEF OwnInv, ExecReportsOwnStop, Busy
  <2> QED
    BY <1>1, <2>1, OwnExecute, OwnStops DEF Gdb
<1>2. CASE Client
  <2> DEFINE Same == UNCHANGED <<gdb, stdin, out, token>>
  <2>1. ASSUME Same, NEW o, NEW status, Return(o, status), status # "success" PROVE OwnInv'
    <3>1. out \in Seq(Record) /\ Suffix(out, out, 0)
      BY DEF TypeInv, TypeOK, Suffix
    <3>2. op' = Idle /\ ExecReportsOwnStop'
      BY <2>1 DEF Return, ExecReportsOwnStop
    <3> QED
      BY <2>1, <3>1, <3>2, OwnEnd
  <2>2. ASSUME NEW k \in AllKinds, FoundDead(k) PROVE OwnInv'
    BY <2>1, <2>2 DEF FoundDead
  <2>3. ASSUME NEW k \in AllKinds, SendCommand(k) PROVE OwnInv'
    <3>1. /\ ~Busy /\ rt.controller /\ k \in SentKinds /\ token <= usage.commands
          /\ stdin' = Append(stdin, [kind |-> k, token |-> token]) /\ token' = token + 1
          /\ op' = NewOp(k, token) /\ UNCHANGED <<gdb, out, rt>>
      BY <2>3 DEF SendCommand
    <3>2. usage.commands \in 1..MaxCommands /\ token \in 1..(MaxCommands + 1)
      BY ExecutionAssumption DEF TypeInv, TypeOK, Usage
    <3>3. token \in 0..MaxCommands
      BY <3>1, <3>2, Names
    <3>4. \A i \in DOMAIN stdin : stdin[i].token < token
      BY DEF OrderInv, Numbered
    <3> QED
      BY <3>1, <3>3, <3>4, OwnBegin
  <2>4. CASE ContinueRefused
    BY <2>1, <2>4 DEF ContinueRefused
  <2>5. CASE WaitExisting
    BY <2>1, <2>5 DEF WaitExisting
  <2>6. CASE WaitForStop
    <3>1. /\ op' = NewOp("wait", 0) /\ ~Busy /\ rt.controller /\ Same /\ rt' = rt
          /\ "wait" \in AllKinds /\ "wait" \notin SentKinds /\ 0 \in 0..MaxCommands
      BY <2>6, Names DEF WaitForStop
    <3> QED
      BY <3>1, OwnBegin
  <2>7. CASE Interrupt
    <3>1. /\ op' = NewOp("interrupt", 0) /\ ~Busy /\ rt.controller
          /\ UNCHANGED <<stdin, out, token, rt>>
          /\ "interrupt" \in AllKinds /\ "interrupt" \notin SentKinds /\ 0 \in 0..MaxCommands
          /\ gdb' = [gdb EXCEPT !.sigint = (gdb.inferior = "running")]
      BY <2>7, Names DEF Interrupt
    <3>2. gdb'.run = gdb.run /\ gdb'.inferior = gdb.inferior
      BY <3>1 DEF TypeInv, TypeOK
    <3> QED
      BY <3>1, <3>2, OwnBegin
  <2> QED
    BY <1>2, <2>2, <2>3, <2>4, <2>5, <2>6, <2>7 DEF Client
<1>3. CASE Server
  BY <1>3, OwnServer
<1>4. CASE UNCHANGED vars
  BY <1>4
  DEF vars, OwnInv, ResultsInOrder, OwnCommand, ExecReportsOwnStop, EndsIn, Sent, Busy
<1> QED
  BY <1>1, <1>2, <1>3, <1>4 DEF Next

\* A run, continue or step that reports success reports the stop that ended
\* its own run, for every client, every timeout and every order of reading.
THEOREM ExecsReportTheirStop == Spec => []ExecReportsOwnStop
<1>1. Init => BaseInv
  BY TypeInit, OrderInit, OwnInit DEF BaseInv
<1>2. BaseInv /\ [Next]_vars => BaseInv'
  BY TypeStep, OrderStep, OwnStep DEF BaseInv
<1>3. BaseInv => ExecReportsOwnStop
  BY DEF BaseInv, OwnInv
<1> QED
  BY <1>1, <1>2, <1>3, PTL DEF Spec

-----------------------------------------------------------------------------
(* The execution state in calm usage *)

\* The state the session reports.
Shown == rt.execution_state

\* An answer that does not resume the inferior.
Harmless(m) == IsResult(m) /\ m.class # "running"

\* Nothing unread changes the state of the inferior.
Quiet == \A i \in DOMAIN out : Harmless(out[i])

\* The stop that put the inferior into the state it is in.
LastStop(m) == IsStop(m) /\ gdb.inferior = StateAfter(m)

\* That stop is still to be read, and before it nothing that matters: no other
\* stop, and no answer to the command `own'.
StopAhead(own) ==
    \E i \in DOMAIN out :
       /\ LastStop(out[i])
       /\ \A j \in DOMAIN out : j # i =>
             \/ Harmless(out[j]) /\ (j < i => out[j].token # own)
             \/ j < i /\ out[j].type = "thread-group-exited"

\* Commands not executed yet were sent while the inferior was shown as running.
OnlyGood == \A i \in DOMAIN stdin : stdin[i].kind = "good"

\* The state shown is the actual one, or the inferior runs; nothing is unread
\* that would change it.
Resting == gdb.inferior = Shown /\ Quiet
Moving  == gdb.inferior = "running" /\ Quiet

\* Between operations: the state shown is the actual one, or its stop is ahead.
Between == OnlyGood /\ IF Shown # "running" THEN Resting ELSE Moving \/ StopAhead(0)

\* wait_for_stop and interrupt
Waiting ==
    /\ Shown = "running" /\ OnlyGood /\ op.class # "running"
    /\ op.kind = "interrupt" => ~usage.exits
    /\ (Moving /\ op.draft.execution_state = "running") \/ StopAhead(0)

\* A command sent while the inferior was shown as running: by the time it is
\* answered the stop has been read.
GoodWhileRunning ==
    /\ op.kind = "good" /\ OnlyGood
    /\ op.responses = << >> /\ op.class \in {None, "done"}
    /\ \A i \in DOMAIN out : IsResult(out[i]) /\ out[i].token = op.token => out[i].class = "done"
    /\ \/ /\ Moving /\ op.async = << >> /\ op.class = None
          /\ op.draft.execution_state = "running"
          /\ \A i \in DOMAIN out : out[i].token # op.token
       \/ StopAhead(op.token) /\ op.async = << >> /\ op.class = None
       \/ Len(op.async) = 1 /\ LastStop(op.async[1]) /\ Quiet

\* A command that does not, or not yet, resume the inferior.
NotResumed ==
    /\ Resting
    /\ op.responses = << >> /\ op.async = << >>
    /\ op.draft.execution_state = Shown /\ op.class # "running"
    /\ \A i \in DOMAIN stdin : stdin[i].token # op.token => stdin[i].kind = "good"

\* After the first n records: nothing while the inferior runs, then its stop,
\* after which nothing comes.
StopAfter(n) ==
    \/ gdb.inferior = "running" /\ n = Len(out)
    \/ /\ n < Len(out)
       /\ LastStop(out[Len(out)])
       /\ \A j \in DOMAIN out : n < j /\ j < Len(out) => out[j].type = "thread-group-exited"

\* ^running is still to be read.
Unacknowledged(i) ==
    /\ IsResult(out[i]) /\ out[i].token = op.token /\ out[i].class = "running"
    /\ \A j \in DOMAIN out : j < i => Harmless(out[j]) \/ out[j].type = "thread-group-started"
    /\ StopAfter(i)

\* A command that has resumed the inferior.
Resumed ==
    /\ op.kind \in ExecKinds /\ stdin = << >> /\ op.async = << >>
    /\ \/ op.class = None /\ op.responses = << >> /\ \E i \in DOMAIN out : Unacknowledged(i)
       \/ op.class = "running" /\ op.responses = << >> /\ StopAfter(0)
       \/ /\ op.class = "running" /\ out = << >>
          /\ Len(op.responses) = 1 /\ LastStop(op.responses[1])

\* What holds of a calm session, by what is in progress.
CalmCore ==
    /\ ~Busy => Between
    /\ op.kind \in {"wait", "interrupt"} => Waiting
    /\ Sent /\ Shown = "running" => GoodWhileRunning
    /\ Sent /\ Shown # "running" => NotResumed \/ Resumed

\* The session is used calmly and has its GDB.
CalmNow == Calm /\ gdb.alive /\ rt.controller

\* The invariant of calm usage.
CalmInv ==
    /\ gdb.inferior = "exited" => usage.exits
    /\ CalmNow => CalmCore
    /\ WaitBlocksWhileRunning

\* Either no operation is in progress, or it waits, or its command was sent.
LEMMA Kinds ==
    ASSUME TypeInv
    PROVE  /\ Busy <=> op.kind # "idle"
           /\ Busy => op.kind \in {"wait", "interrupt"} \/ Sent
           /\ Sent => Busy /\ op.kind \notin {"wait", "interrupt"}
           /\ op.kind \in {"wait", "interrupt"} => Busy
BY DEF TypeInv, TypeOK, Op, Busy, Sent, AllKinds, SentKinds, ExecKinds

\* A harmless answer at the end of the stream changes nothing.
LEMMA CalmGrow ==
    ASSUME TypeInv, NEW a \in Record, Harmless(a), out' = Append(out, a), UNCHANGED gdb
    PROVE  /\ Quiet => Quiet'
           /\ \A own : StopAhead(own) => StopAhead(own)'
           /\ \A i \in DOMAIN out' : \/ i \in DOMAIN out /\ out'[i] = out[i]
                                     \/ i = Len(out') /\ out'[i] = a
<1>1. Grown(a, a) /\ Len(out) \in Nat /\ Len(out') \in Nat
  BY GrownFacts
<1>2. out \in Seq(Record)
  BY DEF TypeInv, TypeOK
<1>3. Extension(out', out, a)
  BY <1>2, AppendExtends
<1>4. \A i \in DOMAIN out' : \/ i \in DOMAIN out /\ out'[i] = out[i]
                             \/ i = Len(out') /\ out'[i] = a
  BY <1>3 DEF Extension
<1>5. Quiet => Quiet'
  BY <1>4 DEF Quiet, Harmless
<1>6. ASSUME NEW own, StopAhead(own) PROVE StopAhead(own)'
  <2>1. PICK i \in DOMAIN out :
           /\ LastStop(out[i])
           /\ \A j \in DOMAIN out : j # i =>
                 \/ Harmless(out[j]) /\ (j < i => out[j].token # own)
                 \/ j < i /\ out[j].type = "thread-group-exited"
    BY <1>6 DEF StopAhead
  <2>2. i \in DOMAIN out' /\ out'[i] = out[i] /\ ~(Len(out') < i)
    BY <1>1 DEF Grown
  <2>3. LastStop(out[i])'
    BY <2>1, <2>2 DEF LastStop
  <2>4. \A j \in DOMAIN out' : j # i =>
                 \/ Harmless(out'[j]) /\ (j < i => out'[j].token # own)
                 \/ j < i /\ out'[j].type = "thread-group-exited"
    BY <1>4, <2>1, <2>2
  <2> QED
    BY <2>2, <2>3, <2>4 DEF StopAhead, LastStop, Harmless
<1> QED
  BY <1>4, <1>5, <1>6

\* GDB takes a command from its input and answers.
LEMMA CalmExecute ==
    ASSUME BaseInv, CalmCore, GdbExecute, UNCHANGED usage
    PROVE  CalmCore'
<1> DEFINE c == Head(stdin)
           g == Group("thread-group-started")
           resumes == \/ c.kind = "run"
                      \/ c.kind \in {"continue", "step"} /\ gdb.inferior = "paused"
           class == IF resumes THEN "running"
                    ELSE IF c.kind \in {"good", "call"} THEN "done" ELSE "error"
           a == Result(c.token, class)
<1>0. TypeInv /\ OrderInv /\ OwnInv
  BY DEF BaseInv
<1>1. /\ stdin # << >> /\ stdin' = Tail(stdin) /\ gdb.inferior # "running"
      /\ a \in Record /\ class \in Classes
      /\ IF c.kind = "run" THEN out' = Append(Append(out, g), a) ELSE out' = Append(out, a)
      /\ resumes => gdb'.inferior = "running"
      /\ ~resumes => gdb' = gdb
  BY <1>0, ExecuteFacts
<1>2. UNCHANGED <<token, rt, op>>
  BY DEF GdbExecute
<1>3. stdin \in Seq([kind : SentKinds, token : 1..MaxCommands])
  BY <1>0 DEF TypeInv, TypeOK
<1>4. Suffix(stdin', stdin, 1) /\ c = stdin[1] /\ 1 \in DOMAIN stdin
      /\ stdin' \in Seq([kind : SentKinds, token : 1..MaxCommands])
  BY <1>1, <1>3, TailIsSuffix
<1>5. \A i \in DOMAIN stdin' : \E j \in DOMAIN stdin : 1 < j /\ stdin'[i] = stdin[j]
  <2>1. \A i \in DOMAIN stdin' : i + 1 \in DOMAIN stdin /\ 1 < i + 1 /\ stdin'[i] = stdin[i + 1]
    BY <1>4 DEF Suffix
  <2> QED
    BY <2>1
<1>6. c.kind = "good" => ~resumes /\ class = "done"
  OBVIOUS
<1>7. c.kind = "run" => resumes
  OBVIOUS
<1>8. resumes => c.kind \in ExecKinds /\ class = "running"
  BY DEF ExecKinds
<1>9. ~resumes => class # "running"
  OBVIOUS
<1>10. IsResult(a) /\ a.class = class /\ a.token = c.token
  BY DEF Result, IsResult
<1>11. OnlyGood => OnlyGood'
  BY <1>5 DEF OnlyGood
<1>13. /\ Busy <=> op.kind # "idle"
       /\ Busy => op.kind \in {"wait", "interrupt"} \/ Sent
       /\ Sent => Busy /\ op.kind \notin {"wait", "interrupt"}
       /\ op.kind \in {"wait", "interrupt"} => Busy
  BY <1>0, Kinds
<1> HIDE DEF c, resumes, class, a, g
<1>14. ASSUME ~resumes
       PROVE  /\ gdb' = gdb /\ (Quiet => Quiet') /\ \A own : StopAhead(own) => StopAhead(own)'
              /\ \A i \in DOMAIN out' : \/ i \in DOMAIN out /\ out'[i] = out[i]
                                        \/ out'[i] = a
  <2>1. out' = Append(out, a) /\ gdb' = gdb /\ Harmless(a)
    BY <1>1, <1>7, <1>9, <1>10, <1>14 DEF Harmless
  <2> QED
    BY <1>0, <1>1, <2>1, CalmGrow
<1>15. OnlyGood => c.kind = "good"
  BY <1>4 DEF OnlyGood
<1>16. /\ Shown' = Shown /\ (Busy' <=> Busy) /\ (Sent' <=> Sent)
  BY <1>2 DEF Shown, Busy, Sent
<1>17. CASE ~Busy
  <2>1. Between /\ c.kind = "good"
    BY <1>15, <1>17 DEF CalmCore, Between
  <2>2. Between'
    BY <1>6, <1>11, <1>14, <1>16, <2>1 DEF Between, Resting, Moving
  <2> QED
    BY <1>2, <1>13, <1>16, <1>17, <2>2 DEF CalmCore
<1>18. CASE op.kind \in {"wait", "interrupt"}
  <2>1. Waiting /\ c.kind = "good" /\ UNCHANGED usage
    BY <1>15, <1>18 DEF CalmCore, Waiting
  <2>2. Waiting'
    BY <1>1, <1>2, <1>6, <1>11, <1>14, <1>16, <2>1 DEF Waiting, Moving
  <2> QED
    BY <1>2, <1>13, <1>16, <1>18, <2>2 DEF CalmCore
<1>19. CASE Sent /\ Shown = "running"
  <2>1. GoodWhileRunning /\ c.kind = "good"
    BY <1>15, <1>19 DEF CalmCore, GoodWhileRunning
  <2>2. GoodWhileRunning'
    <3>1. \A i \in DOMAIN out' :
             IsResult(out'[i]) /\ out'[i].token = op.token => out'[i].class = "done"
      BY <1>6, <1>10, <1>14, <2>1 DEF GoodWhileRunning
    <3>2. ~Moving
      BY <1>1 DEF Moving
    <3>3. CASE StopAhead(op.token) /\ op.async = << >> /\ op.class = None
      <4>1. \A t : t = op.token => StopAhead(t)'
        BY <1>6, <1>14, <2>1, <3>3
      <4> QED
        BY <1>2, <1>11, <2>1, <3>1, <3>3, <4>1 DEF GoodWhileRunning
    <3>4. CASE Len(op.async) = 1 /\ LastStop(op.async[1]) /\ Quiet
      <4>1. Quiet' /\ gdb' = gdb
        BY <1>6, <1>14, <2>1, <3>4
      <4>2. LastStop(op.async[1])'
        BY <1>2, <3>4, <4>1 DEF LastStop
      <4> QED
        BY <1>2, <1>11, <2>1, <3>1, <3>4, <4>1, <4>2 DEF GoodWhileRunning
    <3> QED
      BY <2>1, <3>2, <3>3, <3>4 DEF GoodWhileRunning
  <2> QED
    BY <1>2, <1>13, <1>16, <1>19, <2>2 DEF CalmCore
<1>20. CASE Sent /\ Shown # "running"
  <2>1. NotResumed
    BY <1>1, <1>20 DEF CalmCore, Resumed
  <2>2. \A i \in DOMAIN stdin' : stdin'[i].token # op.token => stdin'[i].kind = "good"
    BY <1>5, <2>1 DEF NotResumed
  <2>3. CASE ~resumes
    <3>1. NotResumed'
      BY <1>2, <1>14, <1>16, <2>1, <2>2, <2>3 DEF NotResumed, Resting
    <3> QED
      BY <1>2, <1>13, <1>16, <1>20, <3>1 DEF CalmCore
  <2>4. CASE resumes
    <3>1. c.token = op.token /\ c.kind = op.kind
      <4>1. c.kind # "good"
        BY <1>6, <2>4
      <4>2. c.token = op.token
        BY <1>4, <2>1, <4>1 DEF NotResumed
      <4> QED
        BY <1>0, <1>4, <1>20, <4>2 DEF OwnInv, OwnCommand
    <3>2. op.class = None
      BY <1>0, <1>1, <1>20 DEF OwnInv, OwnCommand
    <3>3. stdin' = << >>
      <4>1. \A j \in DOMAIN stdin : 1 < j => op.token < stdin[j].token /\ stdin[j].token < token
        BY <1>0, <1>4, <3>1 DEF OrderInv, Numbered
      <4>2. op.token + 1 = token /\ op.token \in Nat /\ token \in Nat
        BY <1>0, <1>20, Names DEF OrderInv, Numbered, TypeInv, TypeOK, Op
      <4>3. \A j \in DOMAIN stdin : stdin[j].token \in Nat
        BY <1>0, CommandTokens
      <4>4. \A j \in DOMAIN stdin : ~(1 < j)
        BY <4>1, <4>2, <4>3
      <4>5. DOMAIN stdin' = {}
        BY <1>5, <4>4
      <4> QED
        BY <1>4, <4>5, EmptyStream
    <3>4. g \in Record /\ g.type = "thread-group-started"
      BY DEF g, Group, Record
    <3>5. Grown(a, g) /\ Len(out') \in Nat
      BY <1>0, <1>1, <3>4, GrownFacts
    <3>a. PICK n : n = Len(out')
      OBVIOUS
    <3>b. Len(out) \in Nat
      BY <1>0, <1>1, <3>4, GrownFacts
    <3>6. n \in DOMAIN out' /\ out'[n] = a
      BY <3>5, <3>a, <3>b DEF Grown
    <3>7. \A j \in DOMAIN out' : j < n => Harmless(out'[j]) \/ out'[j].type = "thread-group-started"
      <4>1. \A j \in DOMAIN out' : j < n => j \in DOMAIN out \/ out'[j] = g
        BY <3>5, <3>a DEF Grown
      <4>2. \A j \in DOMAIN out : out'[j] = out[j] /\ Harmless(out[j])
        BY <2>1, <3>5 DEF Grown, NotResumed, Resting, Quiet
      <4> QED
        BY <3>4, <4>1, <4>2
    <3>8. StopAfter(n)'
      BY <1>1, <2>4, <3>a DEF StopAfter
    <3>9. \E i \in DOMAIN out' : Unacknowledged(i)'
      <4>1. IsResult(out'[n]) /\ out'[n].token = op.token /\ out'[n].class = "running"
        BY <1>8, <1>10, <2>4, <3>1, <3>6
      <4> QED
        BY <1>2, <3>6, <3>7, <3>8, <4>1 DEF Unacknowledged, IsResult, Harmless
    <3>10. Resumed'
      BY <1>2, <1>8, <2>1, <2>4, <3>1, <3>2, <3>3, <3>9 DEF Resumed, NotResumed
    <3> QED
      BY <1>2, <1>13, <1>16, <1>20, <3>10 DEF CalmCore
  <2> QED
    BY <2>3, <2>4
<1> QED
  BY <1>13, <1>17, <1>18, <1>19, <1>20

\* The inferior stops: the stop is ahead of whoever reads next.
LEMMA CalmStops ==
    ASSUME BaseInv, CalmCore, NEW reason \in GdbReasons, InferiorStops(reason), UNCHANGED usage
    PROVE  CalmCore'
<1> DEFINE a == Stop(gdb.run, reason)
           g == Group("thread-group-exited")
<1>0. TypeInv /\ OrderInv /\ OwnInv
  BY DEF BaseInv
<1>1. /\ a \in Record /\ IsStop(a) /\ gdb.inferior = "running"
      /\ out' = Append(out, a) \/ out' = Append(Append(out, g), a)
      /\ gdb'.inferior = StateAfter(a)
  BY <1>0, StopsFacts
<1>2. g \in Record /\ g.type = "thread-group-exited"
  BY DEF Group, Record
<1>3. UNCHANGED <<stdin, token, rt, op>>
  BY DEF InferiorStops
<1> HIDE DEF a, g
<1>4. Grown(a, g) /\ Len(out) \in Nat /\ Len(out') \in Nat
  BY <1>0, <1>1, <1>2, GrownFacts
<1>5. PICK n : n = Len(out')
  OBVIOUS
<1>6. /\ n \in DOMAIN out' /\ out'[n] = a /\ n > Len(out)
      /\ \A j \in DOMAIN out' : j # n =>
            j < n /\ ((j \in DOMAIN out /\ out'[j] = out[j]) \/ out'[j] = g)
  <2>1. n \in DOMAIN out' /\ out'[n] = a /\ n > Len(out)
    BY <1>4, <1>5 DEF Grown
  <2>2. \A j \in DOMAIN out' : j # n => j < n
    BY <1>4, <1>5 DEF Grown
  <2>3. \A j \in DOMAIN out' : j # n => ((j \in DOMAIN out /\ out'[j] = out[j]) \/ out'[j] = g)
    BY <1>4, <1>5 DEF Grown
  <2> QED
    BY <2>1, <2>2, <2>3
<1>7. LastStop(out[n])'
  BY <1>1, <1>6 DEF LastStop
<1>8. \A m : ~LastStop(m)
  BY <1>1 DEF LastStop, StateAfter
<1>9. ASSUME Quiet, NEW own, \A i \in DOMAIN out : out[i].token # own
      PROVE  StopAhead(own)'
  <2>1. \A j \in DOMAIN out' : j # n =>
             \/ Harmless(out'[j]) /\ (j < n => out'[j].token # own)
             \/ j < n /\ out'[j].type = "thread-group-exited"
    BY <1>2, <1>6, <1>9 DEF Quiet
  <2> QED
    BY <1>6, <1>7, <2>1 DEF StopAhead, Harmless
<1>10. Quiet => \A i \in DOMAIN out : out[i].token # 0
  BY <1>0, StopTokens DEF Quiet, Harmless
<1>11. /\ Busy <=> op.kind # "idle"
       /\ Busy => op.kind \in {"wait", "interrupt"} \/ Sent
       /\ Sent => Busy /\ op.kind \notin {"wait", "interrupt"}
       /\ op.kind \in {"wait", "interrupt"} => Busy
  BY <1>0, Kinds
<1>12. /\ Shown' = Shown /\ (Busy' <=> Busy) /\ (Sent' <=> Sent) /\ (OnlyGood => OnlyGood')
  BY <1>3 DEF Shown, Busy, Sent, OnlyGood
<1>13. \A own : ~StopAhead(own)
  BY <1>8 DEF StopAhead
<1>14. CASE ~Busy
  <2>1. Shown = "running" /\ Moving /\ OnlyGood
    BY <1>1, <1>13, <1>14 DEF CalmCore, Between, Resting
  <2>2. StopAhead(0)'
    BY <1>9, <1>10, <2>1 DEF Moving
  <2>3. Between'
    BY <1>12, <2>1, <2>2 DEF Between
  <2> QED
    BY <1>3, <1>11, <1>12, <1>14, <2>3 DEF CalmCore
<1>15. CASE op.kind \in {"wait", "interrupt"}
  <2>1. Waiting /\ Moving
    BY <1>13, <1>15 DEF CalmCore, Waiting
  <2>2. StopAhead(0)'
    BY <1>9, <1>10, <2>1 DEF Moving
  <2>3. Waiting'
    BY <1>3, <1>12, <2>1, <2>2 DEF Waiting
  <2> QED
    BY <1>3, <1>11, <1>12, <1>15, <2>3 DEF CalmCore
<1>16. CASE Sent /\ Shown = "running"
  <2>1. GoodWhileRunning /\ Moving /\ op.async = << >> /\ op.class = None
        /\ \A i \in DOMAIN out : out[i].token # op.token
    BY <1>8, <1>13, <1>16 DEF CalmCore, GoodWhileRunning
  <2>2. \A t : t = op.token => StopAhead(t)'
    BY <1>9, <2>1 DEF Moving
  <2>3. \A i \in DOMAIN out' :
             IsResult(out'[i]) /\ out'[i].token = op.token => out'[i].class = "done"
    <3>1. ~IsResult(a) /\ ~IsResult(g)
      BY <1>1, <1>2 DEF IsResult, IsStop
    <3> QED
      BY <1>6, <2>1, <3>1 DEF GoodWhileRunning
  <2>4. GoodWhileRunning'
    BY <1>3, <1>12, <2>1, <2>2, <2>3 DEF GoodWhileRunning
  <2> QED
    BY <1>3, <1>11, <1>12, <1>16, <2>4 DEF CalmCore
<1>17. CASE Sent /\ Shown # "running"
  <2>1. Resumed
    BY <1>1, <1>17 DEF CalmCore, NotResumed, Resting
  <2>2. ASSUME NEW k, k = Len(out) PROVE StopAfter(k)'
    <3>1. k < n /\ k \in Nat
      BY <1>4, <1>6, <2>2
    <3>2. \A j \in DOMAIN out' : k < j /\ j < n => out'[j].type = "thread-group-exited"
      <4> SUFFICES ASSUME NEW j \in DOMAIN out', k < j, j < n
                   PROVE  out'[j].type = "thread-group-exited"
        OBVIOUS
      <4>1. j # n /\ j \notin DOMAIN out
        BY <1>4, <1>5, <2>2 DEF Grown
      <4> QED
        BY <1>2, <1>6, <4>1
    <3>3. LastStop(out[Len(out)])'
      BY <1>5, <1>7
    <3> QED
      BY <1>5, <3>1, <3>2, <3>3 DEF StopAfter
  <2>3. \A k : StopAfter(k) => k = Len(out)
    BY <1>8 DEF StopAfter
  <2>4. CASE op.class = None /\ op.responses = << >> /\ \E i \in DOMAIN out : Unacknowledged(i)
    <3>1. PICK i \in DOMAIN out : Unacknowledged(i)
      BY <2>4
    <3>2. StopAfter(i)'
      BY <2>2, <2>3, <3>1 DEF Unacknowledged
    <3>3. i \in DOMAIN out' /\ out'[i] = out[i] /\ i = Len(out)
      BY <1>4, <2>3, <3>1 DEF Grown, Unacknowledged
    <3>4. \A j \in DOMAIN out' : j < i => j \in DOMAIN out /\ out'[j] = out[j]
      BY <1>4, <3>3 DEF Grown
    <3>5. Unacknowledged(i)'
      BY <1>3, <3>1, <3>2, <3>3, <3>4 DEF Unacknowledged, Harmless
    <3>6. Resumed'
      BY <1>3, <2>1, <2>4, <3>3, <3>5 DEF Resumed
    <3> QED
      BY <1>3, <1>11, <1>12, <1>17, <3>6 DEF CalmCore
  <2>5. CASE op.class = "running" /\ op.responses = << >> /\ StopAfter(0)
    <3>1. StopAfter(0)'
      BY <2>2, <2>3, <2>5
    <3>2. Resumed'
      BY <1>3, <2>1, <2>5, <3>1 DEF Resumed
    <3> QED
      BY <1>3, <1>11, <1>12, <1>17, <3>2 DEF CalmCore
  <2> QED
    BY <1>8, <2>1, <2>4, <2>5 DEF Resumed
<1> QED
  BY <1>11, <1>14, <1>15, <1>16, <1>17

\* A command is sent.
LEMMA CalmSend ==
    ASSUME BaseInv, Calm, CalmCore, NEW k \in AllKinds, SendCommand(k), UNCHANGED usage
    PROVE  CalmCore'
<1>0. TypeInv /\ OrderInv /\ OwnInv
  BY DEF BaseInv
<1>1. /\ ~Busy /\ rt.controller /\ k \in SentKinds /\ token <= usage.commands /\ ClientMay(k)
      /\ stdin' = Append(stdin, [kind |-> k, token |-> token]) /\ token' = token + 1
      /\ op' = NewOp(k, token) /\ UNCHANGED <<gdb, out, rt>>
      /\ k = "continue" => Shown # "running"
  BY DEF SendCommand, Shown
<1>2. usage.commands \in 1..MaxCommands /\ token \in 1..(MaxCommands + 1)
  BY <1>0, ExecutionAssumption DEF TypeInv, TypeOK, Usage
<1>3. token \in 0..MaxCommands /\ token \in 1..MaxCommands /\ token \in Nat
  BY <1>1, <1>2, Names
<1>4. /\ op'.kind = k /\ op'.token = token /\ op'.draft = rt /\ op'.class = None
      /\ op'.responses = << >> /\ op'.async = << >>
  BY <1>0, <1>1, <1>3, NewOpType
<1>5. Between /\ Shown' = Shown /\ Busy' /\ Sent' /\ op'.kind \notin {"wait", "interrupt"}
  BY <1>1, <1>4, Names DEF CalmCore, Busy, Sent, Shown
<1>6. \A i \in DOMAIN out : IsResult(out[i]) => out[i].token # token
  <2>1. \A i \in DOMAIN out : IsResult(out[i]) => out[i].token \in Nat /\ out[i].token < token
    BY <1>0, StopTokens DEF OwnInv, ResultsInOrder
  <2> QED
    BY <1>3, <2>1
<1> DEFINE C == [kind : SentKinds, token : 1..MaxCommands]
           c == [kind |-> k, token |-> token]
<1>7. \A i \in DOMAIN stdin' : \/ i \in DOMAIN stdin /\ stdin'[i] = stdin[i]
                               \/ stdin'[i].kind = k /\ stdin'[i].token = token
  <2>1. c \in C /\ stdin \in Seq(C) /\ c.kind = k /\ c.token = token
    BY <1>0, <1>1, <1>3 DEF TypeInv, TypeOK
  <2>2. stdin' = Append(stdin, c)
    BY <1>1
  <2> HIDE DEF C, c
  <2>3. Extension(stdin', stdin, c)
    BY <2>1, <2>2, AppendExtends
  <2> QED
    BY <2>1, <2>3 DEF Extension
<1>8. CASE Shown # "running"
  <2>1. Resting /\ OnlyGood
    BY <1>5, <1>8 DEF Between
  <2>2. Resting'
    BY <1>1, <1>5, <2>1 DEF Resting, Quiet
  <2>3. \A i \in DOMAIN stdin' : stdin'[i].token # token => stdin'[i].kind = "good"
    BY <1>7, <2>1 DEF OnlyGood
  <2>4. NotResumed'
    BY <1>1, <1>4, <1>5, <2>2, <2>3, ExecutionAssumption DEF NotResumed, Shown
  <2> QED
    BY <1>5, <1>8, <2>4 DEF CalmCore
<1>9. CASE Shown = "running"
  <2>1. k = "good"
    BY <1>1, <1>9 DEF ClientMay, Calm, SentKinds, ExecKinds, Shown
  <2>2. OnlyGood'
    BY <1>5, <1>7, <2>1 DEF OnlyGood, Between
  <2>3. \A i \in DOMAIN out' :
           IsResult(out'[i]) /\ out'[i].token = token => out'[i].class = "done"
    BY <1>1, <1>6
  <2>4. CASE Moving
    <3>1. Moving' /\ \A i \in DOMAIN out' : out'[i].token # token
      BY <1>1, <1>6, <2>4 DEF Moving, Quiet, Harmless
    <3>2. GoodWhileRunning'
      BY <1>4, <1>9, <2>1, <2>2, <2>3, <3>1 DEF GoodWhileRunning, Shown
    <3> QED
      BY <1>5, <1>9, <3>2 DEF CalmCore
  <2>5. CASE StopAhead(0)
    <3>1. StopAhead(token)
      BY <1>6, <2>5 DEF StopAhead, Harmless
    <3>2. \A t : t = op'.token => StopAhead(t)'
      BY <1>1, <1>4, <3>1 DEF StopAhead, LastStop
    <3>3. GoodWhileRunning'
      BY <1>4, <2>1, <2>2, <2>3, <3>2 DEF GoodWhileRunning
    <3> QED
      BY <1>5, <1>9, <3>3 DEF CalmCore
  <2> QED
    BY <1>5, <1>9, <2>4, <2>5 DEF Between
<1> QED
  BY <1>8, <1>9

\* wait_for_stop or interrupt begins.
LEMMA CalmWait ==
    ASSUME BaseInv, Calm, CalmCore, WaitForStop \/ Interrupt, UNCHANGED usage
    PROVE  CalmCore'
<1>0. TypeInv
  BY DEF BaseInv
<1>1. PICK k \in {"wait", "interrupt"} :
         /\ ~Busy /\ rt.controller /\ op' = NewOp(k, 0) /\ UNCHANGED <<stdin, out, token, rt>>
         /\ gdb'.inferior = gdb.inferior /\ Shown = "running"
         /\ k = "interrupt" => ~usage.exits
  <2>1. CASE WaitForStop
    BY <2>1 DEF WaitForStop, Shown
  <2>2. CASE Interrupt
    <3>1. gdb' = [gdb EXCEPT !.sigint = (gdb.inferior = "running")]
      BY <2>2 DEF Interrupt
    <3>2. gdb'.inferior = gdb.inferior
      BY <1>0, <3>1 DEF TypeInv, TypeOK
    <3> QED
      BY <2>2, <3>2 DEF Interrupt, Shown, ClientMay, Calm
  <2> QED
    BY <2>1, <2>2
<1>2. k \in AllKinds /\ 0 \in 0..MaxCommands
  BY Names
<1>3. op'.kind = k /\ op'.draft = rt /\ op'.class = None
  BY <1>0, <1>1, <1>2, NewOpType
<1>4. Between /\ Shown' = Shown /\ Busy' /\ ~Sent'
  BY <1>1, <1>3, Names DEF CalmCore, Busy, Sent, Shown
<1>5. OnlyGood' /\ (Moving => Moving') /\ (StopAhead(0) => StopAhead(0)')
  BY <1>1, <1>4 DEF Between, OnlyGood, Moving, Quiet, StopAhead, LastStop
<1>6. Waiting'
  BY <1>1, <1>3, <1>4, <1>5, ExecutionAssumption DEF Waiting, Between, Shown
<1> QED
  BY <1>3, <1>4, <1>6 DEF CalmCore

\* What is left after the first record was read.
LEMMA CalmTail ==
    ASSUME TypeInv, out # << >>, out' = Tail(out), UNCHANGED gdb
    PROVE  /\ out[1] \in Record /\ Head(out) = out[1] /\ 1 \in DOMAIN out
           /\ Suffix(out', out, 1) /\ Len(out') \in Nat /\ Len(out) \in Nat
           /\ \A i \in DOMAIN out' : /\ i \in Nat /\ i + 1 \in DOMAIN out /\ 1 < i + 1
                                     /\ out'[i] = out[i + 1]
           /\ Quiet => Quiet' /\ Harmless(out[1])
           /\ \A own : StopAhead(own) /\ ~IsStop(out[1]) =>
                 /\ StopAhead(own)'
                 /\ \/ Harmless(out[1]) /\ out[1].token # own
                    \/ out[1].type = "thread-group-exited"
           /\ \A own : StopAhead(own) /\ IsStop(out[1]) => LastStop(out[1]) /\ Quiet'
<1>1. out \in Seq(Record)
  BY DEF TypeInv, TypeOK
<1>2. /\ Suffix(out', out, 1) /\ Head(out) = out[1] /\ 1 \in DOMAIN out /\ Head(out) \in Record
      /\ Len(out) \in Nat /\ Len(out') \in Nat
  BY <1>1, TailIsSuffix
<1>3. \A i \in DOMAIN out' : i \in Nat /\ i + 1 \in DOMAIN out /\ 1 < i + 1 /\ out'[i] = out[i + 1]
  BY <1>2 DEF Suffix
<1>4. Quiet => Quiet' /\ Harmless(out[1])
  BY <1>2, <1>3 DEF Quiet, Harmless
<1>5. \A i \in DOMAIN out : i \in Nat /\ i >= 1 /\ (i # 1 => 1 < i /\ i - 1 \in DOMAIN out')
  BY <1>2 DEF Suffix
<1>6. ASSUME NEW own, StopAhead(own)
      PROVE  /\ ~IsStop(out[1]) =>
                  /\ StopAhead(own)'
                  /\ \/ Harmless(out[1]) /\ out[1].token # own
                     \/ out[1].type = "thread-group-exited"
             /\ IsStop(out[1]) => LastStop(out[1]) /\ Quiet'
  <2>1. PICK i \in DOMAIN out :
           /\ LastStop(out[i])
           /\ \A j \in DOMAIN out : j # i =>
                 \/ Harmless(out[j]) /\ (j < i => out[j].token # own)
                 \/ j < i /\ out[j].type = "thread-group-exited"
    BY <1>6 DEF StopAhead
  <2>2. CASE i = 1
    <3>1. \A j \in DOMAIN out : j # 1 => Harmless(out[j])
      BY <1>5, <2>1, <2>2
    <3>2. \A j \in DOMAIN out' : Harmless(out'[j])
      <4>1. \A j \in DOMAIN out' : j + 1 # 1
        BY <1>3
      <4> QED
        BY <1>3, <3>1, <4>1
    <3>3. IsStop(out[1]) /\ LastStop(out[1])
      BY <2>1, <2>2 DEF LastStop
    <3> QED
      BY <3>2, <3>3 DEF Quiet, Harmless
  <2>3. CASE i # 1
    <3>1. 1 < i /\ i - 1 \in DOMAIN out' /\ i \in Nat
      BY <1>5, <2>3
    <3>2. PICK k : k = i - 1
      OBVIOUS
    <3>3. k \in DOMAIN out' /\ k + 1 = i
      BY <3>1, <3>2
    <3>4. ~IsStop(out[1]) /\ (\/ Harmless(out[1]) /\ out[1].token # own
                              \/ out[1].type = "thread-group-exited")
      BY <1>2, <2>1, <2>3, <3>1 DEF Harmless, IsResult, IsStop
    <3>5. LastStop(out[k])'
      BY <1>3, <2>1, <3>3 DEF LastStop
    <3>6. \A j \in DOMAIN out' : j # k =>
                 \/ Harmless(out'[j]) /\ (j < k => out'[j].token # own)
                 \/ j < k /\ out'[j].type = "thread-group-exited"
      <4>1. \A j \in DOMAIN out' : (j # k => j + 1 # i) /\ (j < k <=> j + 1 < i)
        BY <1>3, <3>3
      <4> QED
        BY <1>3, <2>1, <4>1
    <3>7. StopAhead(own)'
      BY <3>3, <3>5, <3>6 DEF StopAhead, Harmless
    <3> QED
      BY <3>4, <3>7
  <2> QED
    BY <2>2, <2>3
<1> QED
  BY <1>2, <1>3, <1>4, <1>6

\* A waiting operation reads a record that is no stop.
LEMMA CalmReadWaiting ==
    ASSUME BaseInv, CalmCore, ReadWaiting, UNCHANGED usage
    PROVE  CalmCore'
<1>0. TypeInv
  BY DEF BaseInv
<1> DEFINE m == out[1]
<1>1. /\ Busy /\ op.kind \in {"wait", "interrupt"} /\ out # << >> /\ ~IsStop(Head(out))
      /\ op' = SortWaiting(op, Head(out)) /\ out' = Tail(out)
      /\ UNCHANGED <<gdb, stdin, token, rt>>
  BY DEF ReadWaiting
<1>2. /\ m \in Record /\ Head(out) = m /\ (Quiet => Quiet' /\ Harmless(m))
      /\ StopAhead(0) /\ ~IsStop(m) =>
            StopAhead(0)' /\ (Harmless(m) \/ m.type = "thread-group-exited")
  BY <1>0, <1>1, CalmTail
<1>3. /\ op'.kind = op.kind
      /\ IsResult(m) => op'.class = m.class /\ op'.draft = op.draft
      /\ ~IsResult(m) => op'.class = op.class
  BY <1>0, <1>1, <1>2, SortWaitingType
<1>4. Waiting
  BY <1>1 DEF CalmCore
<1> HIDE DEF m
<1>5. /\ Shown' = Shown /\ Busy' /\ ~Sent' /\ OnlyGood'
  BY <1>1, <1>3, <1>4, Names DEF Shown, Busy, Sent, OnlyGood, Waiting
<1>6. op'.class # "running"
  <2>1. Harmless(m) \/ m.type = "thread-group-exited"
    BY <1>1, <1>2, <1>4 DEF Waiting, Moving
  <2>2. CASE Harmless(m)
    BY <1>3, <2>2 DEF Harmless
  <2>3. CASE m.type = "thread-group-exited"
    <3>1. ~IsResult(m)
      BY <2>3 DEF IsResult
    <3> QED
      BY <1>3, <1>4, <3>1 DEF Waiting
  <2> QED
    BY <2>1, <2>2, <2>3
<1>7. CASE Moving /\ op.draft.execution_state = "running"
  <2>1. Moving' /\ op'.draft.execution_state = "running"
    BY <1>1, <1>2, <1>3, <1>7 DEF Moving, Harmless
  <2>2. Waiting'
    BY <1>3, <1>4, <1>5, <1>6, <2>1 DEF Waiting
  <2> QED
    BY <1>1, <1>3, <1>5, <2>2 DEF CalmCore
<1>8. CASE StopAhead(0)
  <2>1. Waiting'
    BY <1>1, <1>2, <1>3, <1>4, <1>5, <1>6, <1>8 DEF Waiting
  <2> QED
    BY <1>1, <1>3, <1>5, <2>1 DEF CalmCore
<1> QED
  BY <1>4, <1>7, <1>8 DEF Waiting

\* A command reads a record.
LEMMA CalmRead ==
    ASSUME BaseInv, CalmCore, ReadRecord, UNCHANGED usage
    PROVE  CalmCore'
<1> DEFINE m == out[1]
<1>0. TypeInv /\ OrderInv /\ OwnInv
  BY DEF BaseInv
<1>1. /\ Busy /\ Sent /\ out # << >> /\ op' = Sort(op, Head(out))
      /\ out' = Tail(out) /\ UNCHANGED <<gdb, stdin, token, rt>>
  BY DEF ReadRecord, Sent
<1>2. /\ m \in Record /\ Head(out) = m /\ 1 \in DOMAIN out
      /\ Len(out') \in Nat /\ Len(out) \in Nat /\ Suffix(out', out, 1)
      /\ \A i \in DOMAIN out' : /\ i \in Nat /\ i + 1 \in DOMAIN out /\ 1 < i + 1
                                /\ out'[i] = out[i + 1]
      /\ Quiet => Quiet' /\ Harmless(m)
  BY <1>0, <1>1, CalmTail
<1>3. /\ \A own : StopAhead(own) /\ ~IsStop(m) =>
            /\ StopAhead(own)'
            /\ (Harmless(m) /\ m.token # own) \/ m.type = "thread-group-exited"
      /\ \A own : StopAhead(own) /\ IsStop(m) => LastStop(m) /\ Quiet'
  BY <1>0, <1>1, CalmTail
<1>4. /\ op'.kind = op.kind /\ op'.token = op.token
      /\ IsResult(m) /\ m.token = op.token =>
            /\ op'.class = m.class /\ op'.draft = op.draft
            /\ op'.responses = op.responses /\ op'.async = op.async
      /\ IsResult(m) /\ m.token # op.token => op' = op
      /\ IsStop(m) /\ op.class = "running" =>
            /\ op'.class = op.class
            /\ op'.responses = Append(op.responses, m) /\ op'.async = op.async
      /\ IsStop(m) /\ op.class # "running" =>
            /\ op'.class = op.class
            /\ op'.responses = op.responses /\ op'.async = Append(op.async, m)
      /\ ~IsResult(m) /\ ~IsStop(m) =>
            op'.class = op.class /\ op'.responses = op.responses /\ op'.async = op.async
  BY <1>0, <1>1, <1>2, SortType
<1>5. IsStop(m) => m \in Stops
  BY <1>0, <1>2, StopTokens
<1> HIDE DEF m
<1>6. /\ Shown' = Shown /\ Busy' /\ Sent' /\ op'.kind \notin {"wait", "interrupt"}
  BY <1>1, <1>4, Names DEF Shown, Busy, Sent
<1>7. ~(IsResult(m) /\ IsStop(m))
  BY DEF IsResult, IsStop
<1>8. \A s : IsStop(m) /\ s = << >> => Len(Append(s, m)) = 1 /\ Append(s, m)[1] = m
  BY <1>5
<1>9. CASE Shown = "running"
  <2>1. GoodWhileRunning
    BY <1>1, <1>9 DEF CalmCore
  <2>2. SUFFICES GoodWhileRunning'
    BY <1>6, <1>9 DEF CalmCore
  <2>3. op'.kind = "good" /\ OnlyGood'
    BY <1>1, <1>4, <2>1 DEF GoodWhileRunning, OnlyGood
  <2>4. \A i \in DOMAIN out' :
           IsResult(out'[i]) /\ out'[i].token = op'.token => out'[i].class = "done"
    BY <1>2, <1>4, <2>1 DEF GoodWhileRunning
  <2>5. IsResult(m) /\ m.token = op.token => m.class = "done"
    BY <1>2, <2>1 DEF GoodWhileRunning, m
  <2>6. op.responses = << >> /\ op.class \in {None, "done"} /\ op.class # "running"
    BY <2>1, ExecutionAssumption DEF GoodWhileRunning
  <2>7. CASE /\ Moving /\ op.async = << >> /\ op.class = None
             /\ op.draft.execution_state = "running"
             /\ \A i \in DOMAIN out : out[i].token # op.token
    <3>1. IsResult(m) /\ m.token # op.token
      BY <1>2, <2>7 DEF Moving, Harmless, m
    <3>2. op' = op /\ Moving'
      BY <1>1, <1>2, <1>4, <2>7, <3>1 DEF Moving
    <3>3. \A i \in DOMAIN out' : out'[i].token # op'.token
      BY <1>2, <2>7, <3>2
    <3> QED
      BY <2>3, <2>4, <2>6, <2>7, <3>2, <3>3 DEF GoodWhileRunning
  <2>8. CASE StopAhead(op.token) /\ op.async = << >> /\ op.class = None
    <3>1. CASE IsStop(m)
      <4>1. LastStop(m) /\ Quiet'
        BY <1>3, <2>8, <3>1
      <4>2. Len(op'.async) = 1 /\ op'.async[1] = m /\ op'.responses = << >> /\ op'.class = op.class
        BY <1>4, <1>8, <2>6, <2>8, <3>1
      <4>3. LastStop(op.async[1])'
        BY <1>1, <4>1, <4>2 DEF LastStop
      <4> QED
        BY <2>3, <2>4, <2>6, <4>1, <4>2, <4>3 DEF GoodWhileRunning
    <3>2. CASE ~IsStop(m)
      <4>1. /\ \A t : t = op.token => StopAhead(t)'
            /\ (Harmless(m) /\ m.token # op.token) \/ m.type = "thread-group-exited"
        BY <1>3, <2>8, <3>2
      <4>2. op'.class = op.class /\ op'.responses = op.responses /\ op'.async = op.async
        BY <1>4, <3>2, <4>1 DEF Harmless, IsResult
      <4> QED
        BY <1>4, <2>3, <2>4, <2>6, <2>8, <4>1, <4>2 DEF GoodWhileRunning
    <3> QED
      BY <3>1, <3>2
  <2>9. CASE Len(op.async) = 1 /\ LastStop(op.async[1]) /\ Quiet
    <3>1. Quiet' /\ IsResult(m)
      BY <1>2, <2>9 DEF Harmless
    <3>2. /\ op'.responses = op.responses /\ op'.async = op.async
          /\ op'.class \in {None, "done"}
      BY <1>4, <2>5, <2>6, <3>1
    <3>3. LastStop(op.async[1])'
      BY <1>1, <2>9, <3>2 DEF LastStop
    <3> QED
      BY <2>3, <2>4, <2>6, <2>9, <3>1, <3>2, <3>3 DEF GoodWhileRunning
  <2> QED
    BY <2>1, <2>7, <2>8, <2>9 DEF GoodWhileRunning
<1>10. CASE Shown # "running"
  <2>1. CASE NotResumed
    <3>1. Resting' /\ Harmless(m)
      BY <1>1, <1>2, <1>6, <2>1 DEF NotResumed, Resting
    <3>2. /\ op'.responses = op.responses /\ op'.async = op.async
          /\ op'.draft = op.draft /\ op'.class # "running"
      BY <1>4, <2>1, <3>1 DEF NotResumed, Harmless
    <3>3. NotResumed'
      BY <1>1, <1>4, <1>6, <2>1, <3>1, <3>2 DEF NotResumed
    <3> QED
      BY <1>6, <1>10, <3>3 DEF CalmCore
  <2>2. CASE Resumed
    <3>0. SUFFICES Resumed'
      BY <1>6, <1>10 DEF CalmCore
    <3>1. op'.kind \in ExecKinds /\ stdin' = << >>
      BY <1>1, <1>4, <2>2 DEF Resumed
    <3>2. ASSUME NEW n \in Nat, NEW k \in Nat, n = k + 1, StopAfter(n) PROVE StopAfter(k)'
      <4>1. Len(out) = Len(out') + 1
        BY <1>2 DEF Suffix
      <4>2. CASE gdb.inferior = "running" /\ n = Len(out)
        <5>1. k = Len(out')
          BY <1>2, <3>2, <4>1, <4>2
        <5> QED
          BY <1>1, <4>2, <5>1 DEF StopAfter
      <4>3. CASE /\ n < Len(out) /\ LastStop(out[Len(out)])
                 /\ \A j \in DOMAIN out : n < j /\ j < Len(out) =>
                       out[j].type = "thread-group-exited"
        <5>1. k < Len(out') /\ Len(out') \in DOMAIN out'
          BY <1>2, <3>2, <4>1, <4>3 DEF Suffix
        <5>2. LastStop(out[Len(out)])'
          BY <1>1, <1>2, <4>1, <4>3, <5>1 DEF LastStop
        <5>3. \A j \in DOMAIN out' : k < j /\ j < Len(out') => n < j + 1 /\ j + 1 < Len(out)
          BY <1>2, <3>2, <4>1
        <5>4. \A j \in DOMAIN out' : k < j /\ j < Len(out') => out'[j].type = "thread-group-exited"
          BY <1>2, <4>3, <5>3
        <5> QED
          BY <5>1, <5>2, <5>4 DEF StopAfter
      <4> QED
        BY <3>2, <4>2, <4>3 DEF StopAfter
    <3>3. CASE op.class = None /\ op.responses = << >> /\ \E i \in DOMAIN out : Unacknowledged(i)
      <4>1. PICK i \in DOMAIN out : Unacknowledged(i)
        BY <3>3
      <4>2. i \in Nat /\ i >= 1 /\ i <= Len(out)
        BY <1>2 DEF Suffix
      <4>3. CASE i = 1
        <5>1. IsResult(m) /\ m.token = op.token /\ m.class = "running" /\ StopAfter(1)
          BY <4>1, <4>3 DEF Unacknowledged, m
        <5>2. StopAfter(0)'
          BY <3>2, <5>1
        <5>3. op'.class = "running" /\ op'.responses = << >> /\ op'.async = << >>
          BY <1>4, <2>2, <3>3, <5>1 DEF Resumed
        <5> QED
          BY <3>1, <5>2, <5>3 DEF Resumed
      <4>4. CASE i # 1
        <5>1. PICK k : k = i - 1
          OBVIOUS
        <5>2. k \in Nat /\ i = k + 1 /\ 1 < i /\ k \in DOMAIN out'
          BY <1>2, <4>2, <4>4, <5>1 DEF Suffix
        <5>3. Harmless(m) \/ m.type = "thread-group-started"
          BY <1>2, <4>1, <5>2 DEF Unacknowledged, m
        <5>4. IsResult(m) => m.token # op.token
          <6>1. IsResult(m) => m.token < out[i].token /\ m.token \in Nat
            BY <1>0, <1>2, <4>1, <5>2, StopTokens DEF OwnInv, ResultsInOrder, Unacknowledged, m
          <6>2. out[i].token = op.token /\ op.token \in Nat
            BY <1>0, <4>1 DEF Unacknowledged, TypeInv, TypeOK, Op
          <6> QED
            BY <6>1, <6>2
        <5>5. op'.class = op.class /\ op'.responses = op.responses /\ op'.async = op.async
          BY <1>4, <5>3, <5>4 DEF Harmless, IsResult, IsStop
        <5>6. StopAfter(k)'
          BY <3>2, <4>1, <4>2, <5>2 DEF Unacknowledged
        <5>7. \A j \in DOMAIN out' : j < k =>
                 Harmless(out'[j]) \/ out'[j].type = "thread-group-started"
          <6>1. \A j \in DOMAIN out' : j < k => j + 1 < i
            BY <1>2, <5>2
          <6> QED
            BY <1>2, <4>1, <6>1 DEF Unacknowledged
        <5>8. IsResult(out'[k]) /\ out'[k].token = op'.token /\ out'[k].class = "running"
          BY <1>2, <1>4, <4>1, <5>2 DEF Unacknowledged
        <5>9. Unacknowledged(k)'
          BY <5>6, <5>7, <5>8 DEF Unacknowledged, Harmless, IsResult
        <5> QED
          BY <2>2, <3>1, <3>3, <5>2, <5>5, <5>9 DEF Resumed
      <4> QED
        BY <4>3, <4>4
    <3>4. CASE op.class = "running" /\ op.responses = << >> /\ StopAfter(0)
      <4>1. /\ 0 < Len(out) /\ LastStop(out[Len(out)])
            /\ \A j \in DOMAIN out : 0 < j /\ j < Len(out) => out[j].type = "thread-group-exited"
        <5>1. 0 # Len(out)
          BY <1>2 DEF Suffix
        <5> QED
          BY <3>4, <5>1 DEF StopAfter
      <4>2. CASE Len(out) = 1
        <5>1. IsStop(m) /\ LastStop(m)
          BY <4>1, <4>2 DEF LastStop, m
        <5>2. Len(op'.responses) = 1 /\ op'.responses[1] = m /\ op'.async = op.async
              /\ op'.class = "running"
          BY <1>4, <1>8, <3>4, <5>1
        <5>3. out' = << >>
          <6>1. out \in Seq(Record) /\ out' \in Seq(Record) /\ Len(out') = 0
            BY <1>0, <1>1, <1>2, <4>2, TailIsSuffix DEF TypeInv, TypeOK, Suffix
          <6> QED
            BY <6>1, EmptyStream
        <5>4. LastStop(op.responses[1])'
          BY <1>1, <5>1, <5>2 DEF LastStop
        <5> QED
          BY <2>2, <3>1, <5>2, <5>3, <5>4 DEF Resumed
      <4>3. CASE Len(out) # 1
        <5>0. 1 < Len(out) /\ 1 \in DOMAIN out /\ 0 < 1
          <6>1. Len(out) \in Nat /\ DOMAIN out = 1..Len(out)
            BY <1>0, EmptyStream DEF TypeInv, TypeOK
          <6> QED
            BY <4>1, <4>3, <6>1
        <5>1. m.type = "thread-group-exited" /\ 1 < Len(out)
          BY <4>1, <5>0 DEF m
        <5>2. op'.class = op.class /\ op'.responses = op.responses /\ op'.async = op.async
          BY <1>4, <5>1 DEF IsResult, IsStop
        <5>3. StopAfter(1)
          <6>1. \A j \in DOMAIN out : 1 < j => 0 < j
            BY <1>2 DEF Suffix
          <6> QED
            BY <4>1, <5>1, <6>1 DEF StopAfter
        <5>4. StopAfter(0)'
          BY <3>2, <5>3
        <5> QED
          BY <2>2, <3>1, <3>4, <5>2, <5>4 DEF Resumed
      <4> QED
        BY <4>2, <4>3
    <3> QED
      BY <1>1, <2>2, <3>3, <3>4 DEF Resumed
  <2> QED
    BY <1>1, <1>10, <2>1, <2>2 DEF CalmCore
<1> QED
  BY <1>9, <1>10

\* Between operations again.
LEMMA CalmEnd ==
    ASSUME op' = Idle, Between'
    PROVE  CalmCore'
BY IdleType, Names DEF CalmCore, Busy, Sent

\* What depends on GDB and the streams alone.
LEMMA CalmStill ==
    ASSUME UNCHANGED <<gdb, stdin, out>>
    PROVE  /\ (OnlyGood => OnlyGood') /\ (Quiet => Quiet') /\ (Moving => Moving')
           /\ (StopAhead(0) => StopAhead(0)')
<1>1. (OnlyGood => OnlyGood') /\ (Quiet => Quiet')
  BY DEF OnlyGood, Quiet
<1>2. StopAhead(0) => StopAhead(0)'
  BY DEF StopAhead, LastStop
<1> QED
  BY <1>1, <1>2 DEF Moving

\* A command is answered: an error leaves the runtime alone, and otherwise
\* what was read tells the state the inferior is in.
LEMMA CalmAnswered ==
    ASSUME BaseInv, CalmCore, CommandReturns \/ CallReturns
    PROVE  CalmCore'
<1>0. TypeInv /\ OwnInv
  BY DEF BaseInv
<1>1. /\ Busy /\ Sent /\ Complete(op) /\ op' = Idle /\ UNCHANGED <<gdb, stdin, out>>
  BY Names DEF CommandReturns, CallReturns, Return, Sent
<1>2. stdin = << >> /\ op.class # None
  BY <1>0, <1>1 DEF OwnInv, OwnCommand, Complete
<1>3. OnlyGood'
  <2>1. DOMAIN stdin = {}
    BY <1>2
  <2> QED
    BY <1>1, <2>1 DEF OnlyGood
<1>4. ASSUME Quiet, rt'.execution_state = gdb.inferior, gdb.inferior # "running" PROVE CalmCore'
  <2>1. Between'
    BY <1>1, <1>3, <1>4, CalmStill DEF Between, Resting, Shown
  <2> QED
    BY <1>1, <2>1, CalmEnd
<1>5. CASE Shown = "running"
  <2>1. GoodWhileRunning
    BY <1>1, <1>5 DEF CalmCore
  <2>2. /\ op.class = "done" /\ op.responses = << >>
        /\ Len(op.async) = 1 /\ LastStop(op.async[1]) /\ Quiet
    BY <1>2, <2>1 DEF GoodWhileRunning
  <2>3. rt' = UpdateRuntimeAfterCommand(op.draft, Notifications(op), op.class)
    BY <2>1, <2>2 DEF CommandReturns, CallReturns, GoodWhileRunning
  <2>4. op.async # << >>
    BY <2>2
  <2>5. rt'.execution_state = StateAfter(op.async[1])
    BY <1>0, <1>1, <2>2, <2>3, <2>4, CommandFacts
  <2> QED
    BY <1>4, <2>2, <2>5 DEF LastStop, StateAfter
<1>6. CASE Shown # "running" /\ NotResumed
  <2>1. /\ Resting /\ op.responses = << >> /\ op.async = << >>
        /\ op.draft.execution_state = Shown /\ op.class # "running"
    BY <1>6 DEF NotResumed
  <2>2. rt'.execution_state = Shown
    <3>1. CASE CallReturns
      BY <1>0, <2>1, <3>1, CallFacts DEF Shown
    <3>2. CASE CommandReturns /\ op.class = "error"
      BY <3>2 DEF CommandReturns, Shown
    <3>3. CASE CommandReturns /\ op.class # "error"
      <4>1. rt' = UpdateRuntimeAfterCommand(op.draft, Notifications(op), op.class)
        BY <3>3 DEF CommandReturns
      <4> QED
        BY <1>0, <1>1, <2>1, <4>1, CommandFacts
    <3> QED
      BY <3>1, <3>2, <3>3
  <2> QED
    BY <1>4, <1>6, <2>1, <2>2 DEF Resting
<1>7. CASE Shown # "running" /\ Resumed
  <2>1. /\ op.class = "running" /\ out = << >> /\ op.kind \in ExecKinds
        /\ Len(op.responses) = 1 /\ LastStop(op.responses[1])
    BY <1>1, <1>2, <1>7 DEF Resumed, Complete
  <2>2. rt' = UpdateRuntimeAfterCommand(op.draft, Notifications(op), op.class)
    BY <2>1 DEF CommandReturns, CallReturns, ExecKinds
  <2>3. op.responses # << >>
    BY <2>1
  <2>4. rt'.execution_state = StateAfter(op.responses[1])
    BY <1>0, <1>1, <2>2, <2>3, CommandFacts
  <2>5. DOMAIN out = {}
    BY <2>1
  <2> QED
    BY <1>4, <2>1, <2>4, <2>5 DEF LastStop, StateAfter, Quiet
<1> QED
  BY <1>1, <1>5, <1>6, <1>7 DEF CalmCore

\* A command times out: the inferior runs, and is shown as running.
LEMMA CalmTimeOut ==
    ASSUME BaseInv, Calm, CalmCore,
           (\E acknowledged \in BOOLEAN : CommandTimesOut(acknowledged)) \/ CallTimesOut
    PROVE  CalmCore'
<1>0. TypeInv
  BY DEF BaseInv
<1>1. /\ Busy /\ Sent /\ ~Complete(op) /\ op' = Idle /\ UNCHANGED <<gdb, stdin, out>>
      /\ MayTimeOut
  <2>1. CASE CallTimesOut
    BY <2>1, Names DEF CallTimesOut, Return, Sent
  <2>2. ASSUME NEW acknowledged \in BOOLEAN, CommandTimesOut(acknowledged)
        PROVE  /\ Busy /\ Sent /\ ~Complete(op) /\ op' = Idle /\ UNCHANGED <<gdb, stdin, out>>
               /\ MayTimeOut
    BY <2>2 DEF CommandTimesOut, Return, Sent
  <2> QED
    BY <2>1, <2>2
<1>2. /\ out = << >> /\ DOMAIN out = {} /\ Len(out) = 0
      /\ op.class # None \/ gdb.inferior = "running"
      /\ op.class = None \/ (op.class = "running" /\ op.responses = << >>)
  <2>1. out = << >> /\ (op.class # None \/ gdb.inferior = "running")
    BY <1>1 DEF MayTimeOut, Calm, Sent
  <2>2. op.class = None \/ (op.class = "running" /\ op.responses = << >>)
    BY <1>1 DEF Complete
  <2>3. DOMAIN out = {} /\ Len(out) = 0
    BY <2>1
  <2> QED
    BY <2>1, <2>2, <2>3
<1>3. Quiet /\ ~StopAhead(0) /\ ~StopAhead(op.token)
  BY <1>2 DEF Quiet, StopAhead
<1>4. \A m : LastStop(m) => gdb.inferior # "running"
  BY DEF LastStop, StateAfter
<1>5. ASSUME gdb.inferior = "running", OnlyGood, rt'.execution_state = "running" PROVE CalmCore'
  <2>1. Between'
    BY <1>1, <1>3, <1>5, CalmStill DEF Between, Moving, Shown
  <2> QED
    BY <1>1, <2>1, CalmEnd
<1>6. op.kind # "call" =>
         rt' = UpdateRuntimeAfterCommand(op.draft, Notifications(op), op.class)
  BY DEF CommandTimesOut, CallTimesOut
<1>7. CASE Shown = "running"
  <2>1. GoodWhileRunning
    BY <1>1, <1>7 DEF CalmCore
  <2>2. /\ op.class = None /\ gdb.inferior = "running"
        /\ OnlyGood /\ op.responses = << >> /\ op.kind = "good"
    BY <1>2, <2>1 DEF GoodWhileRunning
  <2>3. op.async = << >> /\ op.draft.execution_state = "running"
    BY <1>3, <1>4, <2>1, <2>2 DEF GoodWhileRunning
  <2>4. rt'.execution_state = "running"
    BY <1>0, <1>1, <1>6, <2>2, <2>3, CommandFacts
  <2> QED
    BY <1>5, <2>2, <2>4
<1>8. CASE Shown # "running" /\ NotResumed
  <2>1. op.class = None /\ gdb.inferior = "running"
    BY <1>2, <1>8 DEF NotResumed
  <2> QED
    BY <1>8, <2>1 DEF NotResumed, Resting
<1>9. CASE Shown # "running" /\ Resumed
  <2>1. /\ op.kind \in ExecKinds /\ stdin = << >> /\ op.async = << >>
        /\ op.class = "running" /\ op.responses = << >> /\ StopAfter(0)
    <3>1. ~\E i \in DOMAIN out : Unacknowledged(i)
      BY <1>2
    <3>2. op.class # None => op.class = "running" /\ op.responses = << >>
      BY <1>2
    <3>3. op.responses = << >> => Len(op.responses) # 1
      OBVIOUS
    <3> QED
      BY <1>9, <3>1, <3>2, <3>3, ExecutionAssumption DEF Resumed
  <2>2. gdb.inferior = "running"
    BY <1>2, <2>1 DEF StopAfter
  <2>3. OnlyGood
    <3>1. DOMAIN stdin = {}
      BY <2>1
    <3> QED
      BY <3>1 DEF OnlyGood
  <2>4. op.kind # "call"
    BY <2>1 DEF ExecKinds
  <2>5. rt'.execution_state = "running"
    BY <1>0, <1>1, <1>6, <2>1, <2>4, CommandFacts
  <2> QED
    BY <1>5, <2>2, <2>3, <2>5
<1> QED
  BY <1>1, <1>7, <1>8, <1>9 DEF CalmCore

\* The stop that wait_for_stop or interrupt reads is the last one.
LEMMA CalmStopRead ==
    ASSUME BaseInv, CalmCore, gdb.inferior = "exited" => usage.exits, StopRead
    PROVE  CalmCore'
<1> DEFINE m == out[1]
<1>0. TypeInv
  BY DEF BaseInv
<1>1. /\ IsStop(m) /\ 1 \in DOMAIN out
      /\ rt'.execution_state = IF op.kind = "interrupt" THEN "paused" ELSE StateAfter(m)
      /\ \E k \in 1..Len(out) : out' \in Seq(Record) /\ Suffix(out', out, k)
  BY <1>0, StopReadFacts
<1>2. op' = Idle /\ UNCHANGED <<gdb, stdin>> /\ op.kind \in {"wait", "interrupt"}
  BY DEF StopRead, Return
<1>3. Waiting
  BY <1>2 DEF CalmCore
<1>4. ~Harmless(m) /\ m.type # "thread-group-exited"
  BY <1>1 DEF Harmless, IsResult, IsStop
<1>5. StopAhead(0)
  BY <1>1, <1>3, <1>4 DEF Waiting, Moving, Quiet
<1>6. PICK i \in DOMAIN out :
       /\ LastStop(out[i])
       /\ \A j \in DOMAIN out : j # i =>
             \/ Harmless(out[j]) /\ (j < i => out[j].token # 0)
             \/ j < i /\ out[j].type = "thread-group-exited"
  BY <1>5 DEF StopAhead
<1>7. i = 1
  BY <1>1, <1>4, <1>6
<1>8. Quiet'
  <2>1. PICK k \in 1..Len(out) : Suffix(out', out, k)
    BY <1>1
  <2>2. \A j \in DOMAIN out : j \in Nat /\ 1 <= j
    BY <1>0, EmptyStream DEF TypeInv, TypeOK
  <2>3. Len(out) \in Nat /\ k \in Nat /\ 1 <= k
    BY <1>0, EmptyStream DEF TypeInv, TypeOK
  <2>4. \A j \in DOMAIN out' : j + k \in DOMAIN out /\ out'[j] = out[j + k] /\ j \in Nat /\ 1 <= j
    BY <2>1 DEF Suffix
  <2>5. \A j \in DOMAIN out' : j + k # 1 /\ ~(j + k < 1)
    BY <2>3, <2>4
  <2>6. \A j \in DOMAIN out' : Harmless(out'[j])
    BY <1>6, <1>7, <2>4, <2>5
  <2> QED
    BY <2>6 DEF Quiet, Harmless
<1>9. LastStop(m)
  BY <1>6, <1>7
<1>10. rt'.execution_state = gdb.inferior /\ gdb.inferior # "running"
  <2>1. gdb.inferior = StateAfter(m) /\ StateAfter(m) \in {"exited", "paused"}
    BY <1>9 DEF LastStop, StateAfter
  <2>2. op.kind = "interrupt" => gdb.inferior # "exited"
    BY <1>3 DEF Waiting
  <2> QED
    BY <1>1, <2>1, <2>2
<1>11. OnlyGood'
  BY <1>2, <1>3 DEF Waiting, OnlyGood
<1>12. Between'
  BY <1>2, <1>8, <1>10, <1>11 DEF Between, Resting, Shown
<1> QED
  BY <1>2, <1>12, CalmEnd

\* A wait that times out has seen no stop, and there was none.
LEMMA CalmWaitTimesOut ==
    ASSUME BaseInv, Calm, CalmCore, WaitTimesOut
    PROVE  CalmCore'
<1>0. TypeInv
  BY DEF BaseInv
<1>1. /\ op' = Idle /\ UNCHANGED <<gdb, stdin, out>> /\ op.kind \in {"wait", "interrupt"}
      /\ out = << >>
  BY DEF WaitTimesOut, Return, MayTimeOut, Calm
<1>2. Waiting
  BY <1>1 DEF CalmCore
<1>3. DOMAIN out = {}
  BY <1>1
<1>4. Moving /\ op.draft.execution_state = "running" /\ op.class # "running" /\ OnlyGood
  BY <1>2, <1>3 DEF Waiting, StopAhead
<1>5. rt'.execution_state = "running"
  BY <1>0, <1>4, WaitTimesOutFacts
<1>6. Between'
  BY <1>1, <1>4, <1>5, CalmStill DEF Between, Shown
<1> QED
  BY <1>1, <1>6, CalmEnd

\* An operation that answers at once.
LEMMA CalmAtOnce ==
    ASSUME CalmCore, ContinueRefused \/ WaitExisting
    PROVE  CalmCore'
<1>1. ~Busy /\ op' = Idle /\ UNCHANGED <<gdb, stdin, out, rt>>
  BY DEF ContinueRefused, WaitExisting, Return
<1>2. Between
  BY <1>1 DEF CalmCore
<1>3. Between'
  BY <1>1, <1>2, CalmStill DEF Between, Resting, Shown
<1> QED
  BY <1>1, <1>3, CalmEnd

\* A new session is at rest.
LEMMA CalmInit == Init => CalmInv
<1> SUFFICES ASSUME Init PROVE CalmInv
  OBVIOUS
<1>1. Shown = "not_started" /\ gdb.inferior = "not_started" /\ op.kind = "idle"
  BY StartedOne, IdleType DEF Init, Shown
<1>2. DOMAIN out = {} /\ DOMAIN stdin = {} /\ result.kind = "idle"
  BY DEF Init
<1>3. Between
  BY <1>1, <1>2 DEF Between, OnlyGood, Resting, Quiet
<1>4. CalmCore
  BY <1>1, <1>3, Names DEF CalmCore, Sent
<1> QED
  BY <1>1, <1>2, <1>4 DEF CalmInv, WaitBlocksWhileRunning

\* A program only exits where it may.
LEMMA ExitsStep ==
    ASSUME TypeInv, gdb.inferior = "exited" => usage.exits, Next
    PROVE  (gdb.inferior = "exited" => usage.exits)'
<1>0. UNCHANGED usage
  BY DEF Next
<1>1. CASE GdbExecute
  <2>1. gdb'.inferior = "running" \/ gdb' = gdb
    BY <1>1, ExecuteFacts
  <2> QED
    BY <1>0, <2>1
<1>2. ASSUME NEW reason \in GdbReasons, InferiorStops(reason)
      PROVE  (gdb.inferior = "exited" => usage.exits)'
  <2>1. /\ reason \in ExitReasons => usage.exits
        /\ LET a == Stop(gdb.run, reason) IN a.reason = reason /\ gdb'.inferior = StateAfter(a)
    BY <1>2, StopsFacts
  <2> QED
    BY <1>0, <2>1 DEF StateAfter
<1>3. CASE GdbDies
  <2>1. gdb'.inferior = gdb.inferior
    BY <1>3 DEF GdbDies, TypeInv, TypeOK
  <2> QED
    BY <1>0, <2>1
<1>4. CASE Client
  <2>1. gdb'.inferior = gdb.inferior
    <3>1. CASE Interrupt
      BY <3>1 DEF Interrupt, TypeInv, TypeOK
    <3> QED
      BY <1>4, <3>1
      DEF Client, FoundDead, SendCommand, ContinueRefused, WaitExisting, WaitForStop
  <2> QED
    BY <1>0, <2>1
<1>5. CASE Server
  <2>1. gdb' = gdb
    BY <1>5 DEF Server, ReadRecord, CommandReturns, CallReturns, CommandTimesOut, CallTimesOut,
                ReadWaiting, StopRead, WaitTimesOut, TransportFails
  <2> QED
    BY <1>0, <2>1
<1> QED
  BY <1>1, <1>2, <1>3, <1>4, <1>5 DEF Next, Gdb

\* Neither a dead GDB nor a session that lost its transport comes back.
LEMMA CalmNowBefore ==
    ASSUME TypeInv, Next, CalmNow'
    PROVE  CalmNow
<1>0. Calm /\ gdb'.alive /\ rt'.controller
  BY DEF CalmNow, Calm, Next
<1>1. gdb \in GdbType
  BY DEF TypeInv, TypeOK, GdbType, GdbStates
<1>2. Busy => rt.controller
  BY DEF TypeInv, DraftInv
<1>3. CASE Gdb
  <2>1. gdb.alive /\ rt' = rt
    BY <1>3 DEF Gdb, GdbExecute, InferiorStops, GdbDies
  <2> QED
    BY <1>0, <2>1 DEF CalmNow
<1>4. CASE Client
  <2>1. rt.controller
    BY <1>4 DEF Client, FoundDead, SendCommand, ContinueRefused, WaitExisting, WaitForStop,
                Interrupt
  <2>2. gdb'.alive = gdb.alive
    <3>1. CASE Interrupt
      BY <1>1, <3>1 DEF Interrupt, GdbType
    <3> QED
      BY <1>4, <3>1
      DEF Client, FoundDead, SendCommand, ContinueRefused, WaitExisting, WaitForStop
  <2> QED
    BY <1>0, <2>1, <2>2 DEF CalmNow
<1>5. CASE Server
  <2>1. gdb' = gdb /\ Busy
    BY <1>5 DEF Server, ReadRecord, CommandReturns, CallReturns, CommandTimesOut, CallTimesOut,
                ReadWaiting, StopRead, WaitTimesOut, TransportFails
  <2> QED
    BY <1>0, <1>2, <2>1 DEF CalmNow
<1> QED
  BY <1>3, <1>4, <1>5 DEF Next

\* Every step of a live calm session keeps the session calm.
LEMMA CalmCoreStep ==
    ASSUME BaseInv, CalmInv, Next, CalmNow'
    PROVE  CalmCore'
<1>0. TypeInv /\ UNCHANGED usage
  BY DEF BaseInv, Next
<1>1. CalmNow /\ Calm /\ CalmCore /\ (gdb.inferior = "exited" => usage.exits)
  BY <1>0, CalmNowBefore DEF CalmInv, CalmNow
<1>2. gdb'.alive /\ rt'.controller
  BY DEF CalmNow
<1>3. CASE Gdb
  <2>1. ~GdbDies
    <3>1. GdbDies => ~gdb'.alive
      BY <1>0 DEF GdbDies, TypeInv, TypeOK
    <3> QED
      BY <1>2, <3>1
  <2>2. CASE GdbExecute
    BY <1>0, <1>1, <2>2, CalmExecute
  <2>3. ASSUME NEW reason \in GdbReasons, InferiorStops(reason) PROVE CalmCore'
    BY <1>0, <1>1, <2>3, CalmStops
  <2> QED
    BY <1>3, <2>1, <2>2, <2>3 DEF Gdb
<1>4. CASE Client
  <2>1. ASSUME NEW k \in AllKinds, FoundDead(k) PROVE FALSE
    BY <1>1, <2>1 DEF FoundDead, CalmNow
  <2>2. ASSUME NEW k \in AllKinds, SendCommand(k) PROVE CalmCore'
    BY <1>0, <1>1, <2>2, CalmSend
  <2>3. CASE ContinueRefused \/ WaitExisting
    BY <1>1, <2>3, CalmAtOnce
  <2>4. CASE WaitForStop \/ Interrupt
    BY <1>0, <1>1, <2>4, CalmWait
  <2> QED
    BY <1>4, <2>1, <2>2, <2>3, <2>4 DEF Client
<1>5. CASE Server
  <2>1. CASE ReadRecord
    BY <1>0, <1>1, <2>1, CalmRead
  <2>2. CASE CommandReturns \/ CallReturns
    BY <1>1, <2>2, CalmAnswered
  <2>3. CASE (\E acknowledged \in BOOLEAN : CommandTimesOut(acknowledged)) \/ CallTimesOut
    BY <1>1, <2>3, CalmTimeOut
  <2>4. CASE ReadWaiting
    BY <1>0, <1>1, <2>4, CalmReadWaiting
  <2>5. CASE StopRead
    BY <1>1, <2>5, CalmStopRead
  <2>6. CASE WaitTimesOut
    BY <1>1, <2>6, CalmWaitTimesOut
  <2>7. ~TransportFails
    BY <1>1 DEF TransportFails, CalmNow
  <2> QED
    BY <1>5, <2>1, <2>2, <2>3, <2>4, <2>5, <2>6, <2>7 DEF Server
<1> QED
  BY <1>3, <1>4, <1>5 DEF Next

\* wait_for_stop answers at once only about an inferior at rest.
LEMMA WaitBlocksStep ==
    ASSUME BaseInv, CalmInv, Next
    PROVE  WaitBlocksWhileRunning'
<1>0. UNCHANGED usage /\ WaitBlocksWhileRunning
  BY DEF Next, CalmInv
<1>1. ASSUME NEW o, NEW status, Return(o, status), status # "existing"
      PROVE  WaitBlocksWhileRunning'
  BY <1>1 DEF Return, WaitBlocksWhileRunning
<1>2. ASSUME UNCHANGED result PROVE WaitBlocksWhileRunning'
  BY <1>0, <1>2 DEF WaitBlocksWhileRunning, Calm
<1>3. CASE WaitExisting
  <2>1. /\ ~Busy /\ rt.controller /\ gdb.alive /\ Shown # "running"
        /\ Return(NewOp("wait", 0), "existing")
    BY <1>3 DEF WaitExisting, Shown
  <2>2. result'.actual = gdb.inferior
    BY <2>1 DEF Return
  <2>3. Calm => gdb.inferior # "running"
    BY <2>1 DEF CalmInv, CalmNow, CalmCore, Between, Resting
  <2> QED
    BY <1>0, <2>2, <2>3 DEF WaitBlocksWhileRunning, Calm
<1>4. CASE Gdb
  BY <1>2, <1>4 DEF Gdb, GdbExecute, InferiorStops, GdbDies
<1>5. CASE Client
  <2>1. ASSUME NEW k \in AllKinds, FoundDead(k) PROVE WaitBlocksWhileRunning'
    BY <1>1, <2>1 DEF FoundDead
  <2>2. ASSUME NEW k \in AllKinds, SendCommand(k) PROVE WaitBlocksWhileRunning'
    BY <1>2, <2>2 DEF SendCommand
  <2>3. CASE ContinueRefused
    BY <1>1, <2>3 DEF ContinueRefused
  <2>4. CASE WaitForStop \/ Interrupt
    BY <1>2, <2>4 DEF WaitForStop, Interrupt
  <2> QED
    BY <1>3, <1>5, <2>1, <2>2, <2>3, <2>4 DEF Client
<1>6. CASE Server
  <2>1. ASSUME NEW acknowledged \in BOOLEAN, CommandTimesOut(acknowledged)
        PROVE  WaitBlocksWhileRunning'
    <3> DEFINE s == IF acknowledged /\ op.kind \in ExecKinds
                       /\ (op.class = "running" \/ rt'.execution_state = "running")
                    THEN "running" ELSE "timeout"
    <3>1. Return(op, s)
      BY <2>1 DEF CommandTimesOut
    <3>2. s # "existing"
      OBVIOUS
    <3> HIDE DEF s
    <3> QED
      BY <1>1, <3>1, <3>2
  <2>2. CASE ReadRecord \/ ReadWaiting
    BY <1>2, <2>2 DEF ReadRecord, ReadWaiting
  <2>3. CASE CommandReturns
    BY <1>1, <2>3 DEF CommandReturns
  <2>4. CASE CallReturns
    <3> DEFINE s == IF op.class = "error" THEN "error" ELSE "success"
    <3>1. Return(op, s) /\ s # "existing"
      BY <2>4 DEF CallReturns
    <3> HIDE DEF s
    <3> QED
      BY <1>1, <3>1
  <2>5. CASE CallTimesOut
    BY <1>1, <2>5 DEF CallTimesOut
  <2>6. CASE StopRead
    BY <1>1, <2>6 DEF StopRead
  <2>7. CASE WaitTimesOut
    <3> DEFINE s == IF op.kind = "interrupt" THEN "warning" ELSE "timeout"
    <3>1. Return(op, s) /\ s # "existing"
      BY <2>7 DEF WaitTimesOut
    <3> HIDE DEF s
    <3> QED
      BY <1>1, <3>1
  <2>8. CASE TransportFails
    BY <1>1, <2>8 DEF TransportFails
  <2> QED
    BY <1>6, <2>1, <2>2, <2>3, <2>4, <2>5, <2>6, <2>7, <2>8 DEF Server
<1> QED
  BY <1>4, <1>5, <1>6 DEF Next

\* The calm invariant is inductive.
LEMMA CalmStep == BaseInv /\ CalmInv /\ [Next]_vars => CalmInv'
<1> SUFFICES ASSUME BaseInv, CalmInv, [Next]_vars PROVE CalmInv'
  OBVIOUS
<1>1. CASE Next
  BY <1>1, ExitsStep, CalmCoreStep, WaitBlocksStep DEF CalmInv, BaseInv
<1>2. CASE UNCHANGED vars
  <2>1. UNCHANGED <<usage, gdb, stdin, out, rt, op, result>>
    BY <1>2 DEF vars
  <2>2. (CalmNow' => CalmNow) /\ (WaitBlocksWhileRunning => WaitBlocksWhileRunning')
    BY <2>1 DEF CalmNow, Calm, WaitBlocksWhileRunning
  <2>3. CalmCore => CalmCore'
    <3>1. /\ Shown' = Shown /\ (Busy' <=> Busy) /\ (Sent' <=> Sent)
          /\ (Resting => Resting') /\ (OnlyGood => OnlyGood') /\ (Moving => Moving')
          /\ (Quiet => Quiet')
      BY <2>1, CalmStill DEF Shown, Busy, Sent, Resting
    <3>2. \A x : StopAhead(x) => StopAhead(x)'
      BY <2>1 DEF StopAhead, LastStop, Harmless
    <3>3. Between => Between'
      BY <3>1, <3>2 DEF Between
    <3>4. Waiting => Waiting'
      BY <2>1, <3>1, <3>2 DEF Waiting
    <3>5. GoodWhileRunning => GoodWhileRunning'
      <4>1. \A x : x = op.token => (StopAhead(x) => StopAhead(x)')
        BY <3>2
      <4>2. StopAhead(op.token) => StopAhead(op.token)'
        BY <2>1 DEF StopAhead, LastStop, Harmless
      <4> QED
        BY <2>1, <3>1, <4>2 DEF GoodWhileRunning, LastStop
    <3>6. NotResumed => NotResumed'
      BY <2>1, <3>1 DEF NotResumed
    <3>7. Resumed => Resumed'
      BY <2>1 DEF Resumed, Unacknowledged, StopAfter, LastStop, Harmless
    <3> QED
      BY <2>1, <3>1, <3>3, <3>4, <3>5, <3>6, <3>7 DEF CalmCore
  <2> QED
    BY <2>1, <2>2, <2>3 DEF CalmInv
<1> QED
  BY <1>1, <1>2

\* Once everything is read, the state the session reports is the state the
\* inferior is in, after any sequence of calm operations: timeouts, late
\* answers, stops read by another operation, and interrupts.
THEOREM CalmStatesAreActual == Spec => []CalmStateIsActual
<1>1. Init => BaseInv /\ CalmInv
  BY TypeInit, OrderInit, OwnInit, CalmInit DEF BaseInv
<1>2. BaseInv /\ CalmInv /\ [Next]_vars => (BaseInv /\ CalmInv)'
  BY TypeStep, OrderStep, OwnStep, CalmStep DEF BaseInv
<1>3. BaseInv /\ CalmInv => CalmStateIsActual
  <2> SUFFICES ASSUME CalmInv, Calm, Drained PROVE rt.execution_state = gdb.inferior
    BY DEF CalmStateIsActual, ReportedStateIsActual
  <2>1. Between /\ out = << >>
    BY DEF CalmInv, CalmNow, Drained, CalmCore
  <2>2. DOMAIN out = {}
    BY <2>1
  <2>3. ~StopAhead(0)
    BY <2>2 DEF StopAhead
  <2> QED
    BY <2>1, <2>3 DEF Between, Resting, Moving, Shown
<1> QED
  BY <1>1, <1>2, <1>3, PTL DEF Spec

\* wait_for_stop answers without waiting only when the inferior is not
\* running, in calm usage.
THEOREM WaitsBlock == Spec => []WaitBlocksWhileRunning
<1>1. Init => BaseInv /\ CalmInv
  BY TypeInit, OrderInit, OwnInit, CalmInit DEF BaseInv
<1>2. BaseInv /\ CalmInv /\ [Next]_vars => (BaseInv /\ CalmInv)'
  BY TypeStep, OrderStep, OwnStep, CalmStep DEF BaseInv
<1>3. BaseInv /\ CalmInv => WaitBlocksWhileRunning
  BY DEF CalmInv
<1> QED
  BY <1>1, <1>2, <1>3, PTL DEF Spec

=============================================================================
