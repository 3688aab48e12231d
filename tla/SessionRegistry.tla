-------------------------- MODULE SessionRegistry ---------------------------
(***************************************************************************)
(* The registry of sessions (session/registry.py) with the start and stop  *)
(* of each session (session/lifecycle.py), as called by several threads.   *)
(*                                                                         *)
(* The registry's own lock protects single reads and updates of _sessions  *)
(* and _closing_sessions, so each of its critical sections is one step.    *)
(* A session's workflow lock is held across a whole tool call, a status    *)
(* summary or a stop; it is modelled by its owner.  The lifecycle lock and *)
(* the command lock are only taken by a thread that holds the workflow     *)
(* lock of the session, or by the one thread that knows a session that is  *)
(* not yet published, so they never block and are left out.                *)
(*                                                                         *)
(* A session object is created for each allocated id and stored under no   *)
(* other, so it is identified with its id.                                 *)
(***************************************************************************)
EXTENDS Integers, FiniteSets

CONSTANTS
    Threads,        \* threads that call the registry
    MaxSessions,    \* bound: session ids allocated in a behaviour
    Operations,     \* the registry operations the threads use
    Faults          \* what may happen to a GDB process: "dies", "hangs"

AllOperations == {"start", "close", "tool", "list", "shutdown"}

Sessions == 1..MaxSessions

\* The daemon thread that stops session s during shutdown_all.
Worker(s) == <<"worker", s>>
Workers   == {Worker(s) : s \in Sessions}
Procs     == Threads \cup Workers

ASSUME RegistryAssumption ==
    /\ MaxSessions \in Nat
    /\ Operations \subseteq AllOperations
    /\ Faults \subseteq {"dies", "hangs"}
    /\ Threads \cap Workers = {}

Free == <<"free", 0>>      \* the owner of a lock nobody holds

ASSUME FreeAssumption == Free \notin Procs

VARIABLES
    tracked,    \* the keys of _sessions
    closing,    \* _closing_sessions
    nextId,     \* _next_session_id
    gdb,        \* per session: its GDB process
    ctl,        \* per session: the transport has a controller
    state,      \* per session: runtime.state
    running,    \* per session: runtime.is_running
    owner,      \* per session: the holder of its workflow lock
    pc,         \* per process: where it is
    arg,        \* per process: the session it works on (0: none)
    todo,       \* per thread: sessions a list or shutdown has yet to visit
    outcome,    \* per session: the result of its start()
    abandoned   \* sessions whose shutdown worker timed out

reg      == <<tracked, closing, nextId>>
sess     == <<gdb, ctl, state, running>>
vars     == <<tracked, closing, nextId, gdb, ctl, state, running, owner,
              pc, arg, todo, outcome, abandoned>>

StartSteps    == {"s_open", "s_confirm", "s_commands", "s_probe", "s_publish"}
CloseSteps    == {"c_check", "c_running", "c_lock", "c_stop", "c_exit", "c_mark",
                  "c_release", "c_failed", "c_remove", "c_unflag"}
ToolSteps     == {"t_lock", "t_execute", "t_release"}
ListSteps     == {"l_next", "l_lock", "l_status"}
ShutdownSteps == {"d_next", "d_join", "d_clear"}
WorkerSteps   == {"w_lock", "w_stop", "w_exit", "w_mark", "w_release", "w_done"}

TypeOK ==
    /\ tracked \subseteq Sessions /\ closing \subseteq Sessions
    /\ nextId \in 1..(MaxSessions + 1)
    /\ gdb \in [Sessions -> {"none", "alive", "hung", "dead"}]
    /\ ctl \in [Sessions -> BOOLEAN]
    /\ state \in [Sessions -> {"created", "starting", "ready", "failed", "stopped"}]
    /\ running \in [Sessions -> BOOLEAN]
    /\ owner \in [Sessions -> Procs \cup {Free}]
    /\ pc \in [Procs -> {"idle"} \cup StartSteps \cup CloseSteps \cup ToolSteps
                        \cup ListSteps \cup ShutdownSteps \cup WorkerSteps]
    /\ arg \in [Procs -> 0..MaxSessions]
    /\ todo \in [Threads -> SUBSET Sessions]
    /\ outcome \in [Sessions -> {"none", "success", "error"}]
    /\ abandoned \subseteq Sessions

Init ==
    /\ tracked = {} /\ closing = {} /\ nextId = 1
    /\ gdb = [s \in Sessions |-> "none"]
    /\ ctl = [s \in Sessions |-> FALSE]
    /\ state = [s \in Sessions |-> "created"]
    /\ running = [s \in Sessions |-> FALSE]
    /\ owner = [s \in Sessions |-> Free]
    /\ pc = [p \in Procs |-> "idle"]
    /\ arg = [p \in Procs |-> 0]
    /\ todo = [t \in Threads |-> {}]
    /\ outcome = [s \in Sessions |-> "none"]
    /\ abandoned = {}

-----------------------------------------------------------------------------
(* Helpers *)

Goto(p, step) == pc' = [pc EXCEPT ![p] = step]

\* The call returns.
Done(p) == Goto(p, "idle") /\ arg' = [arg EXCEPT ![p] = 0]

At(p, step) == pc[p] = step

\* runtime.mark_failed / mark_transport_terminated on session s.  The code
\* forgets the controller and then sets the state, under a lock, in two
\* writes; that a reader without the workflow lock may see the session
\* running without a controller between them is left out.
Terminated(s) ==
    /\ ctl' = [ctl EXCEPT ![s] = FALSE]
    /\ state' = [state EXCEPT ![s] = "failed"]
    /\ running' = [running EXCEPT ![s] = FALSE]

\* transport.exit: the process is terminated, the controller forgotten.  A
\* hung process keeps the caller waiting.
Exit(s) ==
    /\ gdb[s] # "hung"
    /\ gdb' = [gdb EXCEPT ![s] = IF @ = "alive" THEN "dead" ELSE @]
    /\ ctl' = [ctl EXCEPT ![s] = FALSE]

\* A command finds its GDB dead, or answers.  Without a controller it is
\* refused; a hung GDB answers nothing until a timeout.
RunCommand(s) ==
    IF ctl[s] /\ gdb[s] = "dead"
    THEN Terminated(s) /\ UNCHANGED gdb
    ELSE UNCHANGED sess

Acquire(p, s) == owner[s] = Free /\ owner' = [owner EXCEPT ![s] = p]
Release(p, s) == owner[s] = p /\ owner' = [owner EXCEPT ![s] = Free]

-----------------------------------------------------------------------------
(* GDB processes (external) *)

GdbDies(s) ==
    /\ "dies" \in Faults
    /\ gdb[s] \in {"alive", "hung"}
    /\ gdb' = [gdb EXCEPT ![s] = "dead"]
    /\ UNCHANGED <<reg, ctl, state, running, owner, pc, arg, todo, outcome, abandoned>>

GdbHangs(s) ==
    /\ "hangs" \in Faults
    /\ gdb[s] = "alive"
    /\ outcome[s] = "success"
    /\ gdb' = [gdb EXCEPT ![s] = "hung"]
    /\ UNCHANGED <<reg, ctl, state, running, owner, pc, arg, todo, outcome, abandoned>>

-----------------------------------------------------------------------------
(* start_session: allocate an id, start() the new session, publish it *)

\* Broken variant for mutation: the id of a session that is gone is given
\* again.
StartAllocateReuse(t) ==
    \E s \in {r \in Sessions : r <= nextId /\ r \notin tracked} :
        /\ At(t, "idle") /\ "start" \in Operations
        /\ nextId' = IF s = nextId THEN nextId + 1 ELSE nextId
        /\ arg' = [arg EXCEPT ![t] = s]
        /\ state' = [state EXCEPT ![s] = "starting"]
        /\ Goto(t, "s_open")
        /\ UNCHANGED <<tracked, closing, gdb, ctl, running, owner, todo, outcome, abandoned>>

StartAllocate(t) ==
    /\ At(t, "idle") /\ "start" \in Operations /\ nextId <= MaxSessions
    /\ nextId' = nextId + 1
    /\ arg' = [arg EXCEPT ![t] = nextId]
    /\ state' = [state EXCEPT ![nextId] = "starting"]
    /\ Goto(t, "s_open")
    /\ UNCHANGED <<tracked, closing, gdb, ctl, running, owner, todo, outcome, abandoned>>

\* An error of start(): the transport is closed, the runtime failed, and the
\* session is never published.
StartError(t) ==
    LET s == arg[t] IN
    /\ gdb' = [gdb EXCEPT ![s] = IF ctl[s] /\ @ = "alive" THEN "dead" ELSE @]
    /\ Terminated(s)
    /\ outcome' = [outcome EXCEPT ![s] = "error"]
    /\ Done(t)
    /\ UNCHANGED <<reg, owner, todo, abandoned>>

\* Validation, spawning or connecting, the initial output and -gdb-version.
StartOpen(t) ==
    /\ At(t, "s_open")
    /\ \/ /\ gdb' = [gdb EXCEPT ![arg[t]] = "alive"]
          /\ ctl' = [ctl EXCEPT ![arg[t]] = TRUE]
          /\ Goto(t, "s_confirm")
          /\ UNCHANGED <<reg, state, running, owner, arg, todo, outcome, abandoned>>
       \/ StartError(t)

\* "set confirm off": its failure is only a warning.
StartConfirm(t) ==
    /\ At(t, "s_confirm")
    /\ RunCommand(arg[t])
    /\ \E given \in BOOLEAN : Goto(t, IF given THEN "s_commands" ELSE "s_probe")
    /\ UNCHANGED <<reg, owner, arg, todo, outcome, abandoned>>

\* Environment and init commands: the first failing one ends the start.
StartCommands(t) ==
    /\ At(t, "s_commands")
    /\ \/ /\ ctl[arg[t]] /\ gdb[arg[t]] # "dead"
          /\ Goto(t, "s_probe")
          /\ UNCHANGED <<reg, sess, owner, arg, todo, outcome, abandoned>>
       \/ StartError(t)

\* "info files": its failure is only a warning; then mark_ready.
StartProbe(t) ==
    LET s == arg[t] IN
    /\ At(t, "s_probe")
    /\ ctl' = [ctl EXCEPT ![s] = @ /\ gdb[s] # "dead"]
    /\ state' = [state EXCEPT ![s] = "ready"]
    /\ running' = [running EXCEPT ![s] = TRUE]
    /\ outcome' = [outcome EXCEPT ![s] = "success"]
    /\ Goto(t, "s_publish")
    /\ UNCHANGED <<reg, gdb, owner, arg, todo, abandoned>>

StartPublish(t) ==
    /\ At(t, "s_publish")
    /\ tracked' = tracked \cup {arg[t]}
    /\ Done(t)
    /\ UNCHANGED <<closing, nextId, sess, owner, todo, outcome, abandoned>>

-----------------------------------------------------------------------------
(* A stop(), shared by close_session and the shutdown workers; the caller
   holds the workflow lock.  `next' and `failed' are the caller's steps. *)

StopEnter(p, next, failed) ==
    /\ Goto(p, IF ctl[arg[p]] THEN next ELSE failed)
    /\ UNCHANGED <<reg, sess, owner, arg, todo, outcome, abandoned>>

StopExit(p, next) ==
    /\ Exit(arg[p])
    /\ Goto(p, next)
    /\ UNCHANGED <<reg, state, running, owner, arg, todo, outcome, abandoned>>

\* mark_stopped, or mark_failed when the exit raised.
StopMark(p, next, failed) ==
    /\ \/ state' = [state EXCEPT ![arg[p]] = "stopped"] /\ Goto(p, next)
       \/ state' = [state EXCEPT ![arg[p]] = "failed"] /\ Goto(p, failed)
    /\ running' = [running EXCEPT ![arg[p]] = FALSE]
    /\ UNCHANGED <<reg, gdb, ctl, owner, arg, todo, outcome, abandoned>>

-----------------------------------------------------------------------------
(* close_session *)

CloseFlag(t, s) ==
    /\ At(t, "idle") /\ "close" \in Operations
    /\ s \in tracked
    /\ closing' = closing \cup {s}
    /\ arg' = [arg EXCEPT ![t] = s]
    /\ Goto(t, "c_check")
    /\ UNCHANGED <<tracked, nextId, sess, owner, todo, outcome, abandoned>>

\* `session.controller is None' and `session.is_running' are two reads.
CloseCheck(t) ==
    /\ At(t, "c_check")
    /\ Goto(t, IF ctl[arg[t]] THEN "c_lock" ELSE "c_running")
    /\ UNCHANGED <<reg, sess, owner, arg, todo, outcome, abandoned>>

CloseRunning(t) ==
    /\ At(t, "c_running")
    /\ Goto(t, IF running[arg[t]] THEN "c_unflag" ELSE "c_remove")
    /\ UNCHANGED <<reg, sess, owner, arg, todo, outcome, abandoned>>

\* Broken variant for mutation: stop() without the workflow lock.
CloseWithoutLock(t) ==
    /\ At(t, "c_lock")
    /\ Goto(t, "c_stop")
    /\ UNCHANGED <<reg, sess, owner, arg, todo, outcome, abandoned>>

CloseLock(t) ==
    /\ At(t, "c_lock")
    /\ Acquire(t, arg[t])
    /\ Goto(t, "c_stop")
    /\ UNCHANGED <<reg, sess, arg, todo, outcome, abandoned>>

CloseStop(t)  == At(t, "c_stop") /\ StopEnter(t, "c_exit", "c_failed")
CloseExit(t)  == At(t, "c_exit") /\ StopExit(t, "c_mark")
CloseMark(t)  == At(t, "c_mark") /\ StopMark(t, "c_release", "c_failed")

\* Back from stop(): remove the session if it succeeded, keep it otherwise.
CloseRelease(t) ==
    /\ \/ At(t, "c_release") /\ Goto(t, "c_remove")
       \/ At(t, "c_failed") /\ Goto(t, "c_unflag")
    /\ Release(t, arg[t])
    /\ UNCHANGED <<reg, sess, arg, todo, outcome, abandoned>>

CloseRemove(t) ==
    /\ At(t, "c_remove")
    /\ tracked' = tracked \ {arg[t]}
    /\ closing' = closing \ {arg[t]}
    /\ Done(t)
    /\ UNCHANGED <<nextId, sess, owner, todo, outcome, abandoned>>

\* Broken variant for mutation: an error path forgets the closing flag.
CloseKeepsFlag(t) ==
    /\ At(t, "c_unflag")
    /\ Done(t)
    /\ UNCHANGED <<reg, sess, owner, todo, outcome, abandoned>>

\* The error paths: the session stays, and is no longer closing.
CloseUnflag(t) ==
    /\ At(t, "c_unflag")
    /\ closing' = closing \ {arg[t]}
    /\ Done(t)
    /\ UNCHANGED <<tracked, nextId, sess, owner, todo, outcome, abandoned>>

-----------------------------------------------------------------------------
(* A tool call on one session: resolve_session, then the handler under the
   workflow lock (mcp/handlers/dispatch.py). *)

\* Broken variant for mutation: closing sessions are still resolved.
ToolResolveClosing(t, s) ==
    /\ At(t, "idle") /\ "tool" \in Operations
    /\ s \in tracked
    /\ arg' = [arg EXCEPT ![t] = s]
    /\ Goto(t, "t_lock")
    /\ UNCHANGED <<reg, sess, owner, todo, outcome, abandoned>>

ToolResolve(t, s) ==
    /\ At(t, "idle") /\ "tool" \in Operations
    /\ s \in tracked /\ s \notin closing
    /\ arg' = [arg EXCEPT ![t] = s]
    /\ Goto(t, "t_lock")
    /\ UNCHANGED <<reg, sess, owner, todo, outcome, abandoned>>

ToolLock(t) ==
    /\ At(t, "t_lock")
    /\ Acquire(t, arg[t])
    /\ Goto(t, "t_execute")
    /\ UNCHANGED <<reg, sess, arg, todo, outcome, abandoned>>

ToolExecute(t) ==
    /\ At(t, "t_execute")
    /\ RunCommand(arg[t])
    /\ Goto(t, "t_release")
    /\ UNCHANGED <<reg, owner, arg, todo, outcome, abandoned>>

ToolRelease(t) ==
    /\ At(t, "t_release")
    /\ Release(t, arg[t])
    /\ Done(t)
    /\ UNCHANGED <<reg, sess, todo, outcome, abandoned>>

-----------------------------------------------------------------------------
(* list_sessions: a snapshot, then one summary after the other, each under
   the session's locks. *)

ListSnapshot(t) ==
    /\ At(t, "idle") /\ "list" \in Operations
    /\ todo' = [todo EXCEPT ![t] = tracked]
    /\ Goto(t, "l_next")
    /\ UNCHANGED <<reg, sess, owner, arg, outcome, abandoned>>

Smallest(S) == CHOOSE s \in S : \A r \in S : s <= r

ListNext(t) ==
    /\ At(t, "l_next")
    /\ IF todo[t] = {}
       THEN Done(t) /\ UNCHANGED todo
       ELSE /\ arg' = [arg EXCEPT ![t] = Smallest(todo[t])]
            /\ todo' = [todo EXCEPT ![t] = @ \ {Smallest(@)}]
            /\ Goto(t, "l_lock")
    /\ UNCHANGED <<reg, sess, owner, outcome, abandoned>>

ListLock(t) ==
    /\ At(t, "l_lock")
    /\ Acquire(t, arg[t])
    /\ Goto(t, "l_status")
    /\ UNCHANGED <<reg, sess, arg, todo, outcome, abandoned>>

\* get_status marks a dead transport.
ListStatus(t) ==
    /\ At(t, "l_status")
    /\ RunCommand(arg[t])
    /\ Release(t, arg[t])
    /\ Goto(t, "l_next")
    /\ UNCHANGED <<reg, arg, todo, outcome, abandoned>>

-----------------------------------------------------------------------------
(* shutdown_all, and the worker it starts for each session *)

\* Broken variant for mutation: the sessions taken over are not flagged.
ShutdownSwapUnflagged(t) ==
    /\ At(t, "idle") /\ "shutdown" \in Operations
    /\ \A u \in Threads : pc[u] \notin ShutdownSteps
    /\ todo' = [todo EXCEPT ![t] = tracked]
    /\ tracked' = {}
    /\ closing' = {}
    /\ Goto(t, "d_next")
    /\ UNCHANGED <<nextId, sess, owner, arg, outcome, abandoned>>

\* The server calls it once, when it goes down; two never overlap.
ShutdownSwap(t) ==
    /\ At(t, "idle") /\ "shutdown" \in Operations
    /\ \A u \in Threads : pc[u] \notin ShutdownSteps
    /\ todo' = [todo EXCEPT ![t] = tracked]
    /\ tracked' = {}
    /\ closing' = tracked
    /\ Goto(t, "d_next")
    /\ UNCHANGED <<nextId, sess, owner, arg, outcome, abandoned>>

\* A session without a controller needs no worker.
ShutdownNext(t) ==
    /\ At(t, "d_next")
    /\ IF todo[t] = {}
       THEN Goto(t, "d_clear") /\ UNCHANGED <<todo, arg>>
       ELSE LET s == Smallest(todo[t]) IN
            /\ todo' = [todo EXCEPT ![t] = @ \ {s}]
            /\ IF ctl[s]
               THEN /\ arg' = [arg EXCEPT ![t] = s, ![Worker(s)] = s]
                    /\ pc' = [pc EXCEPT ![t] = "d_join", ![Worker(s)] = "w_lock"]
               ELSE UNCHANGED <<arg, pc>>
    /\ UNCHANGED <<reg, sess, owner, outcome, abandoned>>

\* join() returns when the worker has ended, or after ten seconds.
ShutdownJoin(t) ==
    /\ At(t, "d_join")
    /\ At(Worker(arg[t]), "w_done")
    /\ Goto(t, "d_next")
    /\ UNCHANGED <<reg, sess, owner, arg, todo, outcome, abandoned>>

\* Broken variant for mutation: join() without a timeout.
ShutdownJoinForever(t) == FALSE /\ UNCHANGED vars

ShutdownJoinTimesOut(t) ==
    /\ At(t, "d_join")
    /\ ~At(Worker(arg[t]), "w_done")
    /\ abandoned' = abandoned \cup {arg[t]}
    /\ Goto(t, "d_next")
    /\ UNCHANGED <<reg, sess, owner, arg, todo, outcome>>

ShutdownClear(t) ==
    /\ At(t, "d_clear")
    /\ closing' = {}
    /\ Done(t)
    /\ UNCHANGED <<tracked, nextId, sess, owner, todo, outcome, abandoned>>

WorkerLock(s) ==
    /\ At(Worker(s), "w_lock")
    /\ Acquire(Worker(s), s)
    /\ Goto(Worker(s), "w_stop")
    /\ UNCHANGED <<reg, sess, arg, todo, outcome, abandoned>>

WorkerStop(s) == At(Worker(s), "w_stop") /\ StopEnter(Worker(s), "w_exit", "w_release")
WorkerExit(s) == At(Worker(s), "w_exit") /\ StopExit(Worker(s), "w_mark")
WorkerMark(s) == At(Worker(s), "w_mark") /\ StopMark(Worker(s), "w_release", "w_release")

WorkerRelease(s) ==
    /\ At(Worker(s), "w_release")
    /\ Release(Worker(s), s)
    /\ Goto(Worker(s), "w_done")
    /\ UNCHANGED <<reg, sess, arg, todo, outcome, abandoned>>

-----------------------------------------------------------------------------
Start(t) ==
    StartOpen(t) \/ StartConfirm(t) \/ StartCommands(t) \/ StartProbe(t) \/ StartPublish(t)

Close(t) ==
    CloseCheck(t) \/ CloseRunning(t) \/ CloseLock(t) \/ CloseStop(t) \/ CloseExit(t)
        \/ CloseMark(t) \/ CloseRelease(t) \/ CloseRemove(t) \/ CloseUnflag(t)

Tool(t) == ToolLock(t) \/ ToolExecute(t) \/ ToolRelease(t)

List(t) == ListNext(t) \/ ListLock(t) \/ ListStatus(t)

Shutdown(t) ==
    ShutdownNext(t) \/ ShutdownJoin(t) \/ ShutdownJoinTimesOut(t) \/ ShutdownClear(t)

Work(s) == WorkerLock(s) \/ WorkerStop(s) \/ WorkerExit(s) \/ WorkerMark(s) \/ WorkerRelease(s)

Next ==
    \/ \E s \in Sessions : GdbDies(s) \/ GdbHangs(s) \/ Work(s)
    \/ \E t \in Threads :
          \/ Start(t) \/ Close(t) \/ Tool(t) \/ List(t) \/ Shutdown(t)
          \/ StartAllocate(t) \/ ListSnapshot(t) \/ ShutdownSwap(t)
          \/ \E s \in Sessions : CloseFlag(t, s) \/ ToolResolve(t, s)

Spec == Init /\ [][Next]_vars

\* A call under way goes on as long as it can: threads are scheduled and
\* commands have timeouts.  Nothing makes a client call, a GDB die or hang;
\* and a lock is not handed out fairly (weak fairness only).
Fairness ==
    /\ \A t \in Threads : /\ WF_vars(Start(t)) /\ WF_vars(Close(t)) /\ WF_vars(Tool(t))
                          /\ WF_vars(List(t)) /\ WF_vars(Shutdown(t))
    /\ \A s \in Sessions : WF_vars(Work(s))

LiveSpec == Spec /\ Fairness

-----------------------------------------------------------------------------
(* The abstract specification *)

Starting(s) == \E t \in Threads : pc[t] \in StartSteps /\ arg[t] = s

Phase(s) ==
    CASE s >= nextId -> "unused"
      [] s < nextId /\ s \in closing -> "closing"
      [] s < nextId /\ s \in tracked \ closing -> "open"
      [] s < nextId /\ s \notin tracked \cup closing ->
            IF Starting(s) THEN "starting" ELSE "gone"

Directory == INSTANCE SessionDirectory WITH
    phase     <- [s \in Sessions |-> Phase(s)],
    debuggers <- {s \in Sessions : ctl[s]},
    givenUp   <- abandoned

\* The registry with all its threads, locks and faults implements
\* SessionDirectory: ids are given once and in order, a session that is gone
\* stays gone, and it goes only after its debugger.
ImplementsDirectory == Directory!Spec

-----------------------------------------------------------------------------
(* Properties *)

Stopping(p, s) == pc[p] \in {"c_exit", "c_mark", "w_exit", "w_mark"} /\ arg[p] = s

\* No session is refused as "closing" for ever: the flags that are up belong
\* to a close or a shutdown that has not returned yet.
ClosingIsTemporary ==
    closing # {} => \E t \in Threads : pc[t] \in CloseSteps \cup ShutdownSteps

\* A server that counts no active session - nothing tracked, nothing closing -
\* has no debugger left: the idle watchdog and /shutdown never take the server
\* down under a GDB, except one a shutdown has given up on or one whose start
\* has not been published yet.
IdleMeansNoDebugger ==
    (tracked = {} /\ closing = {}) =>
        \A s \in Sessions : outcome[s] = "success" /\ ctl[s] =>
            s \in abandoned \/ \E t \in Threads : At(t, "s_publish") /\ arg[t] = s

\* A tool call or summary never loses its session to a concurrent stop: while
\* it holds the workflow lock, a controller goes away only because the holder
\* itself found GDB dead.
WorkflowIsolation ==
    [][ \A s \in Sessions : (ctl[s] /\ ~ctl'[s] /\ s \in tracked \cup closing) =>
            owner[s] # Free /\ arg[owner[s]] = s /\ pc'[owner[s]] # pc[owner[s]] ]_vars

\* shutdown_all returns even if a GDB hangs: its workers are joined with a
\* timeout ("so a hung GDB cannot block shutdown").
ShutdownReturns ==
    \A t \in Threads : (pc[t] \in ShutdownSteps) ~> At(t, "idle")

\* close_session returns although tool calls compete for the workflow lock and
\* locks are not fair: while the session is marked as closing no new call gets
\* in.  Only a GDB that hangs, or another close or shutdown that lowers the
\* mark, can keep it waiting.
CloseReturns ==
    \A t \in Threads, s \in Sessions :
        (pc[t] \in CloseSteps /\ arg[t] = s)
            ~> (At(t, "idle") \/ gdb[s] = "hung" \/ s \notin closing)

\* "start_session publishes sessions atomically so failed startup never leaks
\* a reachable half-initialized session": a reachable session that reports
\* running has a controller, unless a stop is just taking it away.
ReachableIsInitialized ==
    \A s \in tracked : running[s] => ctl[s] \/ \E p \in Procs : Stopping(p, s)
=============================================================================
