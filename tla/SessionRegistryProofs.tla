------------------------ MODULE SessionRegistryProofs -----------------------
(***************************************************************************)
(* Proofs about SessionRegistry, for every set of threads, every number of *)
(* sessions and every choice of operations and faults: its invariants, the *)
(* isolation of a tool call, and that it implements SessionDirectory.      *)
(***************************************************************************)
EXTENDS SessionRegistry, WellFoundedInduction, TLAPS

-----------------------------------------------------------------------------
(* The inductive invariant *)

\* The steps at which a process holds the workflow lock of its session.
HoldSteps == {"c_stop", "c_exit", "c_mark", "c_release", "c_failed", "t_execute",
              "t_release", "l_status", "w_stop", "w_exit", "w_mark", "w_release"}

\* The steps at which a process works on a session.
ArgSteps == StartSteps \cup CloseSteps \cup ToolSteps \cup WorkerSteps
                \cup {"l_lock", "l_status", "d_join"}

\* The steps of a stop at which the controller has been seen gone.
GoneSteps == {"c_running", "c_mark", "c_release", "c_failed", "c_remove", "c_unflag",
              "w_mark", "w_release", "w_done"}

\* A thread takes no worker's step; a worker works for its own session.
ProcInv ==
    /\ \A t \in Threads : pc[t] \notin WorkerSteps
    /\ \A s \in Sessions : /\ pc[Worker(s)] \in WorkerSteps \cup {"idle"}
                           /\ pc[Worker(s)] \in WorkerSteps => arg[Worker(s)] = s

\* Only ids that were given are tracked, closing or worked on.
KnownInv ==
    /\ \A s \in tracked \cup closing : s < nextId
    /\ \A t \in Threads : \A s \in todo[t] : s < nextId
    /\ \A p \in Procs : arg[p] < nextId /\ (pc[p] \in ArgSteps => arg[p] \in Sessions)

\* The owner of a workflow lock is the one process inside its section.
LockInv ==
    \A s \in Sessions, p \in Procs :
        owner[s] = p <=> pc[p] \in HoldSteps /\ arg[p] = s

\* A session that is starting is known to its starter only.
StartInv ==
    \A t \in Threads : pc[t] \in StartSteps =>
        /\ arg[t] \notin tracked \cup closing
        /\ \A u \in Threads : arg[t] \notin todo[u]
        /\ \A p \in Procs \ {t} : arg[p] # arg[t]

\* start() has a result only when it returns; an id that was not given has
\* neither a result nor a controller.
ResultInv ==
    /\ \A t \in Threads : pc[t] \in StartSteps \ {"s_publish"} => outcome[arg[t]] = "none"
    /\ \A s \in Sessions : s >= nextId => ~ctl[s] /\ outcome[s] = "none"

\* Once a stop has seen the controller gone it stays gone.
GoneInv == \A p \in Procs : pc[p] \in GoneSteps => ~ctl[arg[p]]

\* There is one shutdown at a time, and without one every closing session is
\* still tracked.
OneShutdown ==
    /\ \A t, u \in Threads :
          pc[t] \in ShutdownSteps /\ pc[u] \in ShutdownSteps => t = u
    /\ (\A t \in Threads : pc[t] \notin ShutdownSteps) => closing \subseteq tracked

\* What a shutdown has taken over is tracked no more, and each session of it
\* has no controller, is given up or is still to be dealt with.
ShutdownInv ==
    \A t \in Threads : pc[t] \in ShutdownSteps =>
        /\ todo[t] \cap tracked = {}
        /\ pc[t] = "d_join" => arg[t] \notin tracked
        /\ pc[t] = "d_clear" => todo[t] = {}
        /\ \A s \in closing \ tracked :
              ~ctl[s] \/ s \in abandoned \/ s \in todo[t] \/ (pc[t] = "d_join" /\ arg[t] = s)

\* A session gets one worker: none has been started for one that is tracked,
\* is being started, has no id yet, or waits for the shutdown to come to it.
WorkerInv ==
    \A s \in Sessions :
        (\/ s \in tracked \/ s >= nextId \/ Starting(s)
         \/ \E t \in Threads : pc[t] \in ShutdownSteps /\ s \in todo[t])
        => pc[Worker(s)] = "idle"

\* Whoever raised a closing flag will lower it.
FlagInv ==
    \A s \in closing : \E t \in Threads :
        (pc[t] \in CloseSteps /\ arg[t] = s) \/ pc[t] \in ShutdownSteps

\* A debugger belongs to a session that is starting, tracked or closing, or a
\* shutdown has given it up.
DebuggerInv ==
    \A s \in Sessions : ctl[s] => Starting(s) \/ s \in tracked \cup closing \cup abandoned

IInv ==
    /\ TypeOK /\ ProcInv /\ KnownInv /\ LockInv /\ StartInv /\ ResultInv /\ GoneInv
    /\ OneShutdown /\ ShutdownInv /\ WorkerInv /\ FlagInv /\ DebuggerInv

-----------------------------------------------------------------------------
(* Facts about the processes and the helpers *)

\* Threads and workers are different processes, each session has its own
\* worker, and no process is the owner of a free lock.
LEMMA Processes ==
    /\ \A t \in Threads : t \in Procs /\ (\A s \in Sessions : t # Worker(s))
    /\ \A s \in Sessions : Worker(s) \in Procs
    /\ \A s, r \in Sessions : Worker(s) = Worker(r) => s = r
    /\ \A p \in Procs : p \in Threads \/ \E s \in Sessions : p = Worker(s)
    /\ Free \notin Procs
BY RegistryAssumption, FreeAssumption DEF Procs, Workers, Worker

\* Session ids are positive numbers up to the bound.
LEMMA Ids == /\ MaxSessions \in Nat
             /\ \A s : s \in Sessions <=> s \in Nat /\ 1 <= s /\ s <= MaxSessions
BY RegistryAssumption DEF Sessions

\* A list or a shutdown visits a session of the ones that are left.
LEMMA SmallestType ==
    ASSUME NEW S \in SUBSET Sessions, S # {}
    PROVE  Smallest(S) \in S
<1> DEFINE Less == {p \in Nat \X Nat : p[1] < p[2]}
<1>1. S \subseteq Nat
  BY Ids
<1>2. IsWellFoundedOn(Less, Nat)
  BY NatLessThanWellFounded, Zenon DEF OpToRel
<1>3. PICK x \in S : \A y \in S : ~(<<y, x>> \in Less)
  <2> HIDE DEF Less
  <2> QED  BY <1>1, <1>2, WFMin
<1>4. ASSUME NEW y \in S PROVE x <= y
  <2>1. x \in Nat /\ y \in Nat
    BY <1>1
  <2>2. y < x => <<y, x>> \in Less
    BY <2>1, SMT
  <2> HIDE DEF Less
  <2> QED  BY <1>3, <2>1, <2>2
<1> QED
  BY <1>4 DEF Smallest

\* What a command does to the sessions: at most, the controller of the one it
\* is sent to is dropped.
LEMMA RunCommandType ==
    ASSUME TypeOK, NEW s \in Sessions, RunCommand(s)
    PROVE  /\ gdb' = gdb
           /\ ctl' \in [Sessions -> BOOLEAN] /\ running' \in [Sessions -> BOOLEAN]
           /\ state' \in [Sessions -> {"created", "starting", "ready", "failed", "stopped"}]
           /\ ctl' = ctl \/ ctl' = [ctl EXCEPT ![s] = FALSE]
<1>1. CASE ctl[s] /\ gdb[s] = "dead"
  BY <1>1 DEF RunCommand, Terminated, TypeOK
<1>2. CASE ~(ctl[s] /\ gdb[s] = "dead")
  BY <1>2 DEF RunCommand, sess, TypeOK
<1> QED  BY <1>1, <1>2

-----------------------------------------------------------------------------
(* start_session *)

\* A new id is above all that are in use, so its starter has it to itself.
LEMMA StartAllocateKeeps ==
    ASSUME IInv, NEW t \in Threads, StartAllocate(t)
    PROVE  IInv'
<1> USE Processes, Ids DEF StartAllocate, At, Goto, Done, reg, StartSteps,
           CloseSteps, ToolSteps, ListSteps, ShutdownSteps, WorkerSteps,
           HoldSteps, ArgSteps, GoneSteps
<1>0. /\ t \in Procs /\ nextId \in Sessions
      /\ nextId < nextId' /\ nextId' \in 1..(MaxSessions + 1)
  BY DEF IInv, TypeOK
<1>1. TypeOK'
  <2>1. arg' \in [Procs -> 0..MaxSessions]
    BY <1>0 DEF IInv, TypeOK
  <2> QED
    BY <1>0, <2>1 DEF IInv, TypeOK
<1>2. ProcInv'
  BY <1>0 DEF IInv, TypeOK, ProcInv, KnownInv
<1>3. KnownInv'
  <2>1. /\ \A s \in tracked' \cup closing' : s < nextId'
        /\ \A u \in Threads : \A s \in todo'[u] : s < nextId'
    BY <1>0 DEF IInv, TypeOK, KnownInv
  <2>2. \A p \in Procs : arg'[p] < nextId' /\ (pc'[p] \in ArgSteps => arg'[p] \in Sessions)
    BY <1>0 DEF IInv, TypeOK, KnownInv
  <2> QED
    BY <2>1, <2>2 DEF KnownInv
<1>4. LockInv'
  BY <1>0 DEF IInv, TypeOK, ProcInv, KnownInv, LockInv, WorkerInv
<1>5. StartInv'
  BY <1>0 DEF IInv, TypeOK, ProcInv, KnownInv, StartInv, LockInv
<1>6. ResultInv'
  <2>1. \A u \in Threads : pc'[u] \in StartSteps \ {"s_publish"} => outcome'[arg'[u]] = "none"
    BY <1>0 DEF IInv, TypeOK, ResultInv
  <2>2. \A s \in Sessions : s >= nextId' => ~ctl'[s] /\ outcome'[s] = "none"
    BY <1>0 DEF IInv, TypeOK, ResultInv
  <2> QED
    BY <2>1, <2>2 DEF ResultInv
<1>7. GoneInv'
  BY <1>0 DEF IInv, TypeOK, ProcInv, KnownInv, GoneInv, StartInv, LockInv
<1>8. OneShutdown'
  BY <1>0 DEF IInv, TypeOK, ProcInv, KnownInv, OneShutdown
<1>9. ShutdownInv'
  BY <1>0 DEF IInv, TypeOK, ProcInv, KnownInv, ShutdownInv, StartInv, GoneInv,
    OneShutdown
<1>10. WorkerInv'
  BY <1>0 DEF IInv, TypeOK, ProcInv, KnownInv, Starting, WorkerInv, StartInv,
    OneShutdown
<1>11. FlagInv'
  BY <1>0 DEF IInv, TypeOK, ProcInv, KnownInv, FlagInv, OneShutdown
<1>12. DebuggerInv'
  BY <1>0 DEF IInv, TypeOK, ProcInv, KnownInv, Starting, DebuggerInv, GoneInv,
    ShutdownInv, OneShutdown, StartInv
<1> QED
  BY <1>1, <1>2, <1>3, <1>4, <1>5, <1>6, <1>7, <1>8, <1>9, <1>10, <1>11, <1>12 DEF IInv

\* A failed start drops the controller and the only reference to the session.
LEMMA StartErrorKeeps ==
    ASSUME IInv, NEW t \in Threads, pc[t] \in {"s_open", "s_commands"}, StartError(t)
    PROVE  IInv'
<1> USE Processes, Ids DEF StartError, Terminated, At, Goto, Done, reg,
           StartSteps, CloseSteps, ToolSteps, ListSteps, ShutdownSteps,
           WorkerSteps, HoldSteps, ArgSteps, GoneSteps
<1>0. arg[t] \in Sessions /\ t \in Procs
  BY DEF IInv, KnownInv
<1>1. TypeOK'
  <2>1. gdb' \in [Sessions -> {"none", "alive", "hung", "dead"}]
    BY <1>0 DEF IInv, TypeOK
  <2>2. /\ ctl' \in [Sessions -> BOOLEAN] /\ running' \in [Sessions -> BOOLEAN]
        /\ state' \in [Sessions -> {"created", "starting", "ready", "failed", "stopped"}]
        /\ outcome' \in [Sessions -> {"none", "success", "error"}]
    BY <1>0 DEF IInv, TypeOK
  <2>3. arg' \in [Procs -> 0..MaxSessions]
    BY <1>0 DEF IInv, TypeOK
  <2> QED
    BY <1>0, <2>1, <2>2, <2>3 DEF IInv, TypeOK
<1>2. ProcInv'
  BY <1>0 DEF IInv, TypeOK, ProcInv, KnownInv
<1>3. KnownInv'
  BY <1>0 DEF IInv, TypeOK, ProcInv, KnownInv, StartInv
<1>4. LockInv'
  BY <1>0 DEF IInv, TypeOK, ProcInv, KnownInv, LockInv, WorkerInv
<1>5. StartInv'
  BY <1>0 DEF IInv, TypeOK, ProcInv, KnownInv, StartInv, LockInv
<1>6. ResultInv'
  BY <1>0 DEF IInv, TypeOK, ProcInv, KnownInv, ResultInv, StartInv
<1>7. GoneInv'
  BY <1>0 DEF IInv, TypeOK, ProcInv, KnownInv, GoneInv, StartInv, LockInv
<1>8. OneShutdown'
  BY <1>0 DEF IInv, TypeOK, ProcInv, KnownInv, OneShutdown
<1>9. ShutdownInv'
  BY <1>0 DEF IInv, TypeOK, ProcInv, KnownInv, ShutdownInv, StartInv, GoneInv,
    OneShutdown
<1>10. WorkerInv'
  BY <1>0 DEF IInv, TypeOK, ProcInv, KnownInv, Starting, WorkerInv, StartInv,
    OneShutdown
<1>11. FlagInv'
  BY <1>0 DEF IInv, TypeOK, ProcInv, KnownInv, FlagInv, OneShutdown
<1>12. DebuggerInv'
  BY <1>0 DEF IInv, TypeOK, ProcInv, KnownInv, Starting, DebuggerInv, GoneInv,
    ShutdownInv, OneShutdown, StartInv
<1> QED
  BY <1>1, <1>2, <1>3, <1>4, <1>5, <1>6, <1>7, <1>8, <1>9, <1>10, <1>11, <1>12 DEF IInv

\* The only step that creates a controller does so for a session nobody else
\* knows.
LEMMA StartOpenedKeeps ==
    ASSUME IInv, NEW t \in Threads, At(t, "s_open"),
           gdb' = [gdb EXCEPT ![arg[t]] = "alive"],
           ctl' = [ctl EXCEPT ![arg[t]] = TRUE],
           Goto(t, "s_confirm"),
           UNCHANGED <<reg, state, running, owner, arg, todo, outcome, abandoned>>
    PROVE  IInv'
<1> USE Processes, Ids DEF At, Goto, Done, reg, StartSteps, CloseSteps,
           ToolSteps, ListSteps, ShutdownSteps, WorkerSteps, HoldSteps,
           ArgSteps, GoneSteps
<1>0. arg[t] \in Sessions /\ t \in Procs
  BY DEF IInv, KnownInv
<1>1. TypeOK'
  BY <1>0 DEF IInv, TypeOK, ProcInv, KnownInv
<1>2. ProcInv'
  BY <1>0 DEF IInv, TypeOK, ProcInv, KnownInv
<1>3. KnownInv'
  BY <1>0 DEF IInv, TypeOK, ProcInv, KnownInv, StartInv
<1>4. LockInv'
  BY <1>0 DEF IInv, TypeOK, ProcInv, KnownInv, LockInv, WorkerInv
<1>5. StartInv'
  BY <1>0 DEF IInv, TypeOK, ProcInv, KnownInv, StartInv, LockInv
<1>6. ResultInv'
  BY <1>0 DEF IInv, TypeOK, ProcInv, KnownInv, ResultInv, StartInv
<1>7. GoneInv'
  BY <1>0 DEF IInv, TypeOK, ProcInv, KnownInv, GoneInv, StartInv, LockInv
<1>8. OneShutdown'
  BY <1>0 DEF IInv, TypeOK, ProcInv, KnownInv, OneShutdown
<1>9. ShutdownInv'
  BY <1>0 DEF IInv, TypeOK, ProcInv, KnownInv, ShutdownInv, StartInv, GoneInv,
    OneShutdown
<1>10. WorkerInv'
  BY <1>0 DEF IInv, TypeOK, ProcInv, KnownInv, Starting, WorkerInv, StartInv,
    OneShutdown
<1>11. FlagInv'
  BY <1>0 DEF IInv, TypeOK, ProcInv, KnownInv, FlagInv, OneShutdown
<1>12. DebuggerInv'
  BY <1>0 DEF IInv, TypeOK, ProcInv, KnownInv, Starting, DebuggerInv, GoneInv,
    ShutdownInv, OneShutdown, StartInv
<1> QED
  BY <1>1, <1>2, <1>3, <1>4, <1>5, <1>6, <1>7, <1>8, <1>9, <1>10, <1>11, <1>12 DEF IInv

\* A command of the start may find GDB dead.
LEMMA StartConfirmKeeps ==
    ASSUME IInv, NEW t \in Threads, StartConfirm(t)
    PROVE  IInv'
<1> USE Processes, Ids DEF StartConfirm, At, Goto, Done, reg, StartSteps,
           CloseSteps, ToolSteps, ListSteps, ShutdownSteps, WorkerSteps,
           HoldSteps, ArgSteps, GoneSteps
<1>0. /\ arg[t] \in Sessions /\ gdb' = gdb
      /\ ctl' \in [Sessions -> BOOLEAN] /\ running' \in [Sessions -> BOOLEAN]
      /\ state' \in [Sessions -> {"created", "starting", "ready", "failed", "stopped"}]
      /\ \A r \in Sessions : ctl'[r] => ctl[r]
  BY RunCommandType DEF IInv, TypeOK, KnownInv
<1>1. TypeOK'
  BY <1>0 DEF IInv, TypeOK, ProcInv, KnownInv
<1>2. ProcInv' /\ KnownInv'
  BY <1>0 DEF IInv, TypeOK, ProcInv, KnownInv, StartInv
<1>3. LockInv'
  BY <1>0 DEF IInv, TypeOK, ProcInv, KnownInv, LockInv, WorkerInv
<1>4. StartInv' /\ ResultInv'
  BY <1>0 DEF IInv, TypeOK, ProcInv, KnownInv, StartInv, LockInv, ResultInv
<1>5. GoneInv'
  BY <1>0 DEF IInv, TypeOK, ProcInv, KnownInv, GoneInv, StartInv, LockInv
<1>6. OneShutdown' /\ ShutdownInv'
  BY <1>0 DEF IInv, TypeOK, ProcInv, KnownInv, OneShutdown, ShutdownInv,
    StartInv, GoneInv
<1>7. WorkerInv'
  BY <1>0 DEF IInv, TypeOK, ProcInv, KnownInv, Starting, WorkerInv, StartInv,
    OneShutdown
<1>8. FlagInv'
  BY <1>0 DEF IInv, TypeOK, ProcInv, KnownInv, FlagInv, OneShutdown
<1>9. DebuggerInv'
  BY <1>0 DEF IInv, TypeOK, ProcInv, KnownInv, Starting, DebuggerInv, GoneInv,
    ShutdownInv, OneShutdown, StartInv
<1> QED
  BY <1>1, <1>2, <1>3, <1>4, <1>5, <1>6, <1>7, <1>8, <1>9 DEF IInv

\* The init commands move the start on.
LEMMA StartCommandedKeeps ==
    ASSUME IInv, NEW t \in Threads, At(t, "s_commands"),
           Goto(t, "s_probe"),
           UNCHANGED <<reg, sess, owner, arg, todo, outcome, abandoned>>
    PROVE  IInv'
<1> USE Processes, Ids DEF sess, At, Goto, Done, reg, StartSteps, CloseSteps,
           ToolSteps, ListSteps, ShutdownSteps, WorkerSteps, HoldSteps,
           ArgSteps, GoneSteps
<1>1. TypeOK'
  BY DEF IInv, TypeOK, ProcInv, KnownInv
<1>2. ProcInv' /\ KnownInv'
  BY DEF IInv, TypeOK, ProcInv, KnownInv, StartInv
<1>3. LockInv'
  BY DEF IInv, TypeOK, ProcInv, KnownInv, LockInv, WorkerInv
<1>4. StartInv' /\ ResultInv'
  BY DEF IInv, TypeOK, ProcInv, KnownInv, StartInv, LockInv, ResultInv
<1>5. GoneInv'
  BY DEF IInv, TypeOK, ProcInv, KnownInv, GoneInv, StartInv, LockInv
<1>6. OneShutdown' /\ ShutdownInv'
  BY DEF IInv, TypeOK, ProcInv, KnownInv, OneShutdown, ShutdownInv, StartInv,
    GoneInv
<1>7. WorkerInv'
  BY DEF IInv, TypeOK, ProcInv, KnownInv, Starting, WorkerInv, StartInv,
    OneShutdown
<1>8. FlagInv'
  BY DEF IInv, TypeOK, ProcInv, KnownInv, FlagInv, OneShutdown
<1>9. DebuggerInv'
  BY DEF IInv, TypeOK, ProcInv, KnownInv, Starting, DebuggerInv, GoneInv,
    ShutdownInv, OneShutdown, StartInv
<1> QED
  BY <1>1, <1>2, <1>3, <1>4, <1>5, <1>6, <1>7, <1>8, <1>9 DEF IInv

\* The result is stored while the session is still unpublished.
LEMMA StartProbeKeeps ==
    ASSUME IInv, NEW t \in Threads, StartProbe(t)
    PROVE  IInv'
<1> USE Processes, Ids DEF StartProbe, At, Goto, Done, reg, StartSteps,
           CloseSteps, ToolSteps, ListSteps, ShutdownSteps, WorkerSteps,
           HoldSteps, ArgSteps, GoneSteps
<1>1. TypeOK'
  BY DEF IInv, TypeOK, ProcInv, KnownInv
<1>2. ProcInv' /\ KnownInv'
  BY DEF IInv, TypeOK, ProcInv, KnownInv, StartInv
<1>3. LockInv'
  BY DEF IInv, TypeOK, ProcInv, KnownInv, LockInv, WorkerInv
<1>4. StartInv' /\ ResultInv'
  BY DEF IInv, TypeOK, ProcInv, KnownInv, StartInv, LockInv, ResultInv
<1>5. GoneInv'
  BY DEF IInv, TypeOK, ProcInv, KnownInv, GoneInv, StartInv, LockInv
<1>6. OneShutdown' /\ ShutdownInv'
  BY DEF IInv, TypeOK, ProcInv, KnownInv, OneShutdown, ShutdownInv, StartInv,
    GoneInv
<1>7. WorkerInv'
  BY DEF IInv, TypeOK, ProcInv, KnownInv, Starting, WorkerInv, StartInv,
    OneShutdown
<1>8. FlagInv'
  BY SMTT(30) DEF IInv, TypeOK, ProcInv, KnownInv, FlagInv, OneShutdown
<1>9. DebuggerInv'
  BY DEF IInv, TypeOK, ProcInv, KnownInv, Starting, DebuggerInv, GoneInv,
    ShutdownInv, OneShutdown, StartInv
<1> QED
  BY <1>1, <1>2, <1>3, <1>4, <1>5, <1>6, <1>7, <1>8, <1>9 DEF IInv

\* The session becomes tracked; nobody else was working on it.
LEMMA StartPublishKeeps ==
    ASSUME IInv, NEW t \in Threads, StartPublish(t)
    PROVE  IInv'
<1> USE Processes, Ids DEF StartPublish, sess, At, Goto, Done, reg,
           StartSteps, CloseSteps, ToolSteps, ListSteps, ShutdownSteps,
           WorkerSteps, HoldSteps, ArgSteps, GoneSteps
<1>1. TypeOK'
  BY DEF IInv, TypeOK, ProcInv, KnownInv
<1>2. ProcInv' /\ KnownInv'
  BY DEF IInv, TypeOK, ProcInv, KnownInv, StartInv
<1>3. LockInv'
  BY DEF IInv, TypeOK, ProcInv, KnownInv, LockInv, WorkerInv
<1>4. StartInv' /\ ResultInv'
  BY DEF IInv, TypeOK, ProcInv, KnownInv, StartInv, LockInv, ResultInv
<1>5. GoneInv'
  BY DEF IInv, TypeOK, ProcInv, KnownInv, GoneInv, StartInv, LockInv
<1>6. OneShutdown' /\ ShutdownInv'
  BY DEF IInv, TypeOK, ProcInv, KnownInv, OneShutdown, ShutdownInv, StartInv,
    GoneInv
<1>7. WorkerInv'
  BY DEF IInv, TypeOK, ProcInv, KnownInv, Starting, WorkerInv, StartInv,
    OneShutdown
<1>8. FlagInv'
  BY DEF IInv, TypeOK, ProcInv, KnownInv, FlagInv, OneShutdown
<1>9. DebuggerInv'
  BY DEF IInv, TypeOK, ProcInv, KnownInv, Starting, DebuggerInv, GoneInv,
    ShutdownInv, OneShutdown, StartInv
<1> QED
  BY <1>1, <1>2, <1>3, <1>4, <1>5, <1>6, <1>7, <1>8, <1>9 DEF IInv

-----------------------------------------------------------------------------
(* close_session *)

\* The closing flag is raised on a tracked session by the thread that will
\* lower it.
LEMMA CloseFlagKeeps ==
    ASSUME IInv, NEW t \in Threads, NEW s \in Sessions, CloseFlag(t, s)
    PROVE  IInv'
<1> USE Processes, Ids DEF CloseFlag, sess, At, Goto, Done, reg, StartSteps,
           CloseSteps, ToolSteps, ListSteps, ShutdownSteps, WorkerSteps,
           HoldSteps, ArgSteps, GoneSteps
<1>1. TypeOK'
  BY DEF IInv, TypeOK, ProcInv, KnownInv
<1>2. ProcInv' /\ KnownInv'
  BY DEF IInv, TypeOK, ProcInv, KnownInv, StartInv
<1>3. LockInv'
  BY DEF IInv, TypeOK, ProcInv, KnownInv, LockInv, WorkerInv
<1>4. StartInv' /\ ResultInv'
  BY DEF IInv, TypeOK, ProcInv, KnownInv, StartInv, LockInv, ResultInv
<1>5. GoneInv'
  BY DEF IInv, TypeOK, ProcInv, KnownInv, GoneInv, StartInv, LockInv
<1>6. OneShutdown' /\ ShutdownInv'
  BY DEF IInv, TypeOK, ProcInv, KnownInv, OneShutdown, ShutdownInv, StartInv,
    GoneInv
<1>7. WorkerInv'
  BY DEF IInv, TypeOK, ProcInv, KnownInv, Starting, WorkerInv, StartInv,
    OneShutdown
<1>8. FlagInv'
  BY DEF IInv, TypeOK, ProcInv, KnownInv, FlagInv, OneShutdown
<1>9. DebuggerInv'
  BY DEF IInv, TypeOK, ProcInv, KnownInv, Starting, DebuggerInv, GoneInv,
    ShutdownInv, OneShutdown, StartInv
<1> QED
  BY <1>1, <1>2, <1>3, <1>4, <1>5, <1>6, <1>7, <1>8, <1>9 DEF IInv

\* A close that finds no controller need not wait for the lock.
LEMMA CloseCheckKeeps ==
    ASSUME IInv, NEW t \in Threads, CloseCheck(t)
    PROVE  IInv'
<1> USE Processes, Ids DEF CloseCheck, sess, At, Goto, Done, reg, StartSteps,
           CloseSteps, ToolSteps, ListSteps, ShutdownSteps, WorkerSteps,
           HoldSteps, ArgSteps, GoneSteps
<1>1. TypeOK'
  BY DEF IInv, TypeOK, ProcInv, KnownInv
<1>2. ProcInv' /\ KnownInv'
  BY DEF IInv, TypeOK, ProcInv, KnownInv, StartInv
<1>3. LockInv'
  BY DEF IInv, TypeOK, ProcInv, KnownInv, LockInv, WorkerInv
<1>4. StartInv' /\ ResultInv'
  BY DEF IInv, TypeOK, ProcInv, KnownInv, StartInv, LockInv, ResultInv
<1>5. GoneInv'
  BY DEF IInv, TypeOK, ProcInv, KnownInv, GoneInv, StartInv, LockInv
<1>6. OneShutdown' /\ ShutdownInv'
  BY DEF IInv, TypeOK, ProcInv, KnownInv, OneShutdown, ShutdownInv, StartInv,
    GoneInv
<1>7. WorkerInv'
  BY DEF IInv, TypeOK, ProcInv, KnownInv, Starting, WorkerInv, StartInv,
    OneShutdown
<1>8. FlagInv'
  BY DEF IInv, TypeOK, ProcInv, KnownInv, FlagInv, OneShutdown
<1>9. DebuggerInv'
  BY DEF IInv, TypeOK, ProcInv, KnownInv, Starting, DebuggerInv, GoneInv,
    ShutdownInv, OneShutdown, StartInv
<1> QED
  BY <1>1, <1>2, <1>3, <1>4, <1>5, <1>6, <1>7, <1>8, <1>9 DEF IInv

\* It then removes or keeps the session; either way no controller is left.
LEMMA CloseRunningKeeps ==
    ASSUME IInv, NEW t \in Threads, CloseRunning(t)
    PROVE  IInv'
<1> USE Processes, Ids DEF CloseRunning, sess, At, Goto, Done, reg,
           StartSteps, CloseSteps, ToolSteps, ListSteps, ShutdownSteps,
           WorkerSteps, HoldSteps, ArgSteps, GoneSteps
<1>1. TypeOK'
  BY DEF IInv, TypeOK, ProcInv, KnownInv
<1>2. ProcInv' /\ KnownInv'
  BY DEF IInv, TypeOK, ProcInv, KnownInv, StartInv
<1>3. LockInv'
  BY DEF IInv, TypeOK, ProcInv, KnownInv, LockInv, WorkerInv
<1>4. StartInv' /\ ResultInv'
  BY DEF IInv, TypeOK, ProcInv, KnownInv, StartInv, LockInv, ResultInv
<1>5. GoneInv'
  BY DEF IInv, TypeOK, ProcInv, KnownInv, GoneInv, StartInv, LockInv
<1>6. OneShutdown' /\ ShutdownInv'
  BY DEF IInv, TypeOK, ProcInv, KnownInv, OneShutdown, ShutdownInv, StartInv,
    GoneInv
<1>7. WorkerInv'
  BY DEF IInv, TypeOK, ProcInv, KnownInv, Starting, WorkerInv, StartInv,
    OneShutdown
<1>8. FlagInv'
  BY DEF IInv, TypeOK, ProcInv, KnownInv, FlagInv, OneShutdown
<1>9. DebuggerInv'
  BY DEF IInv, TypeOK, ProcInv, KnownInv, Starting, DebuggerInv, GoneInv,
    ShutdownInv, OneShutdown, StartInv
<1> QED
  BY <1>1, <1>2, <1>3, <1>4, <1>5, <1>6, <1>7, <1>8, <1>9 DEF IInv

\* The workflow lock is taken when it is free.
LEMMA CloseLockKeeps ==
    ASSUME IInv, NEW t \in Threads, CloseLock(t)
    PROVE  IInv'
<1> USE Processes, Ids DEF CloseLock, Acquire, sess, At, Goto, Done, reg,
           StartSteps, CloseSteps, ToolSteps, ListSteps, ShutdownSteps,
           WorkerSteps, HoldSteps, ArgSteps, GoneSteps
<1>1. TypeOK'
  BY DEF IInv, TypeOK, ProcInv, KnownInv
<1>2. ProcInv' /\ KnownInv'
  BY DEF IInv, TypeOK, ProcInv, KnownInv, StartInv
<1>3. LockInv'
  BY DEF IInv, TypeOK, ProcInv, KnownInv, LockInv, WorkerInv
<1>4. StartInv' /\ ResultInv'
  BY DEF IInv, TypeOK, ProcInv, KnownInv, StartInv, LockInv, ResultInv
<1>5. GoneInv'
  BY DEF IInv, TypeOK, ProcInv, KnownInv, GoneInv, StartInv, LockInv
<1>6. OneShutdown' /\ ShutdownInv'
  BY DEF IInv, TypeOK, ProcInv, KnownInv, OneShutdown, ShutdownInv, StartInv,
    GoneInv
<1>7. WorkerInv'
  BY DEF IInv, TypeOK, ProcInv, KnownInv, Starting, WorkerInv, StartInv,
    OneShutdown
<1>8. FlagInv'
  BY DEF IInv, TypeOK, ProcInv, KnownInv, FlagInv, OneShutdown
<1>9. DebuggerInv'
  BY DEF IInv, TypeOK, ProcInv, KnownInv, Starting, DebuggerInv, GoneInv,
    ShutdownInv, OneShutdown, StartInv
<1> QED
  BY <1>1, <1>2, <1>3, <1>4, <1>5, <1>6, <1>7, <1>8, <1>9 DEF IInv

\* stop() fails at once when the controller is gone.
LEMMA CloseStopKeeps ==
    ASSUME IInv, NEW t \in Threads, CloseStop(t)
    PROVE  IInv'
<1> USE Processes, Ids DEF CloseStop, StopEnter, sess, At, Goto, Done, reg,
           StartSteps, CloseSteps, ToolSteps, ListSteps, ShutdownSteps,
           WorkerSteps, HoldSteps, ArgSteps, GoneSteps
<1>1. TypeOK'
  BY DEF IInv, TypeOK, ProcInv, KnownInv
<1>2. ProcInv' /\ KnownInv'
  BY DEF IInv, TypeOK, ProcInv, KnownInv, StartInv
<1>3. LockInv'
  BY DEF IInv, TypeOK, ProcInv, KnownInv, LockInv, WorkerInv
<1>4. StartInv' /\ ResultInv'
  BY DEF IInv, TypeOK, ProcInv, KnownInv, StartInv, LockInv, ResultInv
<1>5. GoneInv'
  BY DEF IInv, TypeOK, ProcInv, KnownInv, GoneInv, StartInv, LockInv
<1>6. OneShutdown' /\ ShutdownInv'
  BY DEF IInv, TypeOK, ProcInv, KnownInv, OneShutdown, ShutdownInv, StartInv,
    GoneInv
<1>7. WorkerInv'
  BY DEF IInv, TypeOK, ProcInv, KnownInv, Starting, WorkerInv, StartInv,
    OneShutdown
<1>8. FlagInv'
  BY DEF IInv, TypeOK, ProcInv, KnownInv, FlagInv, OneShutdown
<1>9. DebuggerInv'
  BY DEF IInv, TypeOK, ProcInv, KnownInv, Starting, DebuggerInv, GoneInv,
    ShutdownInv, OneShutdown, StartInv
<1> QED
  BY <1>1, <1>2, <1>3, <1>4, <1>5, <1>6, <1>7, <1>8, <1>9 DEF IInv

\* The transport is closed under the workflow lock.
LEMMA CloseExitKeeps ==
    ASSUME IInv, NEW t \in Threads, CloseExit(t)
    PROVE  IInv'
<1> USE Processes, Ids DEF CloseExit, StopExit, Exit, At, Goto, Done, reg,
           StartSteps, CloseSteps, ToolSteps, ListSteps, ShutdownSteps,
           WorkerSteps, HoldSteps, ArgSteps, GoneSteps
<1>1. TypeOK'
  BY DEF IInv, TypeOK, ProcInv, KnownInv
<1>2. ProcInv' /\ KnownInv'
  BY DEF IInv, TypeOK, ProcInv, KnownInv, StartInv
<1>3. LockInv'
  BY DEF IInv, TypeOK, ProcInv, KnownInv, LockInv, WorkerInv
<1>4. StartInv' /\ ResultInv'
  BY DEF IInv, TypeOK, ProcInv, KnownInv, StartInv, LockInv, ResultInv
<1>5. GoneInv'
  BY DEF IInv, TypeOK, ProcInv, KnownInv, GoneInv, StartInv, LockInv
<1>6. OneShutdown' /\ ShutdownInv'
  BY DEF IInv, TypeOK, ProcInv, KnownInv, OneShutdown, ShutdownInv, StartInv,
    GoneInv
<1>7. WorkerInv'
  BY DEF IInv, TypeOK, ProcInv, KnownInv, Starting, WorkerInv, StartInv,
    OneShutdown
<1>8. FlagInv'
  BY DEF IInv, TypeOK, ProcInv, KnownInv, FlagInv, OneShutdown
<1>9. DebuggerInv'
  BY DEF IInv, TypeOK, ProcInv, KnownInv, Starting, DebuggerInv, GoneInv,
    ShutdownInv, OneShutdown, StartInv
<1> QED
  BY <1>1, <1>2, <1>3, <1>4, <1>5, <1>6, <1>7, <1>8, <1>9 DEF IInv

\* The outcome of the stop decides the way back.
LEMMA CloseMarkKeeps ==
    ASSUME IInv, NEW t \in Threads, CloseMark(t)
    PROVE  IInv'
<1> USE Processes, Ids DEF CloseMark, StopMark, At, Goto, Done, reg,
           StartSteps, CloseSteps, ToolSteps, ListSteps, ShutdownSteps,
           WorkerSteps, HoldSteps, ArgSteps, GoneSteps
<1>1. TypeOK'
  BY DEF IInv, TypeOK, ProcInv, KnownInv
<1>2. ProcInv' /\ KnownInv'
  BY DEF IInv, TypeOK, ProcInv, KnownInv, StartInv
<1>3. LockInv'
  BY DEF IInv, TypeOK, ProcInv, KnownInv, LockInv, WorkerInv
<1>4. StartInv' /\ ResultInv'
  BY DEF IInv, TypeOK, ProcInv, KnownInv, StartInv, LockInv, ResultInv
<1>5. GoneInv'
  BY DEF IInv, TypeOK, ProcInv, KnownInv, GoneInv, StartInv, LockInv
<1>6. OneShutdown' /\ ShutdownInv'
  BY SMTT(30) DEF IInv, TypeOK, ProcInv, KnownInv, OneShutdown, ShutdownInv, StartInv,
    GoneInv
<1>7. WorkerInv'
  BY DEF IInv, TypeOK, ProcInv, KnownInv, Starting, WorkerInv, StartInv,
    OneShutdown
<1>8. FlagInv'
  BY DEF IInv, TypeOK, ProcInv, KnownInv, FlagInv, OneShutdown
<1>9. DebuggerInv'
  BY DEF IInv, TypeOK, ProcInv, KnownInv, Starting, DebuggerInv, GoneInv,
    ShutdownInv, OneShutdown, StartInv
<1> QED
  BY <1>1, <1>2, <1>3, <1>4, <1>5, <1>6, <1>7, <1>8, <1>9 DEF IInv

\* The lock is given back by its owner.
LEMMA CloseReleaseKeeps ==
    ASSUME IInv, NEW t \in Threads, CloseRelease(t)
    PROVE  IInv'
<1> USE Processes, Ids DEF CloseRelease, Release, sess, At, Goto, Done, reg,
           StartSteps, CloseSteps, ToolSteps, ListSteps, ShutdownSteps,
           WorkerSteps, HoldSteps, ArgSteps, GoneSteps
<1>1. TypeOK'
  BY DEF IInv, TypeOK, ProcInv, KnownInv
<1>2. ProcInv' /\ KnownInv'
  BY DEF IInv, TypeOK, ProcInv, KnownInv, StartInv
<1>3. LockInv'
  BY DEF IInv, TypeOK, ProcInv, KnownInv, LockInv, WorkerInv
<1>4. StartInv' /\ ResultInv'
  BY DEF IInv, TypeOK, ProcInv, KnownInv, StartInv, LockInv, ResultInv
<1>5. GoneInv'
  BY DEF IInv, TypeOK, ProcInv, KnownInv, GoneInv, StartInv, LockInv
<1>6. OneShutdown' /\ ShutdownInv'
  BY SMTT(30) DEF IInv, TypeOK, ProcInv, KnownInv, OneShutdown, ShutdownInv, StartInv,
    GoneInv
<1>7. WorkerInv'
  BY DEF IInv, TypeOK, ProcInv, KnownInv, Starting, WorkerInv, StartInv,
    OneShutdown
<1>8. FlagInv'
  BY DEF IInv, TypeOK, ProcInv, KnownInv, FlagInv, OneShutdown
<1>9. DebuggerInv'
  BY DEF IInv, TypeOK, ProcInv, KnownInv, Starting, DebuggerInv, GoneInv,
    ShutdownInv, OneShutdown, StartInv
<1> QED
  BY <1>1, <1>2, <1>3, <1>4, <1>5, <1>6, <1>7, <1>8, <1>9 DEF IInv

\* A session is removed only after its controller.
LEMMA CloseRemoveKeeps ==
    ASSUME IInv, NEW t \in Threads, CloseRemove(t)
    PROVE  IInv'
<1> USE Processes, Ids DEF CloseRemove, sess, At, Goto, Done, reg, StartSteps,
           CloseSteps, ToolSteps, ListSteps, ShutdownSteps, WorkerSteps,
           HoldSteps, ArgSteps, GoneSteps
<1>1. TypeOK'
  BY DEF IInv, TypeOK, ProcInv, KnownInv
<1>2. ProcInv' /\ KnownInv'
  BY DEF IInv, TypeOK, ProcInv, KnownInv, StartInv
<1>3. LockInv'
  BY DEF IInv, TypeOK, ProcInv, KnownInv, LockInv, WorkerInv
<1>4. StartInv' /\ ResultInv'
  BY DEF IInv, TypeOK, ProcInv, KnownInv, StartInv, LockInv, ResultInv
<1>5. GoneInv'
  BY DEF IInv, TypeOK, ProcInv, KnownInv, GoneInv, StartInv, LockInv
<1>6. OneShutdown' /\ ShutdownInv'
  BY DEF IInv, TypeOK, ProcInv, KnownInv, OneShutdown, ShutdownInv, StartInv,
    GoneInv
<1>7. WorkerInv'
  BY DEF IInv, TypeOK, ProcInv, KnownInv, Starting, WorkerInv, StartInv,
    OneShutdown
<1>8. FlagInv'
  BY DEF IInv, TypeOK, ProcInv, KnownInv, FlagInv, OneShutdown
<1>9. DebuggerInv'
  BY DEF IInv, TypeOK, ProcInv, KnownInv, Starting, DebuggerInv, GoneInv,
    ShutdownInv, OneShutdown, StartInv
<1> QED
  BY <1>1, <1>2, <1>3, <1>4, <1>5, <1>6, <1>7, <1>8, <1>9 DEF IInv

\* A session that stays is not closing any more, and has no controller.
LEMMA CloseUnflagKeeps ==
    ASSUME IInv, NEW t \in Threads, CloseUnflag(t)
    PROVE  IInv'
<1> USE Processes, Ids DEF CloseUnflag, sess, At, Goto, Done, reg, StartSteps,
           CloseSteps, ToolSteps, ListSteps, ShutdownSteps, WorkerSteps,
           HoldSteps, ArgSteps, GoneSteps
<1>1. TypeOK'
  BY DEF IInv, TypeOK, ProcInv, KnownInv
<1>2. ProcInv' /\ KnownInv'
  BY DEF IInv, TypeOK, ProcInv, KnownInv, StartInv
<1>3. LockInv'
  BY DEF IInv, TypeOK, ProcInv, KnownInv, LockInv, WorkerInv
<1>4. StartInv' /\ ResultInv'
  BY DEF IInv, TypeOK, ProcInv, KnownInv, StartInv, LockInv, ResultInv
<1>5. GoneInv'
  BY DEF IInv, TypeOK, ProcInv, KnownInv, GoneInv, StartInv, LockInv
<1>6. OneShutdown' /\ ShutdownInv'
  BY DEF IInv, TypeOK, ProcInv, KnownInv, OneShutdown, ShutdownInv, StartInv,
    GoneInv
<1>7. WorkerInv'
  BY DEF IInv, TypeOK, ProcInv, KnownInv, Starting, WorkerInv, StartInv,
    OneShutdown
<1>8. FlagInv'
  BY DEF IInv, TypeOK, ProcInv, KnownInv, FlagInv, OneShutdown
<1>9. DebuggerInv'
  BY DEF IInv, TypeOK, ProcInv, KnownInv, Starting, DebuggerInv, GoneInv,
    ShutdownInv, OneShutdown, StartInv
<1> QED
  BY <1>1, <1>2, <1>3, <1>4, <1>5, <1>6, <1>7, <1>8, <1>9 DEF IInv

-----------------------------------------------------------------------------
(* Tool calls and list_sessions *)

\* A tool call gets a reference to a tracked session.
LEMMA ToolResolveKeeps ==
    ASSUME IInv, NEW t \in Threads, NEW s \in Sessions, ToolResolve(t, s)
    PROVE  IInv'
<1> USE Processes, Ids DEF ToolResolve, sess, At, Goto, Done, reg, StartSteps,
           CloseSteps, ToolSteps, ListSteps, ShutdownSteps, WorkerSteps,
           HoldSteps, ArgSteps, GoneSteps
<1>1. TypeOK'
  BY DEF IInv, TypeOK, ProcInv, KnownInv
<1>2. ProcInv' /\ KnownInv'
  BY DEF IInv, TypeOK, ProcInv, KnownInv, StartInv
<1>3. LockInv'
  BY DEF IInv, TypeOK, ProcInv, KnownInv, LockInv, WorkerInv
<1>4. StartInv' /\ ResultInv'
  BY DEF IInv, TypeOK, ProcInv, KnownInv, StartInv, LockInv, ResultInv
<1>5. GoneInv'
  BY DEF IInv, TypeOK, ProcInv, KnownInv, GoneInv, StartInv, LockInv
<1>6. OneShutdown' /\ ShutdownInv'
  BY DEF IInv, TypeOK, ProcInv, KnownInv, OneShutdown, ShutdownInv, StartInv,
    GoneInv
<1>7. WorkerInv'
  BY DEF IInv, TypeOK, ProcInv, KnownInv, Starting, WorkerInv, StartInv,
    OneShutdown
<1>8. FlagInv'
  BY DEF IInv, TypeOK, ProcInv, KnownInv, FlagInv, OneShutdown
<1>9. DebuggerInv'
  BY DEF IInv, TypeOK, ProcInv, KnownInv, Starting, DebuggerInv, GoneInv,
    ShutdownInv, OneShutdown, StartInv
<1> QED
  BY <1>1, <1>2, <1>3, <1>4, <1>5, <1>6, <1>7, <1>8, <1>9 DEF IInv

\* The workflow lock is taken when it is free.
LEMMA ToolLockKeeps ==
    ASSUME IInv, NEW t \in Threads, ToolLock(t)
    PROVE  IInv'
<1> USE Processes, Ids DEF ToolLock, Acquire, sess, At, Goto, Done, reg,
           StartSteps, CloseSteps, ToolSteps, ListSteps, ShutdownSteps,
           WorkerSteps, HoldSteps, ArgSteps, GoneSteps
<1>1. TypeOK'
  BY DEF IInv, TypeOK, ProcInv, KnownInv
<1>2. ProcInv' /\ KnownInv'
  BY DEF IInv, TypeOK, ProcInv, KnownInv, StartInv
<1>3. LockInv'
  BY DEF IInv, TypeOK, ProcInv, KnownInv, LockInv, WorkerInv
<1>4. StartInv' /\ ResultInv'
  BY DEF IInv, TypeOK, ProcInv, KnownInv, StartInv, LockInv, ResultInv
<1>5. GoneInv'
  BY DEF IInv, TypeOK, ProcInv, KnownInv, GoneInv, StartInv, LockInv
<1>6. OneShutdown' /\ ShutdownInv'
  BY DEF IInv, TypeOK, ProcInv, KnownInv, OneShutdown, ShutdownInv, StartInv,
    GoneInv
<1>7. WorkerInv'
  BY DEF IInv, TypeOK, ProcInv, KnownInv, Starting, WorkerInv, StartInv,
    OneShutdown
<1>8. FlagInv'
  BY DEF IInv, TypeOK, ProcInv, KnownInv, FlagInv, OneShutdown
<1>9. DebuggerInv'
  BY DEF IInv, TypeOK, ProcInv, KnownInv, Starting, DebuggerInv, GoneInv,
    ShutdownInv, OneShutdown, StartInv
<1> QED
  BY <1>1, <1>2, <1>3, <1>4, <1>5, <1>6, <1>7, <1>8, <1>9 DEF IInv

\* The tool may find GDB dead.
LEMMA ToolExecuteKeeps ==
    ASSUME IInv, NEW t \in Threads, ToolExecute(t)
    PROVE  IInv'
<1> USE Processes, Ids DEF ToolExecute, At, Goto, Done, reg, StartSteps,
           CloseSteps, ToolSteps, ListSteps, ShutdownSteps, WorkerSteps,
           HoldSteps, ArgSteps, GoneSteps
<1>0. /\ arg[t] \in Sessions /\ gdb' = gdb
      /\ ctl' \in [Sessions -> BOOLEAN] /\ running' \in [Sessions -> BOOLEAN]
      /\ state' \in [Sessions -> {"created", "starting", "ready", "failed", "stopped"}]
      /\ \A r \in Sessions : ctl'[r] => ctl[r]
  BY RunCommandType DEF IInv, TypeOK, KnownInv
<1>1. TypeOK'
  BY <1>0 DEF IInv, TypeOK, ProcInv, KnownInv
<1>2. ProcInv' /\ KnownInv'
  BY <1>0 DEF IInv, TypeOK, ProcInv, KnownInv, StartInv
<1>3. LockInv'
  BY <1>0 DEF IInv, TypeOK, ProcInv, KnownInv, LockInv, WorkerInv
<1>4. StartInv' /\ ResultInv'
  BY <1>0 DEF IInv, TypeOK, ProcInv, KnownInv, StartInv, LockInv, ResultInv
<1>5. GoneInv'
  BY <1>0 DEF IInv, TypeOK, ProcInv, KnownInv, GoneInv, StartInv, LockInv
<1>6. OneShutdown' /\ ShutdownInv'
  BY <1>0 DEF IInv, TypeOK, ProcInv, KnownInv, OneShutdown, ShutdownInv,
    StartInv, GoneInv
<1>7. WorkerInv'
  BY <1>0 DEF IInv, TypeOK, ProcInv, KnownInv, Starting, WorkerInv, StartInv,
    OneShutdown
<1>8. FlagInv'
  BY SMTT(30), <1>0 DEF IInv, TypeOK, ProcInv, KnownInv, FlagInv, OneShutdown
<1>9. DebuggerInv'
  BY <1>0 DEF IInv, TypeOK, ProcInv, KnownInv, Starting, DebuggerInv, GoneInv,
    ShutdownInv, OneShutdown, StartInv
<1> QED
  BY <1>1, <1>2, <1>3, <1>4, <1>5, <1>6, <1>7, <1>8, <1>9 DEF IInv

\* The lock is given back by its owner.
LEMMA ToolReleaseKeeps ==
    ASSUME IInv, NEW t \in Threads, ToolRelease(t)
    PROVE  IInv'
<1> USE Processes, Ids DEF ToolRelease, Release, sess, At, Goto, Done, reg,
           StartSteps, CloseSteps, ToolSteps, ListSteps, ShutdownSteps,
           WorkerSteps, HoldSteps, ArgSteps, GoneSteps
<1>1. TypeOK'
  BY DEF IInv, TypeOK, ProcInv, KnownInv
<1>2. ProcInv' /\ KnownInv'
  BY DEF IInv, TypeOK, ProcInv, KnownInv, StartInv
<1>3. LockInv'
  BY DEF IInv, TypeOK, ProcInv, KnownInv, LockInv, WorkerInv
<1>4. StartInv' /\ ResultInv'
  BY DEF IInv, TypeOK, ProcInv, KnownInv, StartInv, LockInv, ResultInv
<1>5. GoneInv'
  BY DEF IInv, TypeOK, ProcInv, KnownInv, GoneInv, StartInv, LockInv
<1>6. OneShutdown' /\ ShutdownInv'
  BY DEF IInv, TypeOK, ProcInv, KnownInv, OneShutdown, ShutdownInv, StartInv,
    GoneInv
<1>7. WorkerInv'
  BY DEF IInv, TypeOK, ProcInv, KnownInv, Starting, WorkerInv, StartInv,
    OneShutdown
<1>8. FlagInv'
  BY DEF IInv, TypeOK, ProcInv, KnownInv, FlagInv, OneShutdown
<1>9. DebuggerInv'
  BY DEF IInv, TypeOK, ProcInv, KnownInv, Starting, DebuggerInv, GoneInv,
    ShutdownInv, OneShutdown, StartInv
<1> QED
  BY <1>1, <1>2, <1>3, <1>4, <1>5, <1>6, <1>7, <1>8, <1>9 DEF IInv

\* The snapshot holds tracked sessions only.
LEMMA ListSnapshotKeeps ==
    ASSUME IInv, NEW t \in Threads, ListSnapshot(t)
    PROVE  IInv'
<1> USE Processes, Ids DEF ListSnapshot, sess, At, Goto, Done, reg,
           StartSteps, CloseSteps, ToolSteps, ListSteps, ShutdownSteps,
           WorkerSteps, HoldSteps, ArgSteps, GoneSteps
<1>1. TypeOK'
  BY DEF IInv, TypeOK, ProcInv, KnownInv
<1>2. ProcInv' /\ KnownInv'
  BY DEF IInv, TypeOK, ProcInv, KnownInv, StartInv
<1>3. LockInv'
  BY DEF IInv, TypeOK, ProcInv, KnownInv, LockInv, WorkerInv
<1>4. StartInv' /\ ResultInv'
  BY DEF IInv, TypeOK, ProcInv, KnownInv, StartInv, LockInv, ResultInv
<1>5. GoneInv'
  BY DEF IInv, TypeOK, ProcInv, KnownInv, GoneInv, StartInv, LockInv
<1>6. OneShutdown' /\ ShutdownInv'
  BY DEF IInv, TypeOK, ProcInv, KnownInv, OneShutdown, ShutdownInv, StartInv,
    GoneInv
<1>7. WorkerInv'
  BY DEF IInv, TypeOK, ProcInv, KnownInv, Starting, WorkerInv, StartInv,
    OneShutdown
<1>8. FlagInv'
  BY DEF IInv, TypeOK, ProcInv, KnownInv, FlagInv, OneShutdown
<1>9. DebuggerInv'
  BY DEF IInv, TypeOK, ProcInv, KnownInv, Starting, DebuggerInv, GoneInv,
    ShutdownInv, OneShutdown, StartInv
<1> QED
  BY <1>1, <1>2, <1>3, <1>4, <1>5, <1>6, <1>7, <1>8, <1>9 DEF IInv

\* The next session of the snapshot is visited.
LEMMA ListNextKeeps ==
    ASSUME IInv, NEW t \in Threads, ListNext(t)
    PROVE  IInv'
<1> USE Processes, Ids DEF ListNext, sess, At, Goto, Done, reg, StartSteps,
           CloseSteps, ToolSteps, ListSteps, ShutdownSteps, WorkerSteps,
           HoldSteps, ArgSteps, GoneSteps
<1>0. /\ todo[t] \in SUBSET Sessions /\ t \in Procs
      /\ todo[t] # {} => Smallest(todo[t]) \in todo[t]
  BY SmallestType DEF IInv, TypeOK
<1>1. TypeOK'
  <2>1. todo' \in [Threads -> SUBSET Sessions]
    BY <1>0 DEF IInv, TypeOK
  <2>2. arg' \in [Procs -> 0..MaxSessions]
    BY <1>0 DEF IInv, TypeOK
  <2> QED
    BY SMTT(30), <1>0, <2>1, <2>2 DEF IInv, TypeOK
<1>2. ProcInv'
  BY <1>0 DEF IInv, TypeOK, ProcInv, KnownInv
<1>3. KnownInv'
  BY SMTT(30), <1>0 DEF IInv, TypeOK, ProcInv, KnownInv, StartInv
<1>4. LockInv'
  BY <1>0 DEF IInv, TypeOK, ProcInv, KnownInv, LockInv, WorkerInv
<1>5. StartInv'
  BY SMTT(30), <1>0 DEF IInv, TypeOK, ProcInv, KnownInv, StartInv, LockInv
<1>6. ResultInv'
  BY <1>0 DEF IInv, TypeOK, ProcInv, KnownInv, ResultInv, StartInv
<1>7. GoneInv'
  BY <1>0 DEF IInv, TypeOK, ProcInv, KnownInv, GoneInv, StartInv, LockInv
<1>8. OneShutdown'
  BY <1>0 DEF IInv, TypeOK, ProcInv, KnownInv, OneShutdown
<1>9. ShutdownInv'
  BY <1>0 DEF IInv, TypeOK, ProcInv, KnownInv, ShutdownInv, StartInv, GoneInv,
    OneShutdown
<1>10. WorkerInv'
  <2>1. \A u \in Threads : u # t => pc'[u] = pc[u] /\ arg'[u] = arg[u] /\ todo'[u] = todo[u]
    BY <1>0 DEF IInv, TypeOK
  <2>2. pc'[t] \notin ShutdownSteps \cup StartSteps
    BY <1>0 DEF IInv, TypeOK
  <2>3. \A s \in Sessions : pc'[Worker(s)] = pc[Worker(s)]
    BY <1>0 DEF IInv, TypeOK
  <2> QED
    BY <2>1, <2>2, <2>3 DEF IInv, WorkerInv, Starting
<1>11. FlagInv'
  BY <1>0 DEF IInv, TypeOK, ProcInv, KnownInv, FlagInv, OneShutdown
<1>12. DebuggerInv'
  BY <1>0 DEF IInv, TypeOK, ProcInv, KnownInv, Starting, DebuggerInv, GoneInv,
    ShutdownInv, OneShutdown, StartInv
<1> QED
  BY <1>1, <1>2, <1>3, <1>4, <1>5, <1>6, <1>7, <1>8, <1>9, <1>10, <1>11, <1>12 DEF IInv

\* The workflow lock is taken when it is free.
LEMMA ListLockKeeps ==
    ASSUME IInv, NEW t \in Threads, ListLock(t)
    PROVE  IInv'
<1> USE Processes, Ids DEF ListLock, Acquire, sess, At, Goto, Done, reg,
           StartSteps, CloseSteps, ToolSteps, ListSteps, ShutdownSteps,
           WorkerSteps, HoldSteps, ArgSteps, GoneSteps
<1>1. TypeOK'
  BY DEF IInv, TypeOK, ProcInv, KnownInv
<1>2. ProcInv' /\ KnownInv'
  BY DEF IInv, TypeOK, ProcInv, KnownInv, StartInv
<1>3. LockInv'
  BY DEF IInv, TypeOK, ProcInv, KnownInv, LockInv, WorkerInv
<1>4. StartInv' /\ ResultInv'
  BY DEF IInv, TypeOK, ProcInv, KnownInv, StartInv, LockInv, ResultInv
<1>5. GoneInv'
  BY DEF IInv, TypeOK, ProcInv, KnownInv, GoneInv, StartInv, LockInv
<1>6. OneShutdown' /\ ShutdownInv'
  BY DEF IInv, TypeOK, ProcInv, KnownInv, OneShutdown, ShutdownInv, StartInv,
    GoneInv
<1>7. WorkerInv'
  BY DEF IInv, TypeOK, ProcInv, KnownInv, Starting, WorkerInv, StartInv,
    OneShutdown
<1>8. FlagInv'
  BY DEF IInv, TypeOK, ProcInv, KnownInv, FlagInv, OneShutdown
<1>9. DebuggerInv'
  BY DEF IInv, TypeOK, ProcInv, KnownInv, Starting, DebuggerInv, GoneInv,
    ShutdownInv, OneShutdown, StartInv
<1> QED
  BY <1>1, <1>2, <1>3, <1>4, <1>5, <1>6, <1>7, <1>8, <1>9 DEF IInv

\* get_status may find GDB dead, and gives the lock back.
LEMMA ListStatusKeeps ==
    ASSUME IInv, NEW t \in Threads, ListStatus(t)
    PROVE  IInv'
<1> USE Processes, Ids DEF ListStatus, Release, At, Goto, Done, reg,
           StartSteps, CloseSteps, ToolSteps, ListSteps, ShutdownSteps,
           WorkerSteps, HoldSteps, ArgSteps, GoneSteps
<1>0. /\ arg[t] \in Sessions /\ gdb' = gdb
      /\ ctl' \in [Sessions -> BOOLEAN] /\ running' \in [Sessions -> BOOLEAN]
      /\ state' \in [Sessions -> {"created", "starting", "ready", "failed", "stopped"}]
      /\ \A r \in Sessions : ctl'[r] => ctl[r]
  BY RunCommandType DEF IInv, TypeOK, KnownInv
<1>1. TypeOK'
  BY <1>0 DEF IInv, TypeOK, ProcInv, KnownInv
<1>2. ProcInv' /\ KnownInv'
  BY <1>0 DEF IInv, TypeOK, ProcInv, KnownInv, StartInv
<1>3. LockInv'
  BY <1>0 DEF IInv, TypeOK, ProcInv, KnownInv, LockInv, WorkerInv
<1>4. StartInv' /\ ResultInv'
  BY <1>0 DEF IInv, TypeOK, ProcInv, KnownInv, StartInv, LockInv, ResultInv
<1>5. GoneInv'
  BY <1>0 DEF IInv, TypeOK, ProcInv, KnownInv, GoneInv, StartInv, LockInv
<1>6. OneShutdown' /\ ShutdownInv'
  BY <1>0 DEF IInv, TypeOK, ProcInv, KnownInv, OneShutdown, ShutdownInv,
    StartInv, GoneInv
<1>7. WorkerInv'
  BY <1>0 DEF IInv, TypeOK, ProcInv, KnownInv, Starting, WorkerInv, StartInv,
    OneShutdown
<1>8. FlagInv'
  BY SMTT(30), <1>0 DEF IInv, TypeOK, ProcInv, KnownInv, FlagInv, OneShutdown
<1>9. DebuggerInv'
  BY SMTT(30), <1>0 DEF IInv, TypeOK, ProcInv, KnownInv, Starting, DebuggerInv, GoneInv,
    ShutdownInv, OneShutdown, StartInv
<1> QED
  BY <1>1, <1>2, <1>3, <1>4, <1>5, <1>6, <1>7, <1>8, <1>9 DEF IInv

-----------------------------------------------------------------------------
(* shutdown_all and its workers *)

\* The shutdown takes over every tracked session, and all closing ones are
\* among them.
LEMMA ShutdownSwapKeeps ==
    ASSUME IInv, NEW t \in Threads, ShutdownSwap(t)
    PROVE  IInv'
<1> USE Processes, Ids DEF ShutdownSwap, sess, At, Goto, Done, reg,
           StartSteps, CloseSteps, ToolSteps, ListSteps, ShutdownSteps,
           WorkerSteps, HoldSteps, ArgSteps, GoneSteps
<1>1. TypeOK'
  BY DEF IInv, TypeOK, ProcInv, KnownInv
<1>2. ProcInv' /\ KnownInv'
  BY DEF IInv, TypeOK, ProcInv, KnownInv, StartInv
<1>3. LockInv'
  BY DEF IInv, TypeOK, ProcInv, KnownInv, LockInv, WorkerInv
<1>4. StartInv' /\ ResultInv'
  BY DEF IInv, TypeOK, ProcInv, KnownInv, StartInv, LockInv, ResultInv
<1>5. GoneInv'
  BY DEF IInv, TypeOK, ProcInv, KnownInv, GoneInv, StartInv, LockInv
<1>6. OneShutdown' /\ ShutdownInv'
  BY DEF IInv, TypeOK, ProcInv, KnownInv, OneShutdown, ShutdownInv, StartInv,
    GoneInv
<1>7. WorkerInv'
  BY DEF IInv, TypeOK, ProcInv, KnownInv, Starting, WorkerInv, StartInv,
    OneShutdown
<1>8. FlagInv'
  BY DEF IInv, TypeOK, ProcInv, KnownInv, FlagInv, OneShutdown
<1>9. DebuggerInv'
  BY DEF IInv, TypeOK, ProcInv, KnownInv, Starting, DebuggerInv, GoneInv,
    ShutdownInv, OneShutdown, StartInv
<1> QED
  BY <1>1, <1>2, <1>3, <1>4, <1>5, <1>6, <1>7, <1>8, <1>9 DEF IInv

\* A worker is started for a session that has had none.
LEMMA ShutdownNextKeeps ==
    ASSUME IInv, NEW t \in Threads, ShutdownNext(t)
    PROVE  IInv'
<1> USE Processes, Ids DEF ShutdownNext, sess, At, Goto, Done, reg,
           StartSteps, CloseSteps, ToolSteps, ListSteps, ShutdownSteps,
           WorkerSteps, HoldSteps, ArgSteps, GoneSteps
<1>0. /\ todo[t] \in SUBSET Sessions /\ t \in Procs
      /\ todo[t] # {} => Smallest(todo[t]) \in todo[t]
  BY SmallestType DEF IInv, TypeOK
<1>1. TypeOK'
  <2>1. todo' \in [Threads -> SUBSET Sessions]
    BY <1>0 DEF IInv, TypeOK
  <2>2. arg' \in [Procs -> 0..MaxSessions]
    BY <1>0 DEF IInv, TypeOK
  <2> QED
    BY SMTT(30), <1>0, <2>1, <2>2 DEF IInv, TypeOK
<1>2. ProcInv'
  BY <1>0 DEF IInv, TypeOK, ProcInv, KnownInv
<1>3. KnownInv'
  BY SMTT(30), <1>0 DEF IInv, TypeOK, ProcInv, KnownInv, StartInv
<1>4. LockInv'
  BY <1>0 DEF IInv, TypeOK, ProcInv, KnownInv, LockInv, WorkerInv
<1>5. StartInv'
  <2>1. \A u \in Threads : u # t => pc'[u] = pc[u] /\ arg'[u] = arg[u] /\ todo'[u] = todo[u]
    BY <1>0 DEF IInv, TypeOK
  <2>2. pc'[t] \notin StartSteps /\ todo'[t] \subseteq todo[t]
    BY <1>0 DEF IInv, TypeOK
  <2>3. \A p \in Procs : arg'[p] = arg[p] \/ arg'[p] \in todo[t]
    BY <1>0 DEF IInv, TypeOK
  <2> QED
    BY <2>1, <2>2, <2>3 DEF IInv, StartInv
<1>6. ResultInv'
  BY <1>0 DEF IInv, TypeOK, ProcInv, KnownInv, ResultInv, StartInv
<1>7. GoneInv'
  BY <1>0 DEF IInv, TypeOK, ProcInv, KnownInv, GoneInv, StartInv, LockInv
<1>8. OneShutdown'
  BY <1>0 DEF IInv, TypeOK, ProcInv, KnownInv, OneShutdown
<1>9. ShutdownInv'
  BY <1>0 DEF IInv, TypeOK, ProcInv, KnownInv, ShutdownInv, StartInv, GoneInv,
    OneShutdown
<1>10. WorkerInv'
  <2>1. \A u \in Threads : u # t => pc'[u] = pc[u] /\ arg'[u] = arg[u] /\ todo'[u] = todo[u]
    BY <1>0 DEF IInv, TypeOK
  <2>2. pc'[t] \in ShutdownSteps
    BY <1>0 DEF IInv, TypeOK
  <2>3. CASE todo[t] = {} \/ ~ctl[Smallest(todo[t])]
    BY <1>0, <2>1, <2>2, <2>3 DEF IInv, TypeOK, WorkerInv, Starting
  <2>4. CASE todo[t] # {} /\ ctl[Smallest(todo[t])]
    <3> DEFINE s == Smallest(todo[t])
    <3>1. s \in Sessions /\ s < nextId /\ s \notin tracked /\ ~Starting(s)
      BY <1>0, <2>4 DEF IInv, KnownInv, ShutdownInv, StartInv, Starting
    <3>2. s \notin todo'[t] /\ todo'[t] \subseteq todo[t]
      BY <1>0, <2>4 DEF IInv, TypeOK
    <3>3. \A r \in Sessions \ {s} : pc'[Worker(r)] = pc[Worker(r)]
      BY <1>0, <2>4, <3>1 DEF IInv, TypeOK
    <3> QED
      BY SMTT(30), <1>0, <2>1, <2>2, <2>4, <3>1, <3>2, <3>3 DEF IInv, TypeOK, WorkerInv, Starting, OneShutdown
  <2> QED
    BY <2>3, <2>4
<1>11. FlagInv'
  BY <1>0 DEF IInv, TypeOK, ProcInv, KnownInv, FlagInv, OneShutdown
<1>12. DebuggerInv'
  BY <1>0 DEF IInv, TypeOK, ProcInv, KnownInv, Starting, DebuggerInv, GoneInv,
    ShutdownInv, OneShutdown, StartInv
<1> QED
  BY <1>1, <1>2, <1>3, <1>4, <1>5, <1>6, <1>7, <1>8, <1>9, <1>10, <1>11, <1>12 DEF IInv

\* A worker that has ended has closed the transport.
LEMMA ShutdownJoinKeeps ==
    ASSUME IInv, NEW t \in Threads, ShutdownJoin(t)
    PROVE  IInv'
<1> USE Processes, Ids DEF ShutdownJoin, sess, At, Goto, Done, reg,
           StartSteps, CloseSteps, ToolSteps, ListSteps, ShutdownSteps,
           WorkerSteps, HoldSteps, ArgSteps, GoneSteps
<1>1. TypeOK'
  BY DEF IInv, TypeOK, ProcInv, KnownInv
<1>2. ProcInv' /\ KnownInv'
  BY DEF IInv, TypeOK, ProcInv, KnownInv, StartInv
<1>3. LockInv'
  BY DEF IInv, TypeOK, ProcInv, KnownInv, LockInv, WorkerInv
<1>4. StartInv' /\ ResultInv'
  BY DEF IInv, TypeOK, ProcInv, KnownInv, StartInv, LockInv, ResultInv
<1>5. GoneInv'
  BY DEF IInv, TypeOK, ProcInv, KnownInv, GoneInv, StartInv, LockInv
<1>6. OneShutdown' /\ ShutdownInv'
  BY DEF IInv, TypeOK, ProcInv, KnownInv, OneShutdown, ShutdownInv, StartInv,
    GoneInv
<1>7. WorkerInv'
  BY DEF IInv, TypeOK, ProcInv, KnownInv, Starting, WorkerInv, StartInv,
    OneShutdown
<1>8. FlagInv'
  BY DEF IInv, TypeOK, ProcInv, KnownInv, FlagInv, OneShutdown
<1>9. DebuggerInv'
  BY DEF IInv, TypeOK, ProcInv, KnownInv, Starting, DebuggerInv, GoneInv,
    ShutdownInv, OneShutdown, StartInv
<1> QED
  BY <1>1, <1>2, <1>3, <1>4, <1>5, <1>6, <1>7, <1>8, <1>9 DEF IInv

\* A worker that does not end in time is given up.
LEMMA ShutdownJoinTimesOutKeeps ==
    ASSUME IInv, NEW t \in Threads, ShutdownJoinTimesOut(t)
    PROVE  IInv'
<1> USE Processes, Ids DEF ShutdownJoinTimesOut, sess, At, Goto, Done, reg,
           StartSteps, CloseSteps, ToolSteps, ListSteps, ShutdownSteps,
           WorkerSteps, HoldSteps, ArgSteps, GoneSteps
<1>1. TypeOK'
  BY DEF IInv, TypeOK, ProcInv, KnownInv
<1>2. ProcInv' /\ KnownInv'
  BY DEF IInv, TypeOK, ProcInv, KnownInv, StartInv
<1>3. LockInv'
  BY DEF IInv, TypeOK, ProcInv, KnownInv, LockInv, WorkerInv
<1>4. StartInv' /\ ResultInv'
  BY DEF IInv, TypeOK, ProcInv, KnownInv, StartInv, LockInv, ResultInv
<1>5. GoneInv'
  BY DEF IInv, TypeOK, ProcInv, KnownInv, GoneInv, StartInv, LockInv
<1>6. OneShutdown' /\ ShutdownInv'
  BY DEF IInv, TypeOK, ProcInv, KnownInv, OneShutdown, ShutdownInv, StartInv,
    GoneInv
<1>7. WorkerInv'
  BY DEF IInv, TypeOK, ProcInv, KnownInv, Starting, WorkerInv, StartInv,
    OneShutdown
<1>8. FlagInv'
  BY DEF IInv, TypeOK, ProcInv, KnownInv, FlagInv, OneShutdown
<1>9. DebuggerInv'
  BY DEF IInv, TypeOK, ProcInv, KnownInv, Starting, DebuggerInv, GoneInv,
    ShutdownInv, OneShutdown, StartInv
<1> QED
  BY <1>1, <1>2, <1>3, <1>4, <1>5, <1>6, <1>7, <1>8, <1>9 DEF IInv

\* The flags fall when every session has been dealt with.
LEMMA ShutdownClearKeeps ==
    ASSUME IInv, NEW t \in Threads, ShutdownClear(t)
    PROVE  IInv'
<1> USE Processes, Ids DEF ShutdownClear, sess, At, Goto, Done, reg,
           StartSteps, CloseSteps, ToolSteps, ListSteps, ShutdownSteps,
           WorkerSteps, HoldSteps, ArgSteps, GoneSteps
<1>1. TypeOK'
  BY DEF IInv, TypeOK, ProcInv, KnownInv
<1>2. ProcInv' /\ KnownInv'
  BY DEF IInv, TypeOK, ProcInv, KnownInv, StartInv
<1>3. LockInv'
  BY DEF IInv, TypeOK, ProcInv, KnownInv, LockInv, WorkerInv
<1>4. StartInv' /\ ResultInv'
  BY DEF IInv, TypeOK, ProcInv, KnownInv, StartInv, LockInv, ResultInv
<1>5. GoneInv'
  BY DEF IInv, TypeOK, ProcInv, KnownInv, GoneInv, StartInv, LockInv
<1>6. OneShutdown' /\ ShutdownInv'
  BY DEF IInv, TypeOK, ProcInv, KnownInv, OneShutdown, ShutdownInv, StartInv,
    GoneInv
<1>7. WorkerInv'
  BY DEF IInv, TypeOK, ProcInv, KnownInv, Starting, WorkerInv, StartInv,
    OneShutdown
<1>8. FlagInv'
  BY DEF IInv, TypeOK, ProcInv, KnownInv, FlagInv, OneShutdown
<1>9. DebuggerInv'
  BY DEF IInv, TypeOK, ProcInv, KnownInv, Starting, DebuggerInv, GoneInv,
    ShutdownInv, OneShutdown, StartInv
<1> QED
  BY <1>1, <1>2, <1>3, <1>4, <1>5, <1>6, <1>7, <1>8, <1>9 DEF IInv

\* The workflow lock is taken when it is free.
LEMMA WorkerLockKeeps ==
    ASSUME IInv, NEW s \in Sessions, WorkerLock(s)
    PROVE  IInv'
<1> USE Processes, Ids DEF WorkerLock, Acquire, sess, At, Goto, Done, reg,
           StartSteps, CloseSteps, ToolSteps, ListSteps, ShutdownSteps,
           WorkerSteps, HoldSteps, ArgSteps, GoneSteps
<1>1. TypeOK'
  BY DEF IInv, TypeOK, ProcInv, KnownInv
<1>2. ProcInv' /\ KnownInv'
  BY DEF IInv, TypeOK, ProcInv, KnownInv, StartInv
<1>3. LockInv'
  BY DEF IInv, TypeOK, ProcInv, KnownInv, LockInv, WorkerInv
<1>4. StartInv' /\ ResultInv'
  BY DEF IInv, TypeOK, ProcInv, KnownInv, StartInv, LockInv, ResultInv
<1>5. GoneInv'
  BY DEF IInv, TypeOK, ProcInv, KnownInv, GoneInv, StartInv, LockInv
<1>6. OneShutdown' /\ ShutdownInv'
  BY DEF IInv, TypeOK, ProcInv, KnownInv, OneShutdown, ShutdownInv, StartInv,
    GoneInv
<1>7. WorkerInv'
  BY DEF IInv, TypeOK, ProcInv, KnownInv, Starting, WorkerInv, StartInv,
    OneShutdown
<1>8. FlagInv'
  BY DEF IInv, TypeOK, ProcInv, KnownInv, FlagInv, OneShutdown
<1>9. DebuggerInv'
  BY DEF IInv, TypeOK, ProcInv, KnownInv, Starting, DebuggerInv, GoneInv,
    ShutdownInv, OneShutdown, StartInv
<1> QED
  BY <1>1, <1>2, <1>3, <1>4, <1>5, <1>6, <1>7, <1>8, <1>9 DEF IInv

\* stop() fails at once when the controller is gone.
LEMMA WorkerStopKeeps ==
    ASSUME IInv, NEW s \in Sessions, WorkerStop(s)
    PROVE  IInv'
<1> USE Processes, Ids DEF WorkerStop, StopEnter, sess, At, Goto, Done, reg,
           StartSteps, CloseSteps, ToolSteps, ListSteps, ShutdownSteps,
           WorkerSteps, HoldSteps, ArgSteps, GoneSteps
<1>1. TypeOK'
  BY DEF IInv, TypeOK, ProcInv, KnownInv
<1>2. ProcInv' /\ KnownInv'
  BY DEF IInv, TypeOK, ProcInv, KnownInv, StartInv
<1>3. LockInv'
  BY DEF IInv, TypeOK, ProcInv, KnownInv, LockInv, WorkerInv
<1>4. StartInv' /\ ResultInv'
  BY DEF IInv, TypeOK, ProcInv, KnownInv, StartInv, LockInv, ResultInv
<1>5. GoneInv'
  BY DEF IInv, TypeOK, ProcInv, KnownInv, GoneInv, StartInv, LockInv
<1>6. OneShutdown' /\ ShutdownInv'
  BY DEF IInv, TypeOK, ProcInv, KnownInv, OneShutdown, ShutdownInv, StartInv,
    GoneInv
<1>7. WorkerInv'
  BY DEF IInv, TypeOK, ProcInv, KnownInv, Starting, WorkerInv, StartInv,
    OneShutdown
<1>8. FlagInv'
  BY DEF IInv, TypeOK, ProcInv, KnownInv, FlagInv, OneShutdown
<1>9. DebuggerInv'
  BY DEF IInv, TypeOK, ProcInv, KnownInv, Starting, DebuggerInv, GoneInv,
    ShutdownInv, OneShutdown, StartInv
<1> QED
  BY <1>1, <1>2, <1>3, <1>4, <1>5, <1>6, <1>7, <1>8, <1>9 DEF IInv

\* The transport is closed under the workflow lock.
LEMMA WorkerExitKeeps ==
    ASSUME IInv, NEW s \in Sessions, WorkerExit(s)
    PROVE  IInv'
<1> USE Processes, Ids DEF WorkerExit, StopExit, Exit, At, Goto, Done, reg,
           StartSteps, CloseSteps, ToolSteps, ListSteps, ShutdownSteps,
           WorkerSteps, HoldSteps, ArgSteps, GoneSteps
<1>1. TypeOK'
  BY DEF IInv, TypeOK, ProcInv, KnownInv
<1>2. ProcInv' /\ KnownInv'
  BY DEF IInv, TypeOK, ProcInv, KnownInv, StartInv
<1>3. LockInv'
  BY DEF IInv, TypeOK, ProcInv, KnownInv, LockInv, WorkerInv
<1>4. StartInv' /\ ResultInv'
  BY DEF IInv, TypeOK, ProcInv, KnownInv, StartInv, LockInv, ResultInv
<1>5. GoneInv'
  BY DEF IInv, TypeOK, ProcInv, KnownInv, GoneInv, StartInv, LockInv
<1>6. OneShutdown' /\ ShutdownInv'
  BY DEF IInv, TypeOK, ProcInv, KnownInv, OneShutdown, ShutdownInv, StartInv,
    GoneInv
<1>7. WorkerInv'
  BY DEF IInv, TypeOK, ProcInv, KnownInv, Starting, WorkerInv, StartInv,
    OneShutdown
<1>8. FlagInv'
  BY DEF IInv, TypeOK, ProcInv, KnownInv, FlagInv, OneShutdown
<1>9. DebuggerInv'
  BY DEF IInv, TypeOK, ProcInv, KnownInv, Starting, DebuggerInv, GoneInv,
    ShutdownInv, OneShutdown, StartInv
<1> QED
  BY <1>1, <1>2, <1>3, <1>4, <1>5, <1>6, <1>7, <1>8, <1>9 DEF IInv

\* The runtime is marked whichever way the exit went.
LEMMA WorkerMarkKeeps ==
    ASSUME IInv, NEW s \in Sessions, WorkerMark(s)
    PROVE  IInv'
<1> USE Processes, Ids DEF WorkerMark, StopMark, At, Goto, Done, reg,
           StartSteps, CloseSteps, ToolSteps, ListSteps, ShutdownSteps,
           WorkerSteps, HoldSteps, ArgSteps, GoneSteps
<1>1. TypeOK'
  BY DEF IInv, TypeOK, ProcInv, KnownInv
<1>2. ProcInv' /\ KnownInv'
  BY DEF IInv, TypeOK, ProcInv, KnownInv, StartInv
<1>3. LockInv'
  BY DEF IInv, TypeOK, ProcInv, KnownInv, LockInv, WorkerInv
<1>4. StartInv' /\ ResultInv'
  BY DEF IInv, TypeOK, ProcInv, KnownInv, StartInv, LockInv, ResultInv
<1>5. GoneInv'
  BY DEF IInv, TypeOK, ProcInv, KnownInv, GoneInv, StartInv, LockInv
<1>6. OneShutdown' /\ ShutdownInv'
  BY DEF IInv, TypeOK, ProcInv, KnownInv, OneShutdown, ShutdownInv, StartInv,
    GoneInv
<1>7. WorkerInv'
  BY DEF IInv, TypeOK, ProcInv, KnownInv, Starting, WorkerInv, StartInv,
    OneShutdown
<1>8. FlagInv'
  BY DEF IInv, TypeOK, ProcInv, KnownInv, FlagInv, OneShutdown
<1>9. DebuggerInv'
  BY DEF IInv, TypeOK, ProcInv, KnownInv, Starting, DebuggerInv, GoneInv,
    ShutdownInv, OneShutdown, StartInv
<1> QED
  BY <1>1, <1>2, <1>3, <1>4, <1>5, <1>6, <1>7, <1>8, <1>9 DEF IInv

\* The lock is given back by its owner.
LEMMA WorkerReleaseKeeps ==
    ASSUME IInv, NEW s \in Sessions, WorkerRelease(s)
    PROVE  IInv'
<1> USE Processes, Ids DEF WorkerRelease, Release, sess, At, Goto, Done, reg,
           StartSteps, CloseSteps, ToolSteps, ListSteps, ShutdownSteps,
           WorkerSteps, HoldSteps, ArgSteps, GoneSteps
<1>1. TypeOK'
  BY DEF IInv, TypeOK, ProcInv, KnownInv
<1>2. ProcInv' /\ KnownInv'
  BY DEF IInv, TypeOK, ProcInv, KnownInv, StartInv
<1>3. LockInv'
  BY DEF IInv, TypeOK, ProcInv, KnownInv, LockInv, WorkerInv
<1>4. StartInv' /\ ResultInv'
  BY DEF IInv, TypeOK, ProcInv, KnownInv, StartInv, LockInv, ResultInv
<1>5. GoneInv'
  BY DEF IInv, TypeOK, ProcInv, KnownInv, GoneInv, StartInv, LockInv
<1>6. OneShutdown' /\ ShutdownInv'
  BY DEF IInv, TypeOK, ProcInv, KnownInv, OneShutdown, ShutdownInv, StartInv,
    GoneInv
<1>7. WorkerInv'
  BY DEF IInv, TypeOK, ProcInv, KnownInv, Starting, WorkerInv, StartInv,
    OneShutdown
<1>8. FlagInv'
  BY DEF IInv, TypeOK, ProcInv, KnownInv, FlagInv, OneShutdown
<1>9. DebuggerInv'
  BY DEF IInv, TypeOK, ProcInv, KnownInv, Starting, DebuggerInv, GoneInv,
    ShutdownInv, OneShutdown, StartInv
<1> QED
  BY <1>1, <1>2, <1>3, <1>4, <1>5, <1>6, <1>7, <1>8, <1>9 DEF IInv

-----------------------------------------------------------------------------
(* GDB *)

\* A GDB that dies leaves its controller behind.
LEMMA GdbDiesKeeps ==
    ASSUME IInv, NEW s \in Sessions, GdbDies(s)
    PROVE  IInv'
<1> USE Processes, Ids DEF GdbDies, reg, StartSteps, CloseSteps, ToolSteps,
           ListSteps, ShutdownSteps, WorkerSteps, HoldSteps, ArgSteps,
           GoneSteps
<1>1. TypeOK'
  BY DEF IInv, TypeOK, ProcInv, KnownInv
<1>2. ProcInv' /\ KnownInv'
  BY DEF IInv, TypeOK, ProcInv, KnownInv, StartInv
<1>3. LockInv'
  BY DEF IInv, TypeOK, ProcInv, KnownInv, LockInv, WorkerInv
<1>4. StartInv' /\ ResultInv'
  BY DEF IInv, TypeOK, ProcInv, KnownInv, StartInv, LockInv, ResultInv
<1>5. GoneInv'
  BY DEF IInv, TypeOK, ProcInv, KnownInv, GoneInv, StartInv, LockInv
<1>6. OneShutdown' /\ ShutdownInv'
  BY DEF IInv, TypeOK, ProcInv, KnownInv, OneShutdown, ShutdownInv, StartInv,
    GoneInv
<1>7. WorkerInv'
  BY DEF IInv, TypeOK, ProcInv, KnownInv, Starting, WorkerInv, StartInv,
    OneShutdown
<1>8. FlagInv'
  BY DEF IInv, TypeOK, ProcInv, KnownInv, FlagInv, OneShutdown
<1>9. DebuggerInv'
  BY DEF IInv, TypeOK, ProcInv, KnownInv, Starting, DebuggerInv, GoneInv,
    ShutdownInv, OneShutdown, StartInv
<1> QED
  BY <1>1, <1>2, <1>3, <1>4, <1>5, <1>6, <1>7, <1>8, <1>9 DEF IInv

\* A GDB that hangs changes nothing the server knows of.
LEMMA GdbHangsKeeps ==
    ASSUME IInv, NEW s \in Sessions, GdbHangs(s)
    PROVE  IInv'
<1> USE Processes, Ids DEF GdbHangs, reg, StartSteps, CloseSteps, ToolSteps,
           ListSteps, ShutdownSteps, WorkerSteps, HoldSteps, ArgSteps,
           GoneSteps
<1>1. TypeOK'
  BY DEF IInv, TypeOK, ProcInv, KnownInv
<1>2. ProcInv' /\ KnownInv'
  BY DEF IInv, TypeOK, ProcInv, KnownInv, StartInv
<1>3. LockInv'
  BY DEF IInv, TypeOK, ProcInv, KnownInv, LockInv, WorkerInv
<1>4. StartInv' /\ ResultInv'
  BY DEF IInv, TypeOK, ProcInv, KnownInv, StartInv, LockInv, ResultInv
<1>5. GoneInv'
  BY DEF IInv, TypeOK, ProcInv, KnownInv, GoneInv, StartInv, LockInv
<1>6. OneShutdown' /\ ShutdownInv'
  BY DEF IInv, TypeOK, ProcInv, KnownInv, OneShutdown, ShutdownInv, StartInv,
    GoneInv
<1>7. WorkerInv'
  BY DEF IInv, TypeOK, ProcInv, KnownInv, Starting, WorkerInv, StartInv,
    OneShutdown
<1>8. FlagInv'
  BY DEF IInv, TypeOK, ProcInv, KnownInv, FlagInv, OneShutdown
<1>9. DebuggerInv'
  BY DEF IInv, TypeOK, ProcInv, KnownInv, Starting, DebuggerInv, GoneInv,
    ShutdownInv, OneShutdown, StartInv
<1> QED
  BY <1>1, <1>2, <1>3, <1>4, <1>5, <1>6, <1>7, <1>8, <1>9 DEF IInv

-----------------------------------------------------------------------------
(* The invariant holds, and what follows from it *)

\* Nothing has an id, a lock or a flag before the first call.
LEMMA InitInv == Init => IInv
<1> SUFFICES ASSUME Init PROVE IInv
  OBVIOUS
<1> USE Processes, Ids DEF Init
<1>1. TypeOK
  BY RegistryAssumption DEF TypeOK
<1>2. ProcInv /\ KnownInv /\ LockInv
  BY <1>1 DEF TypeOK, ProcInv, KnownInv, LockInv, WorkerSteps, ArgSteps, HoldSteps, StartSteps,
        CloseSteps, ToolSteps
<1>3. StartInv /\ ResultInv /\ GoneInv /\ OneShutdown /\ ShutdownInv
  BY <1>1 DEF TypeOK, StartInv, ResultInv, GoneInv, OneShutdown, ShutdownInv, StartSteps,
        ShutdownSteps, GoneSteps
<1>4. WorkerInv /\ FlagInv /\ DebuggerInv
  BY <1>1 DEF TypeOK, WorkerInv, FlagInv, DebuggerInv
<1> QED
  BY <1>1, <1>2, <1>3, <1>4 DEF IInv

\* Every step of every thread, worker and GDB keeps the invariant.
LEMMA NextInv == IInv /\ [Next]_vars => IInv'
<1> SUFFICES ASSUME IInv, [Next]_vars PROVE IInv'
  OBVIOUS
<1>1. ASSUME NEW s \in Sessions, GdbDies(s) \/ GdbHangs(s) \/ Work(s)
      PROVE  IInv'
  BY <1>1, GdbDiesKeeps, GdbHangsKeeps, WorkerLockKeeps, WorkerStopKeeps, WorkerExitKeeps,
     WorkerMarkKeeps, WorkerReleaseKeeps DEF Work
<1>2. ASSUME NEW t \in Threads, StartAllocate(t) \/ Start(t)
      PROVE  IInv'
  <2>1. CASE StartOpen(t)
    BY <2>1, StartOpenedKeeps, StartErrorKeeps DEF StartOpen, At
  <2>2. CASE StartCommands(t)
    BY <2>2, StartCommandedKeeps, StartErrorKeeps DEF StartCommands, At
  <2> QED
    BY <1>2, <2>1, <2>2, StartAllocateKeeps, StartConfirmKeeps, StartProbeKeeps,
       StartPublishKeeps DEF Start
<1>3. ASSUME NEW t \in Threads, Close(t) \/ \E s \in Sessions : CloseFlag(t, s)
      PROVE  IInv'
  BY <1>3, CloseFlagKeeps, CloseCheckKeeps, CloseRunningKeeps, CloseLockKeeps, CloseStopKeeps,
     CloseExitKeeps, CloseMarkKeeps, CloseReleaseKeeps, CloseRemoveKeeps, CloseUnflagKeeps
     DEF Close
<1>4. ASSUME NEW t \in Threads,
             Tool(t) \/ List(t) \/ ListSnapshot(t) \/ \E s \in Sessions : ToolResolve(t, s)
      PROVE  IInv'
  BY <1>4, ToolResolveKeeps, ToolLockKeeps, ToolExecuteKeeps, ToolReleaseKeeps,
     ListSnapshotKeeps, ListNextKeeps, ListLockKeeps, ListStatusKeeps DEF Tool, List
<1>5. ASSUME NEW t \in Threads, Shutdown(t) \/ ShutdownSwap(t)
      PROVE  IInv'
  BY <1>5, ShutdownSwapKeeps, ShutdownNextKeeps, ShutdownJoinKeeps, ShutdownJoinTimesOutKeeps,
     ShutdownClearKeeps DEF Shutdown
<1>6. CASE UNCHANGED vars
  BY <1>6 DEF vars, IInv, TypeOK, ProcInv, KnownInv, LockInv, StartInv, ResultInv, GoneInv,
        OneShutdown, ShutdownInv, WorkerInv, FlagInv, DebuggerInv, Starting
<1> QED
  BY <1>1, <1>2, <1>3, <1>4, <1>5, <1>6 DEF Next

\* The inductive invariant holds in every state of every behaviour.
THEOREM InvariantHolds == Spec => []IInv
BY InitInv, NextInv, PTL DEF Spec

\* The registry, its sessions, locks and calls are always well formed.
THEOREM RegistryTypeCorrect == Spec => []TypeOK
<1>1. IInv => TypeOK
  BY DEF IInv
<1> QED
  BY <1>1, InvariantHolds, PTL

\* No session is refused as "closing" for ever: a flag that is up belongs to a
\* close_session or shutdown_all that has not returned, for any number of
\* threads and sessions.
THEOREM FlagsAreTemporary == Spec => []ClosingIsTemporary
<1>1. IInv => ClosingIsTemporary
  BY DEF IInv, FlagInv, ClosingIsTemporary
<1> QED
  BY <1>1, InvariantHolds, PTL

\* When the server counts no active session, a debugger that is still there
\* was given up by a shutdown or belongs to a start about to be published.
THEOREM IdleServerHasNoDebugger == Spec => []IdleMeansNoDebugger
<1>1. IInv => IdleMeansNoDebugger
  BY DEF IInv, TypeOK, DebuggerInv, ResultInv, StartInv, Starting, IdleMeansNoDebugger, At, StartSteps
<1> QED
  BY <1>1, InvariantHolds, PTL

-----------------------------------------------------------------------------
(* Isolation of the holder of a workflow lock *)

\* A controller goes away in a step of the thread that starts its session, or
\* of a process inside the section of its workflow lock.
LEMMA WhoDropsController ==
    ASSUME IInv, Next, NEW s \in Sessions, ctl[s], ~ctl'[s]
    PROVE  \/ Starting(s)
           \/ \E p \in Procs : pc[p] \in HoldSteps /\ arg[p] = s /\ pc'[p] # pc[p]
<1> USE Processes DEF At, Goto, Done, HoldSteps
<1>1. ASSUME NEW t \in Threads, StartAllocate(t) \/ Start(t)
      PROVE  Starting(s)
  BY <1>1, RunCommandType DEF StartAllocate, Start, StartOpen, StartConfirm, StartCommands, StartProbe,
        StartPublish, StartError, Terminated, sess, Starting, StartSteps, IInv, TypeOK, KnownInv, ArgSteps
<1>2. ASSUME NEW t \in Threads, Close(t) \/ \E r \in Sessions : CloseFlag(t, r)
      PROVE  pc[t] \in HoldSteps /\ arg[t] = s /\ pc'[t] # pc[t]
  BY <1>2 DEF Close, CloseFlag, CloseCheck, CloseRunning, CloseLock, CloseStop, CloseExit, CloseMark,
        CloseRelease, CloseRemove, CloseUnflag, StopEnter, StopExit, StopMark, Exit, sess, IInv, TypeOK
<1>3. ASSUME NEW t \in Threads,
             Tool(t) \/ List(t) \/ ListSnapshot(t) \/ \E r \in Sessions : ToolResolve(t, r)
      PROVE  pc[t] \in HoldSteps /\ arg[t] = s /\ pc'[t] # pc[t]
  BY <1>3 DEF Tool, List, ListSnapshot, ToolResolve, ToolLock, ToolExecute, ToolRelease, ListNext,
        ListLock, ListStatus, RunCommand, Terminated, sess, IInv, TypeOK
<1>4. ASSUME NEW t \in Threads, Shutdown(t) \/ ShutdownSwap(t)
      PROVE  FALSE
  BY <1>4 DEF Shutdown, ShutdownSwap, ShutdownNext, ShutdownJoin, ShutdownJoinTimesOut,
        ShutdownClear, sess
<1>5. ASSUME NEW r \in Sessions, GdbDies(r) \/ GdbHangs(r) \/ Work(r)
      PROVE  \E p \in Procs : pc[p] \in HoldSteps /\ arg[p] = s /\ pc'[p] # pc[p]
  <2>1. Worker(r) \in Procs
    OBVIOUS
  <2> QED
    BY <1>5, <2>1 DEF GdbDies, GdbHangs, Work, WorkerLock, WorkerStop, WorkerExit, WorkerMark,
        WorkerRelease, StopEnter, StopExit, StopMark, Exit, sess, IInv, TypeOK
<1> QED
  BY <1>1, <1>2, <1>3, <1>4, <1>5 DEF Next

\* A tool call or a summary never loses its session to a concurrent stop: a
\* controller that a client can see goes away only in a step of the holder of
\* the session's workflow lock.
THEOREM ToolsAreIsolated == Spec => WorkflowIsolation
<1> DEFINE Drop(s) == ctl[s] /\ ~ctl'[s] /\ s \in tracked \cup closing
           Holder(s) == owner[s] # Free /\ arg[owner[s]] = s /\ pc'[owner[s]] # pc[owner[s]]
<1>1. ASSUME IInv, Next, NEW s \in Sessions, Drop(s)
      PROVE  Holder(s)
  <2>1. ~Starting(s)
    BY <1>1 DEF IInv, StartInv, Starting
  <2>2. PICK p \in Procs : pc[p] \in HoldSteps /\ arg[p] = s /\ pc'[p] # pc[p]
    BY <1>1, <2>1, WhoDropsController
  <2>3. owner[s] = p
    BY <1>1, <2>2 DEF IInv, LockInv
  <2> QED
    BY <2>2, <2>3, Processes
<1>2. IInv /\ [Next]_vars => [\A s \in Sessions : Drop(s) => Holder(s)]_vars
  BY <1>1
<1> QED
  BY <1>2, InvariantHolds, PTL DEF Spec, WorkflowIsolation

-----------------------------------------------------------------------------
(* The registry implements SessionDirectory *)

\* The phase of a session, read off the registry.
LEMMA PhaseIs ==
    ASSUME IInv, NEW s \in Sessions
    PROVE  /\ s >= nextId => Phase(s) = "unused"
           /\ s \in closing => Phase(s) = "closing"
           /\ s \in tracked \ closing => Phase(s) = "open"
           /\ Starting(s) => Phase(s) = "starting"
           /\ s < nextId /\ s \notin tracked \cup closing /\ ~Starting(s) => Phase(s) = "gone"
           /\ Phase(s) \in {"unused", "starting", "open", "closing", "gone"}
<1>1. nextId \in Int /\ s \in Int
  BY Ids DEF IInv, TypeOK
<1>2. s \in tracked \cup closing => s < nextId
  BY DEF IInv, KnownInv
<1>3. Starting(s) => s < nextId /\ s \notin tracked \cup closing
  BY Processes DEF IInv, KnownInv, StartInv, Starting
<1> QED
  BY <1>1, <1>2, <1>3 DEF Phase

\* The same sessions are being started before and after a step.
SameStarts == \A s \in Sessions : Starting(s)' <=> Starting(s)

\* A step of one thread that is inside start_session before and after it, or
\* neither before nor after.
LEMMA SameStartsOf ==
    ASSUME NEW t \in Threads,
           \A u \in Threads \ {t} : pc'[u] = pc[u] /\ arg'[u] = arg[u],
           \/ pc[t] \notin StartSteps /\ pc'[t] \notin StartSteps
           \/ pc[t] \in StartSteps /\ pc'[t] \in StartSteps /\ arg'[t] = arg[t]
    PROVE  SameStarts
BY DEF SameStarts, Starting

\* The phases follow from the registry and the starts under way.
LEMMA PhaseKept ==
    ASSUME UNCHANGED reg, SameStarts, NEW s \in Sessions
    PROVE  Phase(s)' = Phase(s)
BY DEF reg, SameStarts, Phase

Phases    == [s \in Sessions |-> Phase(s)]
Debuggers == {s \in Sessions : ctl[s]}

\* A step that moves nothing a client of the directory sees.
LEMMA Unseen ==
    ASSUME UNCHANGED reg, SameStarts, UNCHANGED <<ctl, abandoned>>
    PROVE  UNCHANGED Directory!vars
<1>1. Phases' = Phases
  BY PhaseKept DEF Phases
<1> QED
  BY <1>1 DEF Directory!vars, Phases

\* A step in which at most the controller of one session is dropped.
LEMMA DropIsEnd ==
    ASSUME IInv, UNCHANGED reg, SameStarts, UNCHANGED abandoned, NEW s \in Sessions,
           ctl' = [ctl EXCEPT ![s] = FALSE]
    PROVE  Directory!DebuggerEnds(s)
<1>1. Phases' = Phases
  BY PhaseKept DEF Phases
<1>2. Debuggers' = Debuggers \ {s}
  BY DEF IInv, TypeOK, Debuggers
<1> QED
  BY <1>1, <1>2 DEF Directory!DebuggerEnds, Phases, Debuggers

\* The sessions that move between open, closing and gone in one step.
LEMMA RegistryMoves ==
    ASSUME IInv, IInv', UNCHANGED <<nextId, ctl, abandoned>>, SameStarts,
           NEW D \in SUBSET Sessions, D \subseteq tracked \cup closing,
           \A s \in Sessions \ D : /\ s \in tracked' <=> s \in tracked
                                   /\ s \in closing' <=> s \in closing,
           \A s \in D : s \in tracked' \cup closing' \/ ~ctl[s] \/ s \in abandoned
    PROVE  Directory!Move(D)
<1>1. ASSUME NEW s \in D
      PROVE  Phase(s) \in {"open", "closing"}
  BY PhaseIs
<1>2. ASSUME NEW s \in Sessions \ D
      PROVE  Phase(s)' = Phase(s)
  BY DEF Phase, SameStarts
<1>3. ASSUME NEW s \in D
      PROVE  /\ Phase(s)' \in {"open", "closing", "gone"}
             /\ Phase(s)' = "gone" => ~ctl[s] \/ s \in abandoned
  <2>1. s < nextId' /\ ~Starting(s)' /\ s \in Sessions /\ nextId' \in Int /\ s \in Int
    BY Ids DEF IInv, TypeOK, KnownInv, StartInv, Starting, SameStarts
  <2> QED
    BY <2>1 DEF Phase
<1>4. Phases' \in [Sessions -> {"unused", "starting", "open", "closing", "gone"}]
  BY <1>2, <1>3, PhaseIs DEF Phases
<1>5. \A s \in Sessions \ D : Phases'[s] = Phases[s]
  BY <1>2 DEF Phases
<1>6. \A s \in D : /\ Phases[s] \in {"open", "closing"}
                   /\ Phases'[s] \in {"open", "closing", "gone"}
                   /\ Phases'[s] = "gone" => s \notin Debuggers \/ s \in abandoned
  BY <1>1, <1>3 DEF Phases, Debuggers
<1>7. Debuggers' = Debuggers
  BY DEF Debuggers
<1> QED
  BY <1>4, <1>5, <1>6, <1>7 DEF Directory!Move, Directory!In, Directory!Sessions, Sessions, Phases, Debuggers

\* The steps of start_session: an id is given, a debugger started, the session
\* published or, on an error, gone for good.
LEMMA StartSimulates ==
    ASSUME IInv, IInv', NEW t \in Threads, StartAllocate(t) \/ Start(t)
    PROVE  Directory!Next \/ UNCHANGED Directory!vars
<1> USE Processes, Ids DEF At, Goto, Done
<1>0. /\ pc \in [Procs -> {"idle"} \cup StartSteps \cup CloseSteps \cup ToolSteps
                          \cup ListSteps \cup ShutdownSteps \cup WorkerSteps]
      /\ arg \in [Procs -> 0..MaxSessions] /\ ctl \in [Sessions -> BOOLEAN]
      /\ nextId \in 1..(MaxSessions + 1)
      /\ pc[t] \in StartSteps => arg[t] \in Sessions
  BY DEF IInv, TypeOK, KnownInv, ArgSteps
<1>1. CASE StartAllocate(t)
  <2>1. PICK n \in Sessions : n = nextId
    BY <1>0, <1>1 DEF StartAllocate
  <2>2. \A r \in Sessions : Starting(r)' <=> Starting(r) \/ r = n
    BY <1>0, <1>1, <2>1 DEF StartAllocate, Starting, StartSteps
  <2>3. Phase(n) = "unused" /\ \A r \in 1..(n - 1) : Phase(r) # "unused"
    BY <1>0, <2>1 DEF Phase
  <2>4. n \notin tracked \cup closing
    BY <2>1 DEF IInv, KnownInv
  <2>5. Phase(n)' = "starting"
    BY <1>0, <1>1, <2>1, <2>2, <2>4 DEF StartAllocate, Phase
  <2>6. \A r \in Sessions \ {n} : Phase(r)' = Phase(r)
    BY <1>0, <1>1, <2>1, <2>2 DEF StartAllocate, Phase
  <2>7. Phases' = [Phases EXCEPT ![n] = "starting"]
    BY <2>1, <2>5, <2>6 DEF Phases
  <2>8. Directory!Allocate(n)
    BY <1>0, <1>1, <2>1, <2>3, <2>7 DEF StartAllocate, Directory!Allocate, Directory!In, Phases, Debuggers
  <2> QED
    BY <2>1, <2>8 DEF Directory!Next, Directory!Sessions, Sessions
<1>2. CASE StartError(t) /\ pc[t] \in StartSteps
  <2>0. PICK s \in Sessions : s = arg[t]
    BY <1>0, <1>2
  <2>1. \A r \in Sessions : Starting(r)' <=> Starting(r) /\ r # s
    BY <2>0, <1>0, <1>2 DEF StartError, Starting, StartSteps, IInv, StartInv
  <2>2. Starting(s) /\ s \notin tracked \cup closing /\ s < nextId
    BY <2>0, <1>0, <1>2 DEF Starting, IInv, StartInv, KnownInv
  <2>3. Phase(s) = "starting" /\ Phase(s)' = "gone"
    BY <2>0, <1>0, <1>2, <2>1, <2>2 DEF StartError, Phase, reg
  <2>4. \A r \in Sessions \ {s} : Phase(r)' = Phase(r)
    BY <2>0, <1>2, <2>1 DEF StartError, Phase, reg
  <2>5. Phases' = [Phases EXCEPT ![s] = "gone"]
    BY <2>0, <1>0, <1>2, <2>3, <2>4 DEF Phases
  <2>6. Debuggers' = Debuggers \ {s}
    BY <2>0, <1>0, <1>2 DEF StartError, Terminated, Debuggers
  <2>7. Directory!FailStart(s)
    BY <2>0, <1>0, <1>2, <2>3, <2>5, <2>6
       DEF StartError, Directory!FailStart, Directory!In, Phases, Debuggers
  <2> QED
    BY <2>0, <1>0, <1>2, <2>7 DEF Directory!Next, Directory!Sessions, Sessions
<1>3. CASE StartOpen(t) /\ ~StartError(t)
  <2>0. PICK s \in Sessions : s = arg[t]
    BY <1>0, <1>3 DEF StartOpen, StartSteps
  <2>1. SameStarts /\ UNCHANGED reg /\ Starting(s)
    BY <2>0, <1>0, <1>3, SameStartsOf DEF StartOpen, StartSteps, Starting
  <2>2. Phases' = Phases /\ Phase(s) = "starting"
    BY <2>0, <2>1, PhaseKept, PhaseIs DEF Phases
  <2>3. Debuggers' = Debuggers \cup {s}
    BY <2>0, <1>0, <1>3, <2>1 DEF StartOpen, Debuggers
  <2>4. Directory!DebuggerStarts(s)
    BY <2>0, <1>3, <2>1, <2>2, <2>3
       DEF StartOpen, Directory!DebuggerStarts, Directory!In, Phases, Debuggers
  <2> QED
    BY <2>0, <2>1, <2>4 DEF Directory!Next, Directory!Sessions, Sessions
<1>4. CASE StartConfirm(t) \/ StartProbe(t) \/ (StartCommands(t) /\ ~StartError(t))
  <2>0. PICK s \in Sessions : s = arg[t]
    BY <1>0, <1>4 DEF StartConfirm, StartProbe, StartCommands, StartSteps
  <2>1. /\ SameStarts /\ UNCHANGED reg /\ UNCHANGED abandoned
    BY <2>0, <1>0, <1>4, SameStartsOf DEF StartConfirm, StartProbe, StartCommands, StartSteps
  <2>2. ctl' = ctl \/ ctl' = [ctl EXCEPT ![s] = FALSE]
    <3>1. CASE StartConfirm(t)
      BY <2>0, <2>1, <3>1, RunCommandType DEF StartConfirm, IInv
    <3>2. CASE StartProbe(t)
      BY <2>0, <1>0, <2>1, <3>2 DEF StartProbe
    <3>3. CASE StartCommands(t) /\ ~StartError(t)
      BY <2>0, <3>3 DEF StartCommands, sess
    <3> QED
      BY <2>0, <1>4, <3>1, <3>2, <3>3
  <2>3. UNCHANGED Directory!vars \/ Directory!DebuggerEnds(s)
    BY <2>0, <2>1, <2>2, Unseen, DropIsEnd
  <2> QED
    BY <2>0, <2>1, <2>3 DEF Directory!Next, Directory!Sessions, Sessions
<1>5. CASE StartPublish(t)
  <2>0. PICK s \in Sessions : s = arg[t]
    BY <1>0, <1>5 DEF StartPublish, StartSteps
  <2>1. pc[t] \in StartSteps
    BY <2>0, <1>0, <1>5 DEF StartPublish, StartSteps
  <2>2. \A r \in Sessions : Starting(r)' <=> Starting(r) /\ r # s
    BY <2>0, <1>0, <1>5, <2>1 DEF StartPublish, Starting, StartSteps, IInv, StartInv
  <2>3. Starting(s) /\ s \notin tracked \cup closing /\ s < nextId
    BY <2>0, <2>1 DEF Starting, IInv, StartInv, KnownInv
  <2>4. Phase(s) = "starting" /\ Phase(s)' = "open"
    BY <2>0, <1>0, <1>5, <2>1, <2>2, <2>3 DEF StartPublish, Phase
  <2>5. \A r \in Sessions \ {s} : Phase(r)' = Phase(r)
    BY <2>0, <1>5, <2>2 DEF StartPublish, Phase
  <2>6. Phases' = [Phases EXCEPT ![s] = "open"]
    BY <2>0, <2>1, <2>4, <2>5 DEF Phases
  <2>7. Directory!Publish(s)
    BY <2>0, <1>5, <2>1, <2>4, <2>6
       DEF StartPublish, sess, Directory!Publish, Directory!In, Phases, Debuggers
  <2> QED
    BY <2>0, <2>1, <2>7 DEF Directory!Next, Directory!Sessions, Sessions
<1> QED
  BY <1>1, <1>2, <1>3, <1>4, <1>5 DEF Start, StartOpen, StartCommands, StartSteps

\* The steps of close_session: the session becomes closing, comes back, or goes
\* when its debugger has ended.
LEMMA CloseSimulates ==
    ASSUME IInv, IInv', NEW t \in Threads, Close(t) \/ \E s \in Sessions : CloseFlag(t, s)
    PROVE  Directory!Next \/ UNCHANGED Directory!vars
<1> USE Processes DEF At, Goto, Done
<1>0. /\ pc \in [Procs -> {"idle"} \cup StartSteps \cup CloseSteps \cup ToolSteps
                          \cup ListSteps \cup ShutdownSteps \cup WorkerSteps]
      /\ arg \in [Procs -> 0..MaxSessions] /\ ctl \in [Sessions -> BOOLEAN]
      /\ tracked \subseteq Sessions /\ closing \subseteq Sessions
      /\ pc[t] \in CloseSteps => arg[t] \in Sessions
  BY DEF IInv, TypeOK, KnownInv, ArgSteps
<1>1. SameStarts
  <2>1. /\ \A u \in Threads \ {t} : pc'[u] = pc[u] /\ arg'[u] = arg[u]
        /\ pc[t] \notin StartSteps /\ pc'[t] \notin StartSteps
    BY <1>0 DEF Close, CloseFlag, CloseCheck, CloseRunning, CloseLock, CloseStop, CloseExit, CloseMark,
        CloseRelease, CloseRemove, CloseUnflag, StopEnter, StopExit, StopMark, StartSteps
  <2> QED
    BY <2>1, SameStartsOf
<1>2. ASSUME NEW s \in Sessions, CloseFlag(t, s)
      PROVE  Directory!Next
  <2>1. {s} \in SUBSET Sessions /\ Directory!Move({s})
    BY <1>0, <1>1, <1>2, RegistryMoves DEF CloseFlag, sess
  <2> QED
    BY <2>1 DEF Directory!Next, Directory!Sessions, Sessions
<1>3. CASE CloseRemove(t) \/ CloseUnflag(t)
  <2>0. PICK D \in SUBSET Sessions : D = {arg[t]} \cap (tracked \cup closing)
    BY <1>0
  <2>1. pc[t] \in CloseSteps /\ ~ctl[arg[t]]
    BY <1>3 DEF CloseRemove, CloseUnflag, CloseSteps, IInv, GoneInv, GoneSteps
  <2>2. Directory!Move(D)
    BY <1>0, <1>1, <1>3, <2>0, <2>1, RegistryMoves DEF CloseRemove, CloseUnflag, sess
  <2> QED
    BY <1>0, <2>2 DEF Directory!Next, Directory!Sessions, Sessions
<1>4. CASE CloseExit(t)
  <2>0. PICK s \in Sessions : s = arg[t]
    BY <1>0, <1>4 DEF CloseExit, CloseSteps
  <2>1. UNCHANGED reg /\ UNCHANGED abandoned /\ ctl' = [ctl EXCEPT ![s] = FALSE]
    BY <1>0, <1>4, <2>0 DEF CloseExit, StopExit, Exit
  <2>2. Directory!DebuggerEnds(s)
    BY <1>1, <2>1, DropIsEnd
  <2> QED
    BY <2>1, <2>2 DEF Directory!Next, Directory!Sessions, Sessions
<1>5. CASE CloseCheck(t) \/ CloseRunning(t) \/ CloseLock(t) \/ CloseStop(t) \/ CloseMark(t)
           \/ CloseRelease(t)
  <2>1. UNCHANGED reg /\ UNCHANGED <<ctl, abandoned>>
    BY <1>5 DEF CloseCheck, CloseRunning, CloseLock, CloseStop, CloseMark, CloseRelease, StopEnter,
        StopMark, sess
  <2> QED
    BY <1>1, <2>1, Unseen
<1> QED
  BY <1>2, <1>3, <1>4, <1>5 DEF Close

\* Tool calls and summaries: at most they find that a debugger has ended.
LEMMA UseSimulates ==
    ASSUME IInv, NEW t \in Threads,
           Tool(t) \/ List(t) \/ ListSnapshot(t) \/ \E s \in Sessions : ToolResolve(t, s)
    PROVE  Directory!Next \/ UNCHANGED Directory!vars
<1> USE Processes DEF At, Goto, Done
<1>0. /\ pc \in [Procs -> {"idle"} \cup StartSteps \cup CloseSteps \cup ToolSteps
                          \cup ListSteps \cup ShutdownSteps \cup WorkerSteps]
      /\ arg \in [Procs -> 0..MaxSessions] /\ TypeOK
      /\ pc[t] \in {"t_execute", "l_status"} => arg[t] \in Sessions
  BY DEF IInv, TypeOK, KnownInv, ArgSteps, ToolSteps
<1>1. SameStarts
  <2>1. /\ \A u \in Threads \ {t} : pc'[u] = pc[u] /\ arg'[u] = arg[u]
        /\ pc[t] \notin StartSteps /\ pc'[t] \notin StartSteps
    BY <1>0 DEF Tool, List, ListSnapshot, ToolResolve, ToolLock, ToolExecute, ToolRelease, ListNext,
        ListLock, ListStatus, StartSteps
  <2> QED
    BY <2>1, SameStartsOf
<1>2. CASE ToolExecute(t) \/ ListStatus(t)
  <2>0. PICK s \in Sessions : s = arg[t]
    BY <1>0, <1>2 DEF ToolExecute, ListStatus
  <2>1. UNCHANGED reg /\ UNCHANGED abandoned
    BY <1>2 DEF ToolExecute, ListStatus
  <2>2. ctl' = ctl \/ ctl' = [ctl EXCEPT ![s] = FALSE]
    BY <1>0, <1>2, <2>0, RunCommandType DEF ToolExecute, ListStatus
  <2>3. UNCHANGED Directory!vars \/ Directory!DebuggerEnds(s)
    BY <1>1, <2>1, <2>2, Unseen, DropIsEnd
  <2> QED
    BY <2>1, <2>3 DEF Directory!Next, Directory!Sessions, Sessions
<1>3. CASE ~(ToolExecute(t) \/ ListStatus(t))
  <2>1. UNCHANGED reg /\ UNCHANGED <<ctl, abandoned>>
    BY <1>3 DEF Tool, List, ListSnapshot, ToolResolve, ToolLock, ToolRelease, ListNext, ListLock, sess
  <2> QED
    BY <1>1, <2>1, Unseen
<1> QED
  BY <1>2, <1>3

\* The steps of shutdown_all: every session becomes closing at once and goes at
\* the end, without a debugger or with one that was given up.
LEMMA ShutdownSimulates ==
    ASSUME IInv, IInv', NEW t \in Threads, Shutdown(t) \/ ShutdownSwap(t)
    PROVE  Directory!Next \/ UNCHANGED Directory!vars
<1> USE Processes DEF At, Goto, Done
<1>0. /\ pc \in [Procs -> {"idle"} \cup StartSteps \cup CloseSteps \cup ToolSteps
                          \cup ListSteps \cup ShutdownSteps \cup WorkerSteps]
      /\ arg \in [Procs -> 0..MaxSessions] /\ ctl \in [Sessions -> BOOLEAN]
      /\ tracked \subseteq Sessions /\ closing \subseteq Sessions
      /\ todo \in [Threads -> SUBSET Sessions]
      /\ pc[t] = "d_join" => arg[t] \in Sessions
  BY DEF IInv, TypeOK, KnownInv, ArgSteps
<1>1. SameStarts
  <2>1. todo[t] # {} => Smallest(todo[t]) \in Sessions
    BY <1>0, SmallestType
  <2>2. /\ \A u \in Threads \ {t} : pc'[u] = pc[u] /\ arg'[u] = arg[u]
        /\ pc[t] \notin StartSteps /\ pc'[t] \notin StartSteps
    BY <1>0, <2>1 DEF Shutdown, ShutdownSwap, ShutdownNext, ShutdownJoin, ShutdownJoinTimesOut,
        ShutdownClear, StartSteps
  <2> QED
    BY <2>2, SameStartsOf
<1>2. CASE ShutdownSwap(t)
  <2>1. closing \subseteq tracked
    BY <1>2 DEF ShutdownSwap, IInv, OneShutdown
  <2>0. PICK D \in SUBSET Sessions : D = tracked
    BY <1>0
  <2>2. Directory!Move(D)
    BY <1>0, <1>1, <1>2, <2>0, <2>1, RegistryMoves DEF ShutdownSwap, sess
  <2> QED
    BY <1>0, <2>2 DEF Directory!Next, Directory!Sessions, Sessions
<1>3. CASE ShutdownClear(t)
  <2>1. \A s \in closing \ tracked : ~ctl[s] \/ s \in abandoned
    BY <1>3 DEF ShutdownClear, ShutdownSteps, IInv, ShutdownInv
  <2>0. PICK D \in SUBSET Sessions : D = closing
    BY <1>0
  <2>2. Directory!Move(D)
    BY <1>0, <1>1, <1>3, <2>0, <2>1, RegistryMoves DEF ShutdownClear, sess
  <2> QED
    BY <1>0, <2>2 DEF Directory!Next, Directory!Sessions, Sessions
<1>4. CASE ShutdownJoinTimesOut(t)
  <2>0. PICK s \in Sessions : s = arg[t]
    BY <1>0, <1>4 DEF ShutdownJoinTimesOut
  <2>1. s < nextId /\ s \notin tracked /\ ~Starting(s)
    BY <1>0, <1>4, <2>0 DEF ShutdownJoinTimesOut, ShutdownSteps, StartSteps, IInv, KnownInv, ShutdownInv,
        StartInv, Starting
  <2>2. Phase(s) \in {"closing", "gone"}
    BY <2>1, PhaseIs
  <2>3. UNCHANGED reg /\ UNCHANGED ctl /\ abandoned' = abandoned \cup {s}
    BY <1>4, <2>0 DEF ShutdownJoinTimesOut, sess
  <2>4. Phases' = Phases /\ Debuggers' = Debuggers
    BY <1>1, <2>3, PhaseKept DEF Phases, Debuggers
  <2>5. Directory!GiveUp(s)
    BY <2>1, <2>2, <2>3, <2>4 DEF Directory!GiveUp, Directory!In, Phases, Debuggers
  <2> QED
    BY <2>1, <2>5 DEF Directory!Next, Directory!Sessions, Sessions
<1>5. CASE ShutdownNext(t) \/ ShutdownJoin(t)
  <2>1. UNCHANGED reg /\ UNCHANGED <<ctl, abandoned>>
    BY <1>5 DEF ShutdownNext, ShutdownJoin, sess
  <2> QED
    BY <1>1, <2>1, Unseen
<1> QED
  BY <1>2, <1>3, <1>4, <1>5 DEF Shutdown

\* The steps of the workers and of GDB: at most a debugger ends.
LEMMA WorkSimulates ==
    ASSUME IInv, NEW s \in Sessions, GdbDies(s) \/ GdbHangs(s) \/ Work(s)
    PROVE  Directory!Next \/ UNCHANGED Directory!vars
<1> USE Processes DEF At, Goto
<1>1. SameStarts
  <2>1. \A u \in Threads : pc'[u] = pc[u] /\ arg'[u] = arg[u]
    BY DEF GdbDies, GdbHangs, Work, WorkerLock, WorkerStop, WorkerExit, WorkerMark, WorkerRelease,
        StopEnter, StopExit, StopMark, IInv, TypeOK
  <2> QED
    BY <2>1 DEF SameStarts, Starting
<1>2. CASE WorkerExit(s)
  <2>1. /\ UNCHANGED reg /\ UNCHANGED abandoned /\ arg[Worker(s)] = s
        /\ ctl' = [ctl EXCEPT ![s] = FALSE]
    BY <1>2 DEF WorkerExit, StopExit, Exit, IInv, ProcInv, WorkerSteps
  <2>2. Directory!DebuggerEnds(s)
    BY <1>1, <2>1, DropIsEnd
  <2> QED
    BY <2>2 DEF Directory!Next, Directory!Sessions, Sessions
<1>3. CASE ~WorkerExit(s)
  <2>1. UNCHANGED reg /\ UNCHANGED <<ctl, abandoned>>
    BY <1>3 DEF GdbDies, GdbHangs, Work, WorkerLock, WorkerStop, WorkerMark, WorkerRelease,
        StopEnter, StopMark, sess
  <2> QED
    BY <1>1, <2>1, Unseen
<1> QED
  BY <1>2, <1>3

\* The registry with its threads, locks, workers and faults implements
\* SessionDirectory: ids are given once and in order, a session that is gone
\* stays gone, and it goes only after its debugger.
THEOREM RegistryImplementsDirectory == Spec => ImplementsDirectory
<1>1. Init => Directory!Init
  <2> SUFFICES ASSUME Init PROVE Directory!Init
    OBVIOUS
  <2>1. \A s \in Sessions : Phase(s) = "unused"
    BY Ids DEF Init, Phase
  <2> QED
    BY <2>1 DEF Init, Directory!Init, Directory!Sessions, Sessions
<1>2. IInv /\ IInv' /\ [Next]_vars => [Directory!Next]_(Directory!vars)
  <2> SUFFICES ASSUME IInv, IInv', [Next]_vars
               PROVE  Directory!Next \/ UNCHANGED Directory!vars
    OBVIOUS
  <2>1. CASE UNCHANGED vars
    BY <2>1, Unseen DEF vars, reg, SameStarts, Starting
  <2> QED
    BY <2>1, StartSimulates, CloseSimulates, UseSimulates, ShutdownSimulates, WorkSimulates DEF Next
<1> QED
  BY <1>1, <1>2, InvariantHolds, PTL DEF Spec, ImplementsDirectory, Directory!Spec
=============================================================================
