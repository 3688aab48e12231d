------------------------ MODULE SessionRuntimeProofs ------------------------
(***************************************************************************)
(* Proofs about the runtime of one session: about SessionRuntime, where    *)
(* its methods are called in any order, and about Inferiors, where it has  *)
(* to agree with GDB.  They hold for every set of inferiors, reasons, exit *)
(* codes, stop events and tools, every history limit and every bound on    *)
(* the commands given up.                                                  *)
(***************************************************************************)
EXTENDS SessionRuntime, Inferiors, RuntimeStateProofs

-----------------------------------------------------------------------------
(* SessionRuntime: the inductive invariant *)

\* The properties of the module, one fact that CountKept rests on (while a
\* start() is under way the session is not ready yet), and three about a call
\* that outlives GDB: it has no transport, its session has failed, and a
\* later start() forgets it.
RuntimeInv ==
    /\ RuntimeTypeOK /\ SelectedMirror /\ DeadSessionIsBlank /\ HistoryIsRecent
    /\ starting => self.state \in {"starting", "failed"}
    /\ self.controller => late = "no"
    /\ late = "handling" => self.state = "failed"
    /\ late = "done" => self.state \in {"failed", "ready"}

\* What a step keeps, for the invariant and for CountKept.
Kept ==
    /\ RuntimeInv'
    /\ (self.state = "ready" /\ CountCoversTracked(self)) => CountCoversTracked(self')

\* The invariant in terms of the facts about single runtimes.
LEMMA RuntimeInvParts ==
    RuntimeInv <=> /\ Sound(self) /\ Recent(self) /\ starting \in BOOLEAN
                   /\ late \in {"no", "handling", "done"}
                   /\ self.state \in {"failed", "stopped"} => ~self.is_running /\ ~self.controller
                   /\ self.state = "failed" /\ late = "no" => Blank(self)
                   /\ self.state = "stopped" => Blank(self)
                   /\ starting => self.state \in {"starting", "failed"}
                   /\ self.controller => late = "no"
                   /\ late = "handling" => self.state = "failed"
                   /\ late = "done" => self.state \in {"failed", "ready"}
BY DEF RuntimeInv, RuntimeTypeOK, SelectedMirror, DeadSessionIsBlank, HistoryIsRecent, Sound,
       Recent, Blank

\* The same for the next state.
LEMMA RuntimeInvPartsNext ==
    RuntimeInv' <=> /\ Sound(self') /\ Recent(self') /\ starting' \in BOOLEAN
                    /\ late' \in {"no", "handling", "done"}
                    /\ self'.state \in {"failed", "stopped"} => ~self'.is_running /\ ~self'.controller
                    /\ self'.state = "failed" /\ late' = "no" => Blank(self')
                    /\ self'.state = "stopped" => Blank(self')
                    /\ starting' => self'.state \in {"starting", "failed"}
                    /\ self'.controller => late' = "no"
                    /\ late' = "handling" => self'.state = "failed"
                    /\ late' = "done" => self'.state \in {"failed", "ready"}
BY DEF RuntimeInv, RuntimeTypeOK, SelectedMirror, DeadSessionIsBlank, HistoryIsRecent, Sound,
       Recent, Blank

\* A new runtime satisfies the invariant.
LEMMA RuntimeInitInvariant == RuntimeInit => RuntimeInv
BY InitialSound, RuntimeInvParts DEF RuntimeInit, InitialRuntime

\* An update that leaves the session itself alone, on a live transport or by
\* a call that outlived it.
LEMMA UpdateKeeps ==
    ASSUME RuntimeInv, self.controller \/ late = "handling",
           Sound(self'), Recent(self'), UNCHANGED <<starting, late>>,
           self'.state = self.state, self'.controller = self.controller,
           self'.is_running = self.is_running,
           CountCoversTracked(self) => CountCoversTracked(self')
    PROVE  Kept
<1>1. CASE self.controller
  <2>1. self'.state \notin {"failed", "stopped"}
    BY <1>1, RuntimeInvParts
  <2> QED
    BY <1>1, <2>1, RuntimeInvParts, RuntimeInvPartsNext DEF Kept
<1>2. CASE late = "handling"
  <2>1. self'.state = "failed" /\ late' = "handling"
    BY <1>2, RuntimeInvParts
  <2> QED
    BY <1>2, <2>1, RuntimeInvParts, RuntimeInvPartsNext DEF Kept
<1> QED
  BY <1>1, <1>2

\* The same for an update that leaves the history alone too.
LEMMA LiveKeeps ==
    ASSUME RuntimeInv, self.controller \/ late = "handling",
           Sound(self'), SameSession(self, self'), UNCHANGED <<starting, late>>,
           CountCoversTracked(self) => CountCoversTracked(self')
    PROVE  Kept
<1>1. Recent(self')
  BY RuntimeInvParts DEF SameSession, Recent
<1> QED
  BY <1>1, UpdateKeeps DEF SameSession

\* The end of a session: blank, without a transport, in a final state.
LEMMA DeadKeeps ==
    ASSUME RuntimeInv, starting' \in BOOLEAN, late' = "no",
           LET r == [self EXCEPT !.controller = FALSE]
           IN  self' = MarkFailed(r) \/ (self' = MarkStopped(r) /\ ~starting')
    PROVE  Kept
<1> DEFINE r == [self EXCEPT !.controller = FALSE]
<1>1. /\ Sound(r) /\ r.controller = FALSE
      /\ r.last_stop_event = self.last_stop_event /\ r.stop_history = self.stop_history
  BY RuntimeInvParts, ControllerSet
<1>2. r \in Runtime
  BY <1>1 DEF Sound
<1>3. self' = MarkFailed(r) \/ (self' = MarkStopped(r) /\ ~starting')
  OBVIOUS
<1> HIDE DEF r
<1>4. /\ Sound(self') /\ Blank(self') /\ self'.controller = FALSE
      /\ self'.last_stop_event = self.last_stop_event /\ self'.stop_history = self.stop_history
      /\ self'.state = IF self' = MarkFailed(r) THEN "failed" ELSE "stopped"
  BY <1>1, <1>2, <1>3, EndedSound
<1>5. Recent(self') /\ CountCoversTracked(self')
  BY <1>4, RuntimeInvParts DEF Recent, Blank, CountCoversTracked
<1> QED
  BY <1>3, <1>4, <1>5, RuntimeInvPartsNext DEF Kept, Blank

-----------------------------------------------------------------------------
(* SessionRuntime: one lemma per group of actions *)

\* begin_startup
LEMMA StartCalledKeeps == ASSUME RuntimeInv, StartCalled PROVE Kept
<1>1. self \in Runtime
  BY RuntimeInvParts DEF Sound
<1>2. self' = BeginStartup(self) /\ starting' = TRUE /\ late' = "no"
  BY DEF StartCalled
<1>3. /\ Sound(self') /\ Recent(self') /\ CountCoversTracked(self')
      /\ self'.state = "starting"
  BY <1>1, <1>2, BeginStartupSound
<1> QED
  BY <1>2, <1>3, RuntimeInvPartsNext DEF Kept

\* The transport of a starting session is opened.
LEMMA ControllerOpenedKeeps == ASSUME RuntimeInv, ControllerOpened PROVE Kept
<1>1. Sound(self) /\ Recent(self) /\ self.state = "starting"
  BY RuntimeInvParts DEF ControllerOpened
<1>2. self' = [self EXCEPT !.controller = TRUE] /\ starting' = starting /\ late' = late
  BY DEF ControllerOpened
<1>3. /\ Sound(self') /\ self'.state = self.state
      /\ self'.last_stop_event = self.last_stop_event /\ self'.stop_history = self.stop_history
  BY <1>1, <1>2, ControllerSet
<1>4. Recent(self')
  BY <1>1, <1>3 DEF Recent
<1> QED
  BY <1>1, <1>2, <1>3, <1>4, RuntimeInvParts, RuntimeInvPartsNext DEF Kept

\* StartFails, TransportTerminated and Stopped end the session.
LEMMA EndKeeps == ASSUME RuntimeInv, StartFails \/ TransportTerminated \/ Stopped PROVE Kept
<1>1. starting \in BOOLEAN
  BY RuntimeInvParts
<1>2. CASE StartFails
  BY <1>2, DeadKeeps DEF StartFails
<1>3. CASE TransportTerminated
  <2>1. late' = "no"
    BY <1>3, RuntimeInvParts DEF TransportTerminated
  <2> QED
    BY <1>1, <1>3, <2>1, DeadKeeps DEF TransportTerminated, MarkTransportTerminated
<1>4. CASE Stopped
  <2>1. late' = "no"
    BY <1>4, RuntimeInvParts DEF Stopped
  <2> QED
    BY <1>1, <1>4, <2>1, DeadKeeps DEF Stopped
<1> QED
  BY <1>2, <1>3, <1>4

\* The end of a successful start(), from a live or a lost transport.
LEMMA StartSucceedsKeeps ==
    ASSUME RuntimeInv, NEW loaded \in BOOLEAN, NEW core \in BOOLEAN, StartSucceeds(loaded, core)
    PROVE  Kept
<1> DEFINE a == [self EXCEPT !.target_loaded = loaded]
           b == CASE a.execution_state = "unknown" /\ core ->
                        MarkInferiorPaused(a, None, "core-file")
                  [] a.execution_state = "unknown" /\ ~core /\ loaded ->
                        MarkInferiorNotStarted(a, None)
                  [] OTHER -> a
<1>1. Sound(self) /\ Recent(self) /\ starting /\ self.state # "ready"
  BY RuntimeInvParts DEF StartSucceeds
<1>2. a \in Runtime
  BY <1>1 DEF Sound, Runtime
<1>3. SameSession(self, a) /\ SelectedMirrorsTracked(a)
  <2>1. /\ SameSession(self, a)
        /\ a.current_inferior_id = self.current_inferior_id
        /\ a.inferior_states = self.inferior_states
        /\ a.execution_state = self.execution_state
        /\ a.stop_reason = self.stop_reason /\ a.exit_code = self.exit_code
    BY <1>1 DEF Sound, Runtime, SameSession
  <2> QED
    BY <1>1, <2>1 DEF Sound, SelectedMirrorsTracked, Tracked
<1>4. self' = MarkReady(b) /\ starting' = FALSE /\ late' = late /\ late # "handling"
  BY DEF StartSucceeds
<1> HIDE DEF a
<1>5. Sound(b) /\ SameSession(self, b)
  <2>1. \A q \in {MarkInferiorPaused(a, None, "core-file"), MarkInferiorNotStarted(a, None)} :
           Sound(q) /\ SameSession(a, q)
    BY <1>2, <1>3, MarksSound, SelectionAssumption DEF OwnReasons
  <2> QED
    BY <1>2, <1>3, <2>1 DEF Sound, SameSession
<1> HIDE DEF b
<1>6. /\ Sound(self') /\ self'.state = "ready" /\ self'.controller = self.controller
      /\ self'.last_stop_event = b.last_stop_event /\ self'.stop_history = b.stop_history
  BY <1>4, <1>5, MarkReadySound DEF Sound, SameSession
<1>7. Recent(self')
  BY <1>1, <1>5, <1>6 DEF Recent, SameSession
<1> QED
  BY <1>1, <1>4, <1>6, <1>7, RuntimeInvParts, RuntimeInvPartsNext DEF Kept

\* Group notifications, ^running, selection and inventory.
LEMMA InventoryKeeps ==
    ASSUME RuntimeInv,
           \/ \E id \in Ids : \/ GroupAdded(id) \/ GroupStarted(id) \/ GroupRemoved(id)
                              \/ \E code \in ExitCodes \cup {None} : GroupExited(id, code)
                              \/ InferiorSelected(id)
           \/ RunningReported
           \/ \E ids \in SUBSET Ids, id \in Ids \cup {None} : InventoryRefreshed(id, ids)
    PROVE  Kept
<1>1. /\ self \in Runtime /\ SelectedMirrorsTracked(self)
      /\ self.current_inferior_id \in Ids \cup {None}
  BY RuntimeInvParts, RuntimeFields DEF Sound
<1>2. SUFFICES /\ self.controller \/ late = "handling"
               /\ UNCHANGED <<starting, late>>
               /\ Sound(self') /\ SameSession(self, self')
               /\ CountCoversTracked(self) => CountCoversTracked(self')
  BY LiveKeeps
<1>3. ASSUME NEW id \in Ids, GroupAdded(id)
      PROVE  /\ self.controller \/ late = "handling"
             /\ UNCHANGED <<starting, late>>
             /\ Sound(self') /\ SameSession(self, self')
             /\ CountCoversTracked(self')
  BY <1>1, <1>3, EnsureInferiorSound DEF GroupAdded, GoesOn, Sound
<1>4. ASSUME NEW id \in Ids, GroupStarted(id)
      PROVE  /\ self.controller \/ late = "handling"
             /\ UNCHANGED <<starting, late>>
             /\ Sound(self') /\ SameSession(self, self')
             /\ CountCoversTracked(self')
  BY <1>1, <1>4, MarksSound DEF GroupStarted, Live
<1>5. ASSUME NEW id \in Ids, GroupRemoved(id)
      PROVE  /\ self.controller \/ late = "handling"
             /\ UNCHANGED <<starting, late>>
             /\ Sound(self') /\ SameSession(self, self')
             /\ CountCoversTracked(self) => CountCoversTracked(self')
  BY <1>1, <1>5, RemoveInferiorSound DEF GroupRemoved, Live
<1>6. ASSUME NEW id \in Ids, NEW code \in ExitCodes \cup {None}, GroupExited(id, code)
      PROVE  /\ self.controller \/ late = "handling"
             /\ UNCHANGED <<starting, late>>
             /\ Sound(self') /\ SameSession(self, self')
             /\ CountCoversTracked(self')
  <2>1. "thread-group-exited" \in Reasons \cup {None}
    BY SelectionAssumption DEF OwnReasons
  <2>2. /\ self.controller \/ late = "handling"
        /\ UNCHANGED <<starting, late>>
        /\ self' = MarkInferiorExited(self, id, "thread-group-exited", code)
    BY <1>6 DEF GroupExited, Live
  <2> QED
    BY <1>1, <2>1, <2>2, MarksSound
<1>7. ASSUME NEW id \in Ids, InferiorSelected(id)
      PROVE  /\ self.controller \/ late = "handling"
             /\ UNCHANGED <<starting, late>>
             /\ Sound(self') /\ SameSession(self, self')
             /\ CountCoversTracked(self')
  BY <1>1, <1>7, MarkInferiorSelectedSound DEF InferiorSelected, GoesOn
<1>8. ASSUME RunningReported
      PROVE  /\ self.controller \/ late = "handling"
             /\ UNCHANGED <<starting, late>>
             /\ Sound(self') /\ SameSession(self, self')
             /\ CountCoversTracked(self')
  BY <1>1, <1>8, MarksSound DEF RunningReported, GoesOn
<1>9. ASSUME NEW ids \in SUBSET Ids, NEW id \in Ids \cup {None}, InventoryRefreshed(id, ids)
      PROVE  /\ self.controller \/ late = "handling"
             /\ UNCHANGED <<starting, late>>
             /\ Sound(self') /\ SameSession(self, self')
             /\ CountCoversTracked(self')
  BY <1>1, <1>9, UpdateInferiorInventorySound DEF InventoryRefreshed, GoesOn
<1> QED
  BY <1>3, <1>4, <1>5, <1>6, <1>7, <1>8, <1>9

\* Stack selection, detach and fork settings touch neither the session nor
\* its inferiors.
LEMMA DetailKeeps ==
    ASSUME RuntimeInv,
           \/ \E thread \in Threads : StackSelected(thread)
           \/ Detached
           \/ \E mode \in {"parent", "child", None} : FollowForkModeSet(mode)
           \/ \E detach \in BOOLEAN \cup {None} : DetachOnForkSet(detach)
    PROVE  Kept
<1>1. Sound(self) /\ self \in Runtime
  BY RuntimeInvParts DEF Sound
<1>2. SUFFICES /\ self.controller \/ late = "handling"
               /\ UNCHANGED <<starting, late>>
               /\ self' \in Runtime /\ SameSession(self, self') /\ SameInferiors(self, self')
  BY <1>1, LiveKeeps, SameInferiorsSound
<1>3. ASSUME NEW thread \in Threads, StackSelected(thread)
      PROVE  /\ self.controller \/ late = "handling"
             /\ UNCHANGED <<starting, late>>
             /\ self' \in Runtime /\ SameSession(self, self') /\ SameInferiors(self, self')
  <2>1. /\ self' = [self EXCEPT !.current_thread_id = thread, !.current_frame = 0]
        /\ self.controller \/ late = "handling"
        /\ UNCHANGED <<starting, late>>
    BY <1>3 DEF StackSelected, GoesOn
  <2>2. thread \in Nat
    BY SelectionAssumption
  <2>3. self' \in Runtime
    BY <1>1, <2>1, <2>2 DEF Runtime
  <2>4. SameSession(self, self') /\ SameInferiors(self, self')
    BY <1>1, <2>1 DEF Runtime, SameSession, SameInferiors
  <2> QED
    BY <2>1, <2>3, <2>4
<1>4. ASSUME Detached
      PROVE  /\ self.controller \/ late = "handling"
             /\ UNCHANGED <<starting, late>>
             /\ self' \in Runtime /\ SameSession(self, self') /\ SameInferiors(self, self')
  <2>1. /\ self' = [self EXCEPT !.attached_pid = None]
        /\ self.controller \/ late = "handling"
        /\ UNCHANGED <<starting, late>>
    BY <1>4 DEF Detached, GoesOn
  <2>2. self' \in Runtime
    BY <1>1, <2>1 DEF Runtime
  <2>3. SameSession(self, self') /\ SameInferiors(self, self')
    BY <1>1, <2>1 DEF Runtime, SameSession, SameInferiors
  <2> QED
    BY <2>1, <2>2, <2>3
<1>5. ASSUME NEW mode \in {"parent", "child", None}, FollowForkModeSet(mode)
      PROVE  /\ self.controller \/ late = "handling"
             /\ UNCHANGED <<starting, late>>
             /\ self' \in Runtime /\ SameSession(self, self') /\ SameInferiors(self, self')
  <2>1. /\ self' = [self EXCEPT !.follow_fork_mode = mode]
        /\ self.controller \/ late = "handling"
        /\ UNCHANGED <<starting, late>>
    BY <1>5 DEF FollowForkModeSet, GoesOn
  <2>2. self' \in Runtime
    BY <1>1, <2>1 DEF Runtime
  <2>3. SameSession(self, self') /\ SameInferiors(self, self')
    BY <1>1, <2>1 DEF Runtime, SameSession, SameInferiors
  <2> QED
    BY <2>1, <2>2, <2>3
<1>6. ASSUME NEW detach \in BOOLEAN \cup {None}, DetachOnForkSet(detach)
      PROVE  /\ self.controller \/ late = "handling"
             /\ UNCHANGED <<starting, late>>
             /\ self' \in Runtime /\ SameSession(self, self') /\ SameInferiors(self, self')
  <2>1. /\ self' = [self EXCEPT !.detach_on_fork = detach]
        /\ self.controller \/ late = "handling"
        /\ UNCHANGED <<starting, late>>
    BY <1>6 DEF DetachOnForkSet, GoesOn
  <2>2. self' \in Runtime
    BY <1>1, <2>1 DEF Runtime
  <2>3. SameSession(self, self') /\ SameInferiors(self, self')
    BY <1>1, <2>1 DEF Runtime, SameSession, SameInferiors
  <2> QED
    BY <2>1, <2>2, <2>3
<1> QED
  BY <1>3, <1>4, <1>5, <1>6

\* file, core-file and attach set target fields, then perhaps a state.
LEMMA TargetKeeps ==
    ASSUME RuntimeInv,
           \/ \E core \in BOOLEAN : TargetLoaded(core)
           \/ \E pid \in Pids \cup {None} : Attached(pid)
    PROVE  Kept
<1> DEFINE A(pid) == [self EXCEPT !.target_loaded = TRUE, !.attached_pid = pid]
<1>1. Sound(self) /\ self \in Runtime
  BY RuntimeInvParts DEF Sound
<1>2. ASSUME NEW pid \in Nat \cup {None}
      PROVE  /\ Sound(A(pid)) /\ A(pid) \in Runtime /\ SameSession(self, A(pid))
             /\ A(pid).current_inferior_id \in Ids \cup {None}
             /\ CountCoversTracked(self) => CountCoversTracked(A(pid))
  <2>1. A(pid) \in Runtime
    BY ZenonT(60), <1>1 DEF Runtime
  <2>2. SameSession(self, A(pid)) /\ SameInferiors(self, A(pid))
    BY <1>1 DEF Runtime, SameSession, SameInferiors
  <2> HIDE DEF A
  <2> QED
    BY <1>1, <2>1, <2>2, SameInferiorsSound, RuntimeFields
<1>3. ASSUME NEW core \in BOOLEAN, TargetLoaded(core) PROVE Kept
  <2> DEFINE a == A(None)
             c == a.current_inferior_id
  <2>1. /\ self.controller \/ late = "handling"
        /\ UNCHANGED <<starting, late>>
        /\ self' \in {a, MarkInferiorPaused(a, c, "core-file"), MarkInferiorNotStarted(a, c)}
    BY <1>3 DEF TargetLoaded, GoesOn
  <2>2. /\ a \in Runtime /\ Sound(a) /\ SameSession(self, a) /\ c \in Ids \cup {None}
        /\ CountCoversTracked(self) => CountCoversTracked(a)
    BY <1>2
  <2> HIDE DEF a, A
  <2>3. \A q \in {MarkInferiorPaused(a, c, "core-file"), MarkInferiorNotStarted(a, c)} :
           Sound(q) /\ SameSession(a, q) /\ CountCoversTracked(q)
    BY <2>2, MarksSound, SelectionAssumption DEF Sound, OwnReasons
  <2>4. /\ Sound(self') /\ SameSession(self, self')
        /\ CountCoversTracked(self) => CountCoversTracked(self')
    BY <2>1, <2>2, <2>3 DEF SameSession
  <2> QED
    BY <2>1, <2>4, LiveKeeps
<1>4. ASSUME NEW pid \in Pids \cup {None}, Attached(pid) PROVE Kept
  <2> DEFINE known == IF pid = None THEN self.attached_pid ELSE pid
             a == A(known)
             c == a.current_inferior_id
  <2>1. /\ self.controller \/ late = "handling"
        /\ UNCHANGED <<starting, late>>
        /\ self' \in {a, MarkInferiorPaused(a, c, "attached")}
    BY <1>4 DEF Attached, GoesOn
  <2>2. /\ a \in Runtime /\ Sound(a) /\ SameSession(self, a) /\ c \in Ids \cup {None}
        /\ CountCoversTracked(self) => CountCoversTracked(a)
    <3>1. known \in Nat \cup {None}
      BY <1>1, SelectionAssumption DEF Runtime
    <3> QED
      BY <1>2, <3>1
  <2> HIDE DEF a, A
  <2>3. LET q == MarkInferiorPaused(a, c, "attached") IN
           Sound(q) /\ SameSession(a, q) /\ CountCoversTracked(q)
    BY <2>2, MarksSound, SelectionAssumption DEF Sound, OwnReasons
  <2>4. /\ Sound(self') /\ SameSession(self, self')
        /\ CountCoversTracked(self) => CountCoversTracked(self')
    BY <2>1, <2>2, <2>3 DEF SameSession
  <2> QED
    BY <2>1, <2>4, LiveKeeps
<1> QED
  BY <1>3, <1>4

\* The two runtimes are in the same state of the session's life.
SameLife(r, q) ==
    q.state = r.state /\ q.controller = r.controller /\ q.is_running = r.is_running

\* What a stopped notification does to any runtime: stack selection, state,
\* history.
LEMMA AfterStopSound ==
    ASSUME NEW r, Sound(r), NEW id \in Ids \cup {None}, NEW thread \in Threads \cup {None},
           NEW reason \in Reasons, NEW code \in ExitCodes \cup {None}, NEW event \in StopEvents,
           NEW q, q = AfterStop(r, id, thread, reason, code, event)
    PROVE  /\ Sound(q) /\ Recent(q) /\ CountCoversTracked(q) /\ SameLife(r, q)
<1> DEFINE stopped == IF id = None THEN r.current_inferior_id ELSE id
           th == IF thread = None THEN r.current_thread_id ELSE thread
           fr == IF thread = None THEN r.current_frame ELSE 0
           a == [r EXCEPT !.current_thread_id = th, !.current_frame = fr]
           b == IF reason \in ExitReasons
                THEN MarkInferiorExited(a, stopped, reason, code)
                ELSE MarkInferiorPaused(a, stopped, reason)
<1>1. r \in Runtime
  BY DEF Sound
<1>2. q = RecordStopEvent(b, event)
  BY DEF AfterStop
<1>3. /\ th \in Nat \cup {None} /\ fr \in Nat \cup {None}
      /\ stopped \in Ids \cup {None}
  BY <1>1, SelectionAssumption DEF Runtime
<1> HIDE DEF th, fr, stopped
<1>4. a \in Runtime
  BY ZenonT(60), <1>1, <1>3 DEF Runtime
<1>5. SameSession(r, a) /\ SameInferiors(r, a)
  BY <1>1 DEF Runtime, SameSession, SameInferiors
<1> HIDE DEF a
<1>6. Sound(a)
  BY <1>1, <1>4, <1>5, SameInferiorsSound
<1>7. Sound(b) /\ SameSession(a, b) /\ CountCoversTracked(b)
  BY <1>3, <1>4, <1>6, MarksSound DEF Sound
<1> HIDE DEF b
<1>8. /\ Sound(q) /\ Recent(q) /\ SameInferiors(b, q)
      /\ q.state = b.state /\ q.controller = b.controller /\ q.is_running = b.is_running
  BY <1>2, <1>7, RecordStopEventSound
<1>9. CountCoversTracked(q)
  BY <1>7, <1>8 DEF SameInferiors, CountCoversTracked, Tracked
<1> QED
  BY <1>5, <1>7, <1>8, <1>9 DEF SameSession, SameLife

\* A stop, on a live transport or by a call that outlived it.
LEMMA StopReportedKeeps ==
    ASSUME RuntimeInv, NEW id \in Ids \cup {None}, NEW thread \in Threads \cup {None},
           NEW reason \in Reasons, NEW code \in ExitCodes \cup {None}, NEW event \in StopEvents,
           StopReported(id, thread, reason, code, event)
    PROVE  Kept
<1> DEFINE q == AfterStop(self, id, thread, reason, code, event)
<1>1. Sound(self)
  BY RuntimeInvParts
<1>2. /\ self' = q /\ (self.controller \/ late = "handling")
      /\ UNCHANGED <<starting, late>>
  BY DEF StopReported, GoesOn
<1>3. Sound(q) /\ Recent(q) /\ CountCoversTracked(q)
  BY <1>1, AfterStopSound
<1>4. SameLife(self, q)
  BY <1>1, AfterStopSound
<1> HIDE DEF q
<1>5. Sound(self') /\ Recent(self') /\ CountCoversTracked(self') /\ SameLife(self, self')
  BY <1>2, <1>3, <1>4
<1> QED
  BY <1>2, <1>5, UpdateKeeps DEF SameLife

\* A stop whose handler finds GDB dead before it applies it.
LEMMA StopOutlivesGdbKeeps ==
    ASSUME RuntimeInv, NEW id \in Ids \cup {None}, NEW thread \in Threads \cup {None},
           NEW reason \in Reasons, NEW code \in ExitCodes \cup {None}, NEW event \in StopEvents,
           StopOutlivesGdb(id, thread, reason, code, event)
    PROVE  Kept
<1> DEFINE c == [self EXCEPT !.controller = FALSE]
           r == MarkFailed(c)
<1>1. Sound(c) /\ c.controller = FALSE
  BY RuntimeInvParts, ControllerSet
<1>2. /\ self' = AfterStop(r, id, thread, reason, code, event)
      /\ late' = "handling" /\ starting' = starting
  BY DEF StopOutlivesGdb, MarkTransportTerminated
<1> HIDE DEF c
<1>3. Sound(r) /\ r.state = "failed" /\ r.controller = FALSE /\ ~r.is_running
  BY <1>1, EndedSound DEF Sound, Blank
<1> HIDE DEF r
<1>4. /\ Sound(self') /\ Recent(self') /\ CountCoversTracked(self')
      /\ self'.state = "failed" /\ self'.controller = FALSE /\ ~self'.is_running
  <2>1. /\ Sound(self') /\ Recent(self') /\ CountCoversTracked(self')
        /\ SameLife(r, self')
    BY <1>2, <1>3, AfterStopSound
  <2> QED
    BY <1>3, <2>1 DEF SameLife
<1> QED
  BY <1>2, <1>4, RuntimeInvParts, RuntimeInvPartsNext DEF Kept

\* The call that outlived GDB returns and changes nothing.
LEMMA CallReturnsKeeps == ASSUME RuntimeInv, CallReturns PROVE Kept
<1>1. self' = self /\ starting' = starting /\ late' = "done" /\ late = "handling"
  BY DEF CallReturns
<1> QED
  BY <1>1, RuntimeInvParts, RuntimeInvPartsNext DEF Kept

-----------------------------------------------------------------------------
(* SessionRuntime: the theorems *)

\* Every step of a session, whichever method of session/runtime.py it runs,
\* keeps the invariant and does not let the count fall behind.
LEMMA RuntimeStepKeeps == ASSUME RuntimeInv, [RuntimeNext]_runtimeVars PROVE Kept
<1>1. CASE UNCHANGED runtimeVars
  BY <1>1 DEF runtimeVars, Kept, RuntimeInv, RuntimeTypeOK, SelectedMirror, DeadSessionIsBlank,
              HistoryIsRecent
<1>2. CASE StartCalled
  BY <1>2, StartCalledKeeps
<1>3. CASE ControllerOpened
  BY <1>3, ControllerOpenedKeeps
<1>4. CASE StartFails \/ TransportTerminated \/ Stopped
  BY <1>4, EndKeeps
<1>5. CASE \E loaded, core \in BOOLEAN : StartSucceeds(loaded, core)
  BY <1>5, StartSucceedsKeeps
<1>6. CASE \/ \E id \in Ids :
                 \/ GroupAdded(id) \/ GroupStarted(id) \/ GroupRemoved(id)
                 \/ \E code \in ExitCodes \cup {None} : GroupExited(id, code)
                 \/ InferiorSelected(id)
           \/ RunningReported
           \/ \E ids \in SUBSET Ids, id \in Ids \cup {None} : InventoryRefreshed(id, ids)
  BY <1>6, InventoryKeeps
<1>7. ASSUME NEW id \in Ids \cup {None}, NEW thread \in Threads \cup {None},
             NEW reason \in Reasons \ OwnReasons, NEW event \in StopEvents,
             NEW code \in {None} \cup (IF reason \in ExitReasons THEN ExitCodes ELSE {}),
             \/ StopReported(id, thread, reason, code, event)
             \/ StopOutlivesGdb(id, thread, reason, code, event)
      PROVE  Kept
  <2>1. reason \in Reasons /\ code \in ExitCodes \cup {None}
    OBVIOUS
  <2> QED
    BY <1>7, <2>1, StopReportedKeeps, StopOutlivesGdbKeeps
<1>8. CASE \/ \E thread \in Threads : StackSelected(thread)
           \/ Detached
           \/ \E mode \in {"parent", "child", None} : FollowForkModeSet(mode)
           \/ \E detach \in BOOLEAN \cup {None} : DetachOnForkSet(detach)
  BY <1>8, DetailKeeps
<1>9. CASE \/ \E core \in BOOLEAN : TargetLoaded(core)
           \/ \E pid \in Pids \cup {None} : Attached(pid)
  BY <1>9, TargetKeeps
<1>10. CASE CallReturns
  BY <1>10, CallReturnsKeeps
<1> QED
  BY <1>1, <1>2, <1>3, <1>4, <1>5, <1>6, <1>7, <1>8, <1>9, <1>10 DEF RuntimeNext

\* The inductive invariant holds in every reachable state.
LEMMA RuntimeInvariant == RuntimeSpec => []RuntimeInv
<1>1. RuntimeInv /\ [RuntimeNext]_runtimeVars => RuntimeInv'
  BY RuntimeStepKeeps DEF Kept
<1> QED
  BY RuntimeInitInvariant, <1>1, PTL DEF RuntimeSpec

\* session/runtime.py keeps every field of the runtime in its type: an id or
\* None where an inferior is selected, a bounded kind of state, a count.
THEOREM RuntimeTypeCorrect == RuntimeSpec => []RuntimeTypeOK
BY RuntimeInvariant, PTL DEF RuntimeInv

\* Whatever order the callers use the methods of session/runtime.py in, the
\* execution state a client reads is that of the selected inferior.
THEOREM SelectedMirrorHolds == RuntimeSpec => []SelectedMirror
BY RuntimeInvariant, PTL DEF RuntimeInv

\* mark_failed, mark_transport_terminated and mark_stopped leave nothing of
\* the target behind, and no later call brings any of it back; only a stop
\* handler whose own refresh found GDB dead writes into the failed session,
\* and even that leaves it without a transport and not running.
THEOREM DeadSessionIsBlankHolds == RuntimeSpec => []DeadSessionIsBlank
BY RuntimeInvariant, PTL DEF RuntimeInv

\* record_stop_event never lets the history outgrow its limit or lose the
\* newest stop, for every limit.
THEOREM HistoryIsRecentHolds == RuntimeSpec => []HistoryIsRecent
BY RuntimeInvariant, PTL DEF RuntimeInv

\* No update of a ready session makes the inferior count fall behind the
\* inferiors it tracks.
THEOREM CountKeptHolds == RuntimeSpec => CountKept
<1>1. RuntimeInv /\ [RuntimeNext]_runtimeVars =>
        [(self.state = "ready" /\ CountCoversTracked(self))
            => CountCoversTracked(self')]_runtimeVars
  BY RuntimeStepKeeps DEF Kept
<1> QED
  BY RuntimeInvariant, <1>1, PTL DEF RuntimeSpec, CountKept

-----------------------------------------------------------------------------
(* Inferiors: what the methods do to the selection and the fork settings *)

SameForks(r, q) ==
    q.follow_fork_mode = r.follow_fork_mode /\ q.detach_on_fork = r.detach_on_fork

SameThread(r, q) == q.current_thread_id = r.current_thread_id

\* Tracking, counting and mirroring move neither.
LEMMA HelperFields ==
    ASSUME NEW r \in Runtime, NEW id \in Ids, NEW s \in InferiorRuntimeState
    PROVE  \A q \in {Track(r, id, s), Mirror(r, s), BumpCount(r)} :
              SameForks(r, q) /\ SameThread(r, q)
<1>1. SameForks(r, Track(r, id, s)) /\ SameThread(r, Track(r, id, s))
  BY DEF Track, Runtime, SameForks, SameThread
<1>2. SameForks(r, Mirror(r, s)) /\ SameThread(r, Mirror(r, s))
  BY DEF Mirror, Runtime, SameForks, SameThread
<1>3. SameForks(r, BumpCount(r)) /\ SameThread(r, BumpCount(r))
  BY DEF BumpCount, Runtime, SameForks, SameThread
<1> QED
  BY <1>1, <1>2, <1>3

\* ensure_inferior
LEMMA EnsureInferiorFields ==
    ASSUME NEW r \in Runtime, NEW id \in Ids
    PROVE  SameForks(r, EnsureInferior(r, id)) /\ SameThread(r, EnsureInferior(r, id))
<1> DEFINE t == IF id \in Tracked(r) THEN r ELSE Track(r, id, NewInferior)
<1>1. t \in Runtime /\ SameForks(r, t) /\ SameThread(r, t)
  BY NewInferiorType, TrackType, HelperFields DEF SameForks, SameThread
<1>2. EnsureInferior(r, id) = BumpCount(t)
  BY DEF EnsureInferior
<1> HIDE DEF t
<1>3. SameForks(t, BumpCount(t)) /\ SameThread(t, BumpCount(t))
  BY <1>1, NewInferiorType, HelperFields
<1> QED
  BY <1>1, <1>2, <1>3 DEF SameForks, SameThread

\* _synchronize_selected_state
LEMMA SynchronizeFields ==
    ASSUME NEW r \in Runtime
    PROVE  LET q == SynchronizeSelectedState(r) IN SameForks(r, q) /\ SameThread(r, q)
<1> DEFINE t == IF r.current_inferior_id \in Tracked(r) THEN r
                ELSE Track(r, r.current_inferior_id, NewInferior)
           q == SynchronizeSelectedState(r)
<1>1. CASE r.current_inferior_id = None
  BY <1>1, NewInferiorType, NoneIsNoId, HelperFields DEF SynchronizeSelectedState
<1>2. CASE r.current_inferior_id # None
  <2>1. r.current_inferior_id \in Ids
    BY <1>2, RuntimeFields
  <2>2. /\ t \in Runtime /\ SameForks(r, t) /\ SameThread(r, t)
        /\ t.current_inferior_id = r.current_inferior_id
        /\ t.current_inferior_id \in Tracked(t)
    <3>1. CASE r.current_inferior_id \in Tracked(r)
      BY <3>1 DEF SameForks, SameThread
    <3>2. CASE r.current_inferior_id \notin Tracked(r)
      <4>1. t = Track(r, r.current_inferior_id, NewInferior)
        BY <3>2
      <4>2. t.current_inferior_id = r.current_inferior_id
        BY <4>1 DEF Track, Runtime
      <4> QED
        BY <2>1, <4>1, <4>2, NewInferiorType, TrackType, HelperFields
    <3> QED
      BY <3>1, <3>2
  <2>3. q = Mirror(t, t.inferior_states[t.current_inferior_id])
    BY <1>2 DEF SynchronizeSelectedState
  <2> HIDE DEF t, q
  <2>4. t.inferior_states[t.current_inferior_id] \in InferiorRuntimeState
    BY <2>2, RuntimeFields
  <2>5. SameForks(t, q) /\ SameThread(t, q)
    BY <2>1, <2>2, <2>3, <2>4, HelperFields
  <2> QED
    BY <2>2, <2>5 DEF SameForks, SameThread, q
<1> QED
  BY <1>1, <1>2

\* mark_inferior_selected selects the inferior and no thread of it.
LEMMA SelectedFields ==
    ASSUME NEW r \in Runtime, NEW id \in Ids
    PROVE  LET q == MarkInferiorSelected(r, id) IN
           /\ Sound(q) /\ SameForks(r, q)
           /\ q.current_inferior_id = id /\ q.current_thread_id = None
<1> DEFINE a == [r EXCEPT !.current_inferior_id = id,
                          !.current_thread_id   = None,
                          !.current_frame       = None]
           e == EnsureInferior(a, id)
           q == MarkInferiorSelected(r, id)
<1>1. a \in Runtime
  BY ZenonT(60) DEF Runtime
<1>2. SameForks(r, a) /\ a.current_inferior_id = id /\ a.current_thread_id = None
  BY DEF Runtime, SameForks
<1>3. q = SynchronizeSelectedState(e)
  BY NoneIsNoId DEF MarkInferiorSelected
<1> HIDE DEF a
<1>4. /\ e \in Runtime /\ e.current_inferior_id = id
      /\ SameForks(a, e) /\ SameThread(a, e)
  BY <1>1, <1>2, EnsureInferiorSound, EnsureInferiorFields
<1> HIDE DEF e, q
<1>5. /\ Sound(q) /\ q.current_inferior_id = id
      /\ SameForks(e, q) /\ SameThread(e, q)
  BY <1>3, <1>4, SynchronizeSound, SynchronizeFields
<1> QED
  BY <1>2, <1>4, <1>5 DEF SameForks, SameThread, q

\* remove_inferior: the selection moves only when the selected inferior goes.
LEMMA RemovedFields ==
    ASSUME NEW r \in Runtime, NEW id \in Ids, SelectedMirrorsTracked(r)
    PROVE  LET q == RemoveInferior(r, id) IN
           /\ Sound(q) /\ SameForks(r, q)
           /\ SameThread(r, q) \/ q.current_thread_id = None
           /\ r.current_inferior_id # id =>
                 q.current_inferior_id = r.current_inferior_id /\ SameThread(r, q)
<1> DEFINE rest == Tracked(r) \ {id}
           f == [i \in rest |-> r.inferior_states[i]]
           a == [r EXCEPT !.inferior_states = f, !.inferior_count = Cardinality(rest)]
           b == IF a.current_inferior_id = id
                THEN [a EXCEPT !.current_inferior_id = MinOrNone(rest),
                               !.current_thread_id   = None,
                               !.current_frame       = None]
                ELSE a
           q == RemoveInferior(r, id)
<1>1. Sound(q)
  BY RemoveInferiorSound
<1>2. CASE id \notin Tracked(r)
  <2>1. q = r
    BY <1>2 DEF RemoveInferior
  <2> QED
    BY <1>1, <2>1 DEF SameForks, SameThread
<1>3. CASE id \in Tracked(r)
  <2>1. q = SynchronizeSelectedState(b)
    BY <1>3 DEF RemoveInferior
  <2>2. /\ rest \in SUBSET Ids
        /\ Cardinality(rest) \in Nat
        /\ f \in InferiorStates
    BY RuntimeFields, CountType, StatesType
  <2>3. MinOrNone(rest) \in Ids \cup {None}
    BY <2>2, MinOrNoneType
  <2> HIDE DEF f, rest, q
  <2>4. a \in Runtime
    BY <2>2 DEF Runtime
  <2>5. SameForks(r, a) /\ SameThread(r, a) /\ a.current_inferior_id = r.current_inferior_id
    BY DEF Runtime, SameForks, SameThread
  <2> HIDE DEF a
  <2>6. /\ b \in Runtime /\ SameForks(a, b)
        /\ SameThread(a, b) \/ b.current_thread_id = None
        /\ a.current_inferior_id # id =>
              b.current_inferior_id = a.current_inferior_id /\ SameThread(a, b)
    <3>1. CASE a.current_inferior_id = id
      <4>1. b = [a EXCEPT !.current_inferior_id = MinOrNone(rest),
                          !.current_thread_id   = None,
                          !.current_frame       = None]
        BY <3>1
      <4> HIDE DEF b
      <4>2. b \in Runtime
        BY ZenonT(60), <2>3, <2>4, <4>1 DEF Runtime
      <4>3. SameForks(a, b) /\ b.current_thread_id = None
        BY <2>4, <4>1 DEF Runtime, SameForks
      <4> QED
        BY <3>1, <4>2, <4>3
    <3>2. CASE a.current_inferior_id # id
      BY <2>4, <3>2 DEF SameForks, SameThread
    <3> QED
      BY <3>1, <3>2
  <2> HIDE DEF b
  <2>7. /\ SameForks(b, q) /\ SameThread(b, q)
        /\ q.current_inferior_id = b.current_inferior_id
    BY <2>1, <2>6, SynchronizeSound, SynchronizeFields
  <2>8. SameForks(r, q) /\ (SameThread(r, q) \/ q.current_thread_id = None)
    BY <2>5, <2>6, <2>7 DEF SameForks, SameThread
  <2>9. r.current_inferior_id # id =>
           q.current_inferior_id = r.current_inferior_id /\ SameThread(r, q)
    BY <2>5, <2>6, <2>7 DEF SameThread
  <2> QED
    BY <1>1, <2>8, <2>9 DEF q
<1> QED
  BY <1>2, <1>3

\* update_inferior_inventory with what GDB prints: the runtime tracks and
\* counts exactly the inferiors printed, and selects the one marked current.
LEMMA InventoryFields ==
    ASSUME NEW r \in Runtime, NEW ids \in SUBSET Ids, NEW current \in ids
    PROVE  LET q == UpdateInferiorInventory(r, current, ids) IN
           /\ Sound(q) /\ SameForks(r, q) /\ SameThread(r, q)
           /\ q.current_inferior_id = current
           /\ Tracked(q) = ids /\ q.inferior_count = Cardinality(ids)
<1> DEFINE f == [i \in ids |-> IF i \in Tracked(r) THEN r.inferior_states[i] ELSE NewInferior]
           b == [[r EXCEPT !.inferior_states = f] EXCEPT
                     !.current_inferior_id = current, !.inferior_count = Cardinality(ids)]
           q == UpdateInferiorInventory(r, current, ids)
<1>1. f \in InferiorStates /\ DOMAIN f = ids
  BY RuntimeFields, NewInferiorType, StatesType
<1>2. Cardinality(ids) \in Nat /\ current \in Ids /\ current # None
  BY CountType, NoneIsNoId
<1> HIDE DEF f
<1>3. b \in Runtime
  <2>1. [r EXCEPT !.inferior_states = f] \in Runtime
    BY <1>1 DEF Runtime
  <2>2. current \in Ids \cup {None} /\ Cardinality(ids) \in Nat \cup {None}
    BY <1>2
  <2> QED
    BY ZenonT(90), <2>1, <2>2 DEF Runtime
<1>4. /\ SameForks(r, b) /\ SameThread(r, b) /\ b.current_inferior_id = current
      /\ b.inferior_states = f /\ b.inferior_count = Cardinality(ids)
  BY DEF Runtime, SameForks, SameThread
<1>5. q = SynchronizeSelectedState(EnsureInferior(b, current))
  BY <1>2, <1>4 DEF UpdateInferiorInventory, f
<1> HIDE DEF b, q
<1>6. EnsureInferior(b, current) = b
  <2>1. Tracked(b) = ids
    BY <1>1, <1>4 DEF Tracked
  <2>2. EnsureInferior(b, current) = BumpCount(b)
    BY <2>1 DEF EnsureInferior
  <2>3. b.inferior_count # None /\ ~(b.inferior_count < Cardinality(Tracked(b)))
    BY <1>2, <1>4, <2>1, NoneIsNoId
  <2> QED
    BY <2>2, <2>3 DEF BumpCount
<1>7. /\ Sound(q) /\ SameForks(b, q) /\ SameThread(b, q)
      /\ q.current_inferior_id = current
      /\ q.inferior_states = f /\ q.inferior_count = Cardinality(ids)
  <2>1. b.current_inferior_id \in Tracked(b)
    BY <1>1, <1>4 DEF Tracked
  <2> QED
    BY <1>3, <1>4, <1>5, <1>6, <2>1, SynchronizeSound, SynchronizeFields
<1> QED
  BY <1>1, <1>4, <1>7 DEF SameForks, SameThread, Tracked, q

\* _update_inferior_state leaves the selection alone, if there is one.
LEMMA StateFields ==
    ASSUME NEW r \in Runtime, NEW id \in Ids, NEW s \in InferiorRuntimeState,
           SelectedMirrorsTracked(r)
    PROVE  LET q == UpdateInferiorState(r, id, s) IN
           /\ Sound(q) /\ SameForks(r, q) /\ SameThread(r, q)
           /\ q.current_inferior_id = (IF r.current_inferior_id = None THEN id
                                       ELSE r.current_inferior_id)
<1> DEFINE a == ResolveTarget(r, id)
           t == Track(a, id, s)
           b == BumpCount(t)
           q == UpdateInferiorState(r, id, s)
<1>1. id # None
  BY NoneIsNoId
<1>2. /\ a \in Runtime /\ SameForks(r, a) /\ SameThread(r, a)
      /\ a.current_inferior_id = (IF r.current_inferior_id = None THEN id
                                  ELSE r.current_inferior_id)
  <2>1. CASE r.current_inferior_id # None
    BY <2>1 DEF ResolveTarget, SameForks, SameThread
  <2>2. CASE r.current_inferior_id = None
    <3>1. a = [r EXCEPT !.current_inferior_id = id]
      BY <1>1, <2>2 DEF ResolveTarget
    <3> HIDE DEF a
    <3>2. a \in Runtime
      BY <3>1 DEF Runtime
    <3>3. SameForks(r, a) /\ SameThread(r, a) /\ a.current_inferior_id = id
      BY <3>1 DEF Runtime, SameForks, SameThread
    <3> QED
      BY <2>2, <3>2, <3>3
  <2> QED
    BY <2>1, <2>2
<1>3. q = IF id = b.current_inferior_id THEN Mirror(b, s) ELSE b
  BY <1>1 DEF UpdateInferiorState
<1>4. Sound(q)
  BY UpdateInferiorStateSound
<1> HIDE DEF a, q
<1>5. /\ t \in Runtime /\ SameForks(a, t) /\ SameThread(a, t)
      /\ t.current_inferior_id = a.current_inferior_id
  <2>1. t.current_inferior_id = a.current_inferior_id
    BY <1>2 DEF Track, Runtime
  <2> QED
    BY <1>2, <2>1, TrackType, HelperFields
<1> HIDE DEF t
<1>6. /\ b \in Runtime /\ SameForks(t, b) /\ SameThread(t, b)
      /\ b.current_inferior_id = t.current_inferior_id
  BY <1>5, BumpCountSound, HelperFields
<1> HIDE DEF b
<1>7. /\ SameForks(b, q) /\ SameThread(b, q)
      /\ q.current_inferior_id = b.current_inferior_id
  <2>1. CASE id = b.current_inferior_id
    BY <1>3, <1>6, <2>1, MirrorType, HelperFields
  <2>2. CASE id # b.current_inferior_id
    BY <1>3, <2>2 DEF SameForks, SameThread
  <2> QED
    BY <2>1, <2>2
<1> QED
  BY <1>2, <1>4, <1>5, <1>6, <1>7 DEF SameForks, SameThread, q

\* _refresh_inferior_inventory: the number of lines is the count.
LEMMA RefreshedFields ==
    ASSUME NEW r \in Runtime, NEW older \in Text, NEW ids \in SUBSET Ids, NEW current \in ids,
           NEW p, p = Parsed(older, ids, current), NEW q, q = Refreshed(r, p)
    PROVE  /\ p.count \in Nat /\ p.current = current
           /\ Sound(q) /\ SameForks(r, q) /\ SameThread(r, q)
           /\ q.current_inferior_id = current
           /\ older = NoText => /\ p.count = Cardinality(ids)
                                /\ Tracked(q) = ids /\ q.inferior_count = Cardinality(ids)
<1> DEFINE u == UpdateInferiorInventory(r, p.current, p.ids)
<1>1. /\ p.ids = older.ids \cup ids /\ p.current = current
      /\ p.count = older.lines + Cardinality(ids)
  BY DEF Parsed
<1>2. older.ids \in SUBSET Ids /\ older.lines \in Nat
  BY DEF Text
<1>3. Cardinality(ids) \in Nat /\ p.count \in Nat
  BY <1>1, <1>2, CountType
<1>4. /\ Sound(u) /\ SameForks(r, u) /\ SameThread(r, u)
      /\ u.current_inferior_id = current
      /\ Tracked(u) = p.ids /\ u.inferior_count = Cardinality(p.ids)
  <2>1. PICK known \in SUBSET Ids : known = p.ids /\ current \in known
    BY <1>1, <1>2
  <2>2. u = UpdateInferiorInventory(r, current, known)
    BY <1>1, <2>1
  <2> HIDE DEF u
  <2>3. /\ Sound(u) /\ SameForks(r, u) /\ SameThread(r, u)
        /\ u.current_inferior_id = current
        /\ Tracked(u) = known /\ u.inferior_count = Cardinality(known)
    BY <2>1, <2>2, InventoryFields, SMTT(40)
  <2> QED
    BY <2>1, <2>3
<1>5. q = [u EXCEPT !.inferior_count = IF p.count > @ THEN p.count ELSE @]
  BY DEF Refreshed
<1> HIDE DEF u
<1>6. u \in Runtime /\ SelectedMirrorsTracked(u)
  BY <1>4 DEF Sound
<1>7. Cardinality(p.ids) \in Nat
  BY <1>1, <1>2, CountType
<1>8. PICK n \in Nat : /\ q = [u EXCEPT !.inferior_count = n]
                       /\ n = IF p.count > Cardinality(p.ids) THEN p.count ELSE Cardinality(p.ids)
  <2> DEFINE m == IF p.count > Cardinality(p.ids) THEN p.count ELSE Cardinality(p.ids)
  <2>1. q = [u EXCEPT !.inferior_count = m]
    BY <1>4, <1>5, Zenon
  <2>2. m \in Nat
    BY <1>3, <1>7
  <2> QED
    BY <2>1, <2>2
<1>9. q \in Runtime
  BY <1>6, <1>8 DEF Runtime
<1>10. /\ SameForks(u, q) /\ SameThread(u, q)
       /\ q.current_inferior_id = u.current_inferior_id
       /\ q.inferior_states = u.inferior_states /\ q.inferior_count = n
       /\ q.execution_state = u.execution_state
       /\ q.stop_reason = u.stop_reason /\ q.exit_code = u.exit_code
  BY <1>6, <1>8 DEF Runtime, SameForks, SameThread
<1>11. Sound(q)
  BY <1>6, <1>9, <1>10 DEF Sound, SelectedMirrorsTracked, Tracked
<1>12. SameForks(r, q) /\ SameThread(r, q) /\ q.current_inferior_id = current
  BY <1>4, <1>10 DEF SameForks, SameThread
<1>13. ASSUME older = NoText
       PROVE  /\ p.count = Cardinality(ids)
              /\ Tracked(q) = ids /\ q.inferior_count = Cardinality(ids)
  <2>1. older.ids = {} /\ older.lines = 0
    BY <1>13 DEF NoText
  <2>2. p.ids = ids /\ p.count = Cardinality(ids)
    BY <1>1, <1>3, <2>1
  <2>3. n = Cardinality(ids)
    BY <1>3, <1>8, <2>2
  <2> QED
    BY <1>4, <1>10, <2>2, <2>3 DEF Tracked
<1> QED
  BY <1>1, <1>3, <1>11, <1>12, <1>13

\* The fork settings and the thread are no part of what is shown.
LEMMA DetailFields ==
    ASSUME NEW r, Sound(r)
    PROVE  /\ \A i \in Ids :
                 LET q == [r EXCEPT !.current_thread_id = i]
                 IN  /\ Sound(q) /\ SameForks(r, q)
                     /\ q.current_inferior_id = r.current_inferior_id /\ q.current_thread_id = i
           /\ \A mode \in Modes :
                 LET q == [r EXCEPT !.follow_fork_mode = mode]
                 IN  /\ Sound(q) /\ SameThread(r, q)
                     /\ q.current_inferior_id = r.current_inferior_id
                     /\ q.follow_fork_mode = mode /\ q.detach_on_fork = r.detach_on_fork
           /\ \A b \in BOOLEAN :
                 LET q == [r EXCEPT !.detach_on_fork = b]
                 IN  /\ Sound(q) /\ SameThread(r, q)
                     /\ q.current_inferior_id = r.current_inferior_id
                     /\ q.follow_fork_mode = r.follow_fork_mode /\ q.detach_on_fork = b
<1>1. r \in Runtime /\ Ids \subseteq Nat /\ Modes = {"parent", "child"}
  BY IdsAssumption DEF Sound, Modes
<1>2. ASSUME NEW i \in Ids
      PROVE  LET q == [r EXCEPT !.current_thread_id = i]
             IN  /\ Sound(q) /\ SameForks(r, q)
                 /\ q.current_inferior_id = r.current_inferior_id /\ q.current_thread_id = i
  <2> DEFINE q == [r EXCEPT !.current_thread_id = i]
  <2>1. i \in Nat
    BY <1>1
  <2>2. SameInferiors(r, q) /\ SameForks(r, q) /\ q.current_thread_id = i
    BY <1>1 DEF Runtime, SameInferiors, SameForks
  <2>3. q \in Runtime
    BY ZenonT(40), <1>1, <2>1 DEF Runtime
  <2> HIDE DEF q
  <2>4. Sound(q)
    BY <2>2, <2>3, SameInferiorsSound
  <2> QED
    BY <2>2, <2>4 DEF SameInferiors, q
<1>3. ASSUME NEW mode \in Modes
      PROVE  LET q == [r EXCEPT !.follow_fork_mode = mode]
             IN  /\ Sound(q) /\ SameThread(r, q)
                 /\ q.current_inferior_id = r.current_inferior_id
                 /\ q.follow_fork_mode = mode /\ q.detach_on_fork = r.detach_on_fork
  <2> DEFINE q == [r EXCEPT !.follow_fork_mode = mode]
  <2>1. mode \in {"parent", "child", None}
    BY <1>1
  <2>2. /\ SameInferiors(r, q) /\ SameThread(r, q)
        /\ q.follow_fork_mode = mode /\ q.detach_on_fork = r.detach_on_fork
    BY <1>1 DEF Runtime, SameInferiors, SameThread
  <2>3. q \in Runtime
    BY ZenonT(40), <1>1, <2>1 DEF Runtime
  <2> HIDE DEF q
  <2>4. Sound(q)
    BY <2>2, <2>3, SameInferiorsSound
  <2> QED
    BY <2>2, <2>4 DEF SameInferiors, q
<1>4. ASSUME NEW b \in BOOLEAN
      PROVE  LET q == [r EXCEPT !.detach_on_fork = b]
             IN  /\ Sound(q) /\ SameThread(r, q)
                 /\ q.current_inferior_id = r.current_inferior_id
                 /\ q.follow_fork_mode = r.follow_fork_mode /\ q.detach_on_fork = b
  <2> DEFINE q == [r EXCEPT !.detach_on_fork = b]
  <2>2. /\ SameInferiors(r, q) /\ SameThread(r, q)
        /\ q.follow_fork_mode = r.follow_fork_mode /\ q.detach_on_fork = b
    BY <1>1 DEF Runtime, SameInferiors, SameThread
  <2>3. q \in Runtime
    BY ZenonT(40), <1>1 DEF Runtime
  <2> HIDE DEF q
  <2>4. Sound(q)
    BY <2>2, <2>3, SameInferiorsSound
  <2> QED
    BY <2>2, <2>4 DEF SameInferiors, q
<1> QED
  BY <1>2, <1>3, <1>4

\* A stop or a start that is reported leaves the selection alone, if there is one.
LEMMA MarkFields ==
    ASSUME NEW r, Sound(r), NEW i \in Ids
    PROVE  \A q \in {MarkInferiorPaused(r, i, "stop"), MarkInferiorRunning(r, i),
                     MarkInferiorNotStarted(r, i)} :
              /\ Sound(q) /\ SameForks(r, q) /\ SameThread(r, q)
              /\ q.current_inferior_id = (IF r.current_inferior_id = None THEN i
                                          ELSE r.current_inferior_id)
<1>1. r \in Runtime /\ SelectedMirrorsTracked(r)
  BY DEF Sound
<1>2. /\ InState("paused", "stop", None) \in InferiorRuntimeState
      /\ InState("running", None, None) \in InferiorRuntimeState
      /\ InState("not_started", None, None) \in InferiorRuntimeState
  BY InferiorsAssumption DEF InState, InferiorRuntimeState, ExecutionState
<1> QED
  BY <1>1, <1>2, StateFields
  DEF MarkInferiorPaused, MarkInferiorRunning, MarkInferiorNotStarted

\* mark_ready selects inferior 1 and the settings GDB starts with, unless some
\* are known.
LEMMA ReadyFields ==
    ASSUME NEW r \in Runtime
    PROVE  LET q == MarkReady(r) IN
           /\ SameThread(r, q)
           /\ q.current_inferior_id = (IF r.current_inferior_id = None THEN 1
                                       ELSE r.current_inferior_id)
           /\ q.follow_fork_mode = (IF r.follow_fork_mode = None THEN "parent"
                                    ELSE r.follow_fork_mode)
           /\ q.detach_on_fork = (IF r.detach_on_fork = None THEN TRUE ELSE r.detach_on_fork)
<1> DEFINE c == IF r.current_inferior_id = None THEN 1 ELSE r.current_inferior_id
           n == IF r.inferior_count = None THEN 1 ELSE r.inferior_count
           a == [r EXCEPT !.state = "ready", !.is_running = TRUE,
                          !.current_inferior_id = c, !.inferior_count = n]
           i == InState(a.execution_state, a.stop_reason, a.exit_code)
           b == IF a.current_inferior_id \in Tracked(a) THEN a
                ELSE Track(a, a.current_inferior_id, i)
           y == SynchronizeSelectedState(b)
           m == IF y.follow_fork_mode = None THEN "parent" ELSE y.follow_fork_mode
           d == IF y.detach_on_fork = None THEN TRUE ELSE y.detach_on_fork
           q == MarkReady(r)
<1>1. q = [y EXCEPT !.follow_fork_mode = m, !.detach_on_fork = d]
  BY DEF MarkReady, InState
<1>2. c \in Ids /\ n \in Nat
  BY RuntimeFields, NoneIsNoId
<1> HIDE DEF n, q
<1>3. a \in Runtime /\ a.current_inferior_id = c /\ SameForks(r, a) /\ SameThread(r, a)
  <2> HIDE DEF c
  <2>1. c \in Ids \cup {None} /\ n \in Nat \cup {None} /\ "ready" \in SessionState
    BY <1>2 DEF SessionState
  <2>2. a \in Runtime
    BY ZenonT(90), <2>1 DEF Runtime
  <2> QED
    BY <1>2, <2>2 DEF Runtime, SameForks, SameThread
<1> HIDE DEF c, a
<1>4. i \in InferiorRuntimeState
  BY <1>3, RuntimeFields
<1> HIDE DEF i
<1>5. b \in Runtime /\ b.current_inferior_id = c /\ SameForks(a, b) /\ SameThread(a, b)
  <2>1. CASE a.current_inferior_id \in Tracked(a)
    BY <1>3, <2>1 DEF SameForks, SameThread
  <2>2. CASE a.current_inferior_id \notin Tracked(a)
    <3>1. b = Track(a, c, i)
      BY <1>3, <2>2
    <3> HIDE DEF b
    <3>2. b.current_inferior_id = c
      BY <1>3, <3>1 DEF Track, Runtime
    <3> QED
      BY <1>2, <1>3, <1>4, <3>1, <3>2, TrackType, HelperFields
  <2> QED
    BY <2>1, <2>2
<1> HIDE DEF b
<1>6. /\ y \in Runtime /\ y.current_inferior_id = c /\ SameForks(b, y) /\ SameThread(b, y)
  BY <1>5, SynchronizeSound, SynchronizeFields DEF Sound
<1> HIDE DEF y
<1>7. /\ SameThread(y, q) /\ q.current_inferior_id = y.current_inferior_id
      /\ q.follow_fork_mode = m /\ q.detach_on_fork = d
  BY <1>1, <1>6 DEF Runtime, SameThread
<1>8. y.follow_fork_mode = r.follow_fork_mode /\ y.detach_on_fork = r.detach_on_fork
  BY <1>3, <1>5, <1>6 DEF SameForks
<1> QED
  BY <1>3, <1>5, <1>6, <1>7, <1>8 DEF SameThread, c, q

-----------------------------------------------------------------------------
(* Inferiors: the inductive invariant *)

\* The runtime that is shown, and the one it becomes by what is unread.
Both == {rt, heard}

\* The command the call waits for at each of its steps.
Awaited(c) ==
    /\ c.mine
    /\ \/ op.pc = "add" /\ op.request.tool = "add" /\ c.name = "add"
       \/ /\ op.pc = "select" /\ op.request.tool \in {"add", "select"} /\ c.name = "inferior"
          /\ op.request.tool = "add" => c.id = op.id
       \/ op.pc = "exec" /\ op.request.tool = "add" /\ c.name = "exec"
       \/ /\ op.pc = "restore" /\ op.request.tool = "add" /\ c.name = "inferior"
          /\ c.id = op.previous
       \/ op.pc = "remove" /\ op.request.tool = "remove" /\ c.name = "remove"
       \/ op.pc = "refresh" /\ c.name = "info"
          /\ op.request.tool \in {"add", "remove", "select", "list"}
       \/ op.pc = "set" /\ op.request.tool \in {"follow", "detach"} /\ c.name = op.request.tool

\* Numbers are given out once, and commands that name an inferior name one.
TypesInv ==
    /\ TypeOK
    /\ \A i \in gdb.ids : i < next
    /\ \A k \in DOMAIN queue : queue[k].name \in {"inferior", "remove"} => queue[k].id \in Ids
    /\ \A r \in Both : SelectedMirrorsTracked(r)

\* All commands but the last have been given up; the last is waited for by
\* the call in progress, if there is one.  Success comes last.
QueueInv ==
    /\ \A k \in DOMAIN queue : queue[k].mine => k = Len(queue) /\ Waiting
    /\ Waiting => queue # << >> /\ Awaited(queue[Len(queue)])
    /\ op.status # "none" <=> op.pc = "returned"
    /\ op.status = "success" => queue = << >>

\* Given-up command c sets what `name' sets, and to what.
Sets(c, name) == c.name = name /\ ~c.mine
Value(c, name) ==
    IF name = "follow" THEN c.mode ELSE IF name = "detach" THEN c.enabled ELSE c.id

\* Once the commands of q that were given up are executed, what is g now is v.
Settles(q, name, g, v) ==
    \/ \E k \in DOMAIN q : /\ Sets(q[k], name) /\ Value(q[k], name) = v
                           /\ \A m \in DOMAIN q : Sets(q[m], name) => m <= k
    \/ g = v /\ \A k \in DOMAIN q : ~Sets(q[k], name)

ForkInv ==
    \A r \in Both : /\ Settles(queue, "follow", gdb.follow, r.follow_fork_mode)
                    /\ Settles(queue, "detach", gdb.detach, r.detach_on_fork)

\* An inferior that was removed does not come back.
Gone(e) == e < next /\ e \notin gdb.ids

\* The inferior that GDB ends up in is the runtime's, or it is gone.
KnownInv ==
    /\ told => \E e \in Ids : /\ Settles(queue, "inferior", gdb.current, e)
                              /\ \A r \in Both : r.current_inferior_id = e \/ Gone(e)
    /\ heard.current_inferior_id = rt.current_inferior_id
          \/ (rt.current_inferior_id # None /\ Gone(rt.current_inferior_id))

\* The thread the runtime shows once all is read is GDB's, and while the
\* runtime knows where GDB is it is the one it shows already.
ThreadInv ==
    ~strayed =>
        /\ \/ heard.current_thread_id = None
           \/ /\ heard.current_thread_id = gdb.current
              /\ \A k \in DOMAIN queue : ~Sets(queue[k], "inferior")
        /\ told => rt.current_thread_id = heard.current_thread_id

\* Where GDB is at each step of a create that began in a known inferior.
Right(o, pc, current) ==
    /\ pc \in {"select", "exec", "restore"} =>
          o.previous = o.before /\ o.id \in Ids /\ o.id # o.before
    /\ pc = "select" =>
          current = o.before /\ (o.request.executable \/ o.request.make_current)
    /\ pc = "exec" => current = o.id /\ o.request.executable
    /\ pc = "restore" => current = o.id /\ ~o.request.make_current
    /\ pc \in {"refresh", "returned"} =>
          current = (IF o.request.make_current THEN o.id ELSE o.before)

CreateInv ==
    (op.request.tool = "add" /\ op.knew /\ op.status \in {"none", "success"} /\ ~Idle) =>
        /\ op.before \in Ids
        /\ Waiting => Len(queue) = 1
        /\ op.pc = "add" => gdb.current = op.before /\ heard.current_inferior_id = op.before
        /\ Right(op, op.pc, gdb.current)

IInv == TypesInv /\ QueueInv /\ ForkInv /\ KnownInv /\ ThreadInv /\ CreateInv /\ InventoryIsTrue

-----------------------------------------------------------------------------
(* Inferiors: the queue *)

\* With nothing given up, the value is the one there is.
LEMMA SettlesNone ==
    ASSUME NEW q, NEW name, NEW g, NEW v, \A k \in DOMAIN q : ~Sets(q[k], name)
    PROVE  Settles(q, name, g, v) <=> g = v
BY DEF Settles

\* A command that is waited for, or that sets something else, changes nothing.
LEMMA SettlesAppend ==
    ASSUME NEW q \in Seq(Command), NEW c \in Command, NEW name, NEW g, NEW v, ~Sets(c, name),
           Settles(q, name, g, v)
    PROVE  Settles(Append(q, c), name, g, v)
<1>1. /\ DOMAIN Append(q, c) = 1 .. Len(q) + 1 /\ DOMAIN q = 1 .. Len(q) /\ Len(q) \in Nat
      /\ \A k \in 1 .. Len(q) : Append(q, c)[k] = q[k]
      /\ Append(q, c)[Len(q) + 1] = c
  OBVIOUS
<1> DEFINE p == Append(q, c)
<1> HIDE DEF p
<1>2. \A m \in DOMAIN p : Sets(p[m], name) => m \in DOMAIN q /\ p[m] = q[m]
  BY <1>1 DEF p
<1>3. \A m \in DOMAIN q : m \in DOMAIN p /\ p[m] = q[m]
  BY <1>1 DEF p
<1>4. CASE g = v /\ \A k \in DOMAIN q : ~Sets(q[k], name)
  BY <1>2, <1>4 DEF Settles, p
<1>5. ASSUME NEW k \in DOMAIN q, Sets(q[k], name), Value(q[k], name) = v,
             \A m \in DOMAIN q : Sets(q[m], name) => m <= k
      PROVE  Settles(p, name, g, v)
  BY <1>2, <1>3, <1>5 DEF Settles
<1> QED
  BY <1>4, <1>5 DEF Settles, p

\* Executing the first command brings its value about; it may be the last word.
LEMMA SettlesTail ==
    ASSUME NEW q \in Seq(Command), q # << >>, NEW name, NEW g, NEW v, Settles(q, name, g, v)
    PROVE  Settles(Tail(q), name, IF Sets(Head(q), name) THEN Value(Head(q), name) ELSE g, v)
<1> DEFINE t == Tail(q)
           h == IF Sets(Head(q), name) THEN Value(Head(q), name) ELSE g
<1>1. /\ DOMAIN q = 1 .. Len(q) /\ DOMAIN t = 1 .. (Len(q) - 1) /\ Len(q) \in Nat /\ Len(q) >= 1
      /\ \A k \in DOMAIN t : t[k] = q[k + 1]
      /\ Head(q) = q[1]
  OBVIOUS
<1> HIDE DEF t, h
<1>2. \A m \in DOMAIN t : m + 1 \in DOMAIN q
  BY <1>1
<1>3. \A k \in DOMAIN q : k # 1 => k - 1 \in DOMAIN t /\ t[k - 1] = q[k]
  BY <1>1
<1>4. CASE g = v /\ \A k \in DOMAIN q : ~Sets(q[k], name)
  <2>1. 1 \in DOMAIN q
    BY <1>1
  <2>2. h = g
    BY <1>1, <1>4, <2>1 DEF h
  <2>3. \A m \in DOMAIN t : ~Sets(t[m], name)
    BY <1>1, <1>2, <1>4
  <2> QED
    BY <1>4, <2>2, <2>3 DEF Settles, t, h
<1>5. ASSUME NEW k \in DOMAIN q, Sets(q[k], name), Value(q[k], name) = v,
             \A m \in DOMAIN q : Sets(q[m], name) => m <= k
      PROVE  Settles(t, name, h, v)
  <2>1. CASE k = 1
    <3>1. h = v
      BY <1>1, <1>5, <2>1 DEF h
    <3>2. \A m \in DOMAIN t : ~Sets(t[m], name)
      <4> SUFFICES ASSUME NEW m \in DOMAIN t, Sets(t[m], name) PROVE FALSE
        OBVIOUS
      <4>1. m + 1 \in DOMAIN q /\ Sets(q[m + 1], name) /\ m >= 1 /\ m \in Nat
        BY <1>1, <1>2
      <4> QED
        BY <1>5, <2>1, <4>1
    <3> QED
      BY <3>1, <3>2 DEF Settles
  <2>2. CASE k # 1
    <3>1. k - 1 \in DOMAIN t /\ t[k - 1] = q[k] /\ k \in Nat
      BY <1>1, <1>3, <2>2
    <3>2. ASSUME NEW m \in DOMAIN t, Sets(t[m], name) PROVE m <= k - 1
      <4>1. m + 1 \in DOMAIN q /\ Sets(q[m + 1], name) /\ m \in Nat
        BY <1>1, <1>2, <3>2
      <4>2. m + 1 <= k
        BY <1>5, <4>1
      <4> QED
        BY <3>1, <4>1, <4>2
    <3>3. /\ Sets(t[k - 1], name) /\ Value(t[k - 1], name) = v
          /\ \A m \in DOMAIN t : Sets(t[m], name) => m <= k - 1
      BY <1>5, <3>1, <3>2
    <3> QED
      BY <3>1, <3>3 DEF Settles
  <2> QED
    BY <2>1, <2>2
<1> QED
  BY <1>4, <1>5 DEF Settles, t, h

\* Giving up the command waited for makes it the last word on what it sets.
LEMMA SettlesAbandon ==
    ASSUME NEW q \in Seq(Command), q # << >>, NEW name, NEW g, NEW v,
           \A k \in DOMAIN q : q[k].mine <=> k = Len(q),
           q[Len(q)].name = name \/ Settles(q, name, g, v)
    PROVE  LET c == q[Len(q)] IN
           /\ Abandon(q) \in Seq(Command) /\ Abandon(q) # << >>
           /\ \A k \in DOMAIN Abandon(q) : ~Abandon(q)[k].mine
           /\ \A k \in DOMAIN Abandon(q) : /\ Abandon(q)[k].name = q[k].name
                                            /\ Abandon(q)[k].id = q[k].id
           /\ Settles(Abandon(q), name, g, IF c.name = name THEN Value(c, name) ELSE v)
<1> DEFINE a == Abandon(q)
           n == Len(q)
           w == IF q[n].name = name THEN Value(q[n], name) ELSE v
<1>1. n \in Nat /\ n >= 1 /\ DOMAIN q = 1 .. n /\ n \in DOMAIN q
  OBVIOUS
<1>2. \A k \in DOMAIN q : q[k] \in Command
  OBVIOUS
<1>3. \A k \in DOMAIN q :
         /\ [q[k] EXCEPT !.mine = FALSE] \in Command
         /\ [q[k] EXCEPT !.mine = FALSE].mine = FALSE
         /\ [q[k] EXCEPT !.mine = FALSE].name = q[k].name
         /\ Value([q[k] EXCEPT !.mine = FALSE], name) = Value(q[k], name)
         /\ [q[k] EXCEPT !.mine = FALSE].id = q[k].id
  BY <1>2 DEF Command, Value
<1>4. a = [k \in 1 .. n |-> [q[k] EXCEPT !.mine = FALSE]]
  BY <1>1 DEF Abandon
<1>5. a \in Seq(Command) /\ a # << >> /\ DOMAIN a = DOMAIN q
  <2>1. \A k \in 1 .. n : [q[k] EXCEPT !.mine = FALSE] \in Command
    BY <1>1, <1>3
  <2>2. a \in [1 .. n -> Command]
    BY <1>4, <2>1
  <2> HIDE DEF a, n
  <2>3. a \in Seq(Command)
    BY <1>1, <2>2, SMT
  <2>4. DOMAIN a = 1 .. n
    BY <2>2
  <2> QED
    BY <1>1, <2>3, <2>4
<1>6. \A k \in DOMAIN a :
         /\ ~a[k].mine /\ a[k].name = q[k].name /\ a[k].id = q[k].id
         /\ Value(a[k], name) = Value(q[k], name)
  <2>1. ASSUME NEW k \in DOMAIN a
        PROVE  /\ ~a[k].mine /\ a[k].name = q[k].name /\ a[k].id = q[k].id
               /\ Value(a[k], name) = Value(q[k], name)
    <3>1. k \in DOMAIN q /\ a[k] = [q[k] EXCEPT !.mine = FALSE]
      BY <1>1, <1>4, <1>5
    <3> HIDE DEF a
    <3> QED
      BY <1>3, <3>1
  <2> QED
    BY <2>1
<1> HIDE DEF a, n
<1>7. Settles(a, name, g, w)
  <2>1. CASE q[n].name = name
    <3>1. Sets(a[n], name) /\ Value(a[n], name) = w
      BY <1>1, <1>5, <1>6, <2>1 DEF Sets
    <3>2. \A m \in DOMAIN a : m <= n
      BY <1>1, <1>5
    <3> QED
      BY <1>1, <1>5, <3>1, <3>2 DEF Settles
  <2>2. CASE q[n].name # name
    <3>1. \A k \in DOMAIN q : q[k].mine <=> k = n
      BY DEF n
    <3>2. \A k \in DOMAIN a : Sets(a[k], name) <=> Sets(q[k], name)
      BY <1>5, <1>6, <2>2, <3>1 DEF Sets
    <3>3. w = v /\ Settles(q, name, g, v)
      BY <2>2 DEF n
    <3> HIDE DEF w
    <3> QED
      BY <1>5, <1>6, <3>2, <3>3 DEF Settles
  <2> QED
    BY <2>1, <2>2
<1> QED
  BY <1>5, <1>6, <1>7 DEF a, n

-----------------------------------------------------------------------------
(* Inferiors: what the invariant says when nothing that was given up matters *)

\* Nothing in the queue was given up that sets anything.
Clean(q) == \A k \in DOMAIN q, name \in {"follow", "detach", "inferior"} : ~Sets(q[k], name)

\* Runtime r shows GDB's settings, and its inferior if the runtime was told.
Shows(r) ==
    /\ r.follow_fork_mode = gdb.follow /\ r.detach_on_fork = gdb.detach
    /\ told => r.current_inferior_id = gdb.current

\* Its thread is GDB's too, unless it strayed.
Agrees(r) ==
    /\ Shows(r)
    /\ strayed \/ r.current_thread_id \in {None, gdb.current}

\* With a clean queue the runtime agrees with GDB, and so it will when what is
\* unread has been read.
LEMMA CleanAgrees ==
    ASSUME IInv, Clean(queue)
    PROVE  /\ Agrees(heard) /\ Shows(rt)
           /\ told /\ ~strayed => rt.current_thread_id = heard.current_thread_id
           /\ rt.current_inferior_id = gdb.current => heard.current_inferior_id = gdb.current
<1>1. gdb.current \in gdb.ids
  BY DEF IInv, TypesInv, TypeOK
<1>2. ~Gone(gdb.current)
  BY <1>1 DEF Gone
<1>3. ASSUME NEW r \in Both PROVE Shows(r)
  <2>1. r.follow_fork_mode = gdb.follow /\ r.detach_on_fork = gdb.detach
    <3>1. /\ Settles(queue, "follow", gdb.follow, r.follow_fork_mode)
          /\ Settles(queue, "detach", gdb.detach, r.detach_on_fork)
      BY <1>3 DEF IInv, ForkInv
    <3> QED
      BY <3>1, SettlesNone DEF Clean
  <2>2. ASSUME told PROVE r.current_inferior_id = gdb.current
    <3>1. PICK e \in Ids : /\ Settles(queue, "inferior", gdb.current, e)
                           /\ \A s \in Both : s.current_inferior_id = e \/ Gone(e)
      BY <2>2 DEF IInv, KnownInv
    <3>2. e = gdb.current
      BY <3>1, SettlesNone DEF Clean
    <3> QED
      BY <1>2, <1>3, <3>1, <3>2
  <2> QED
    BY <2>1, <2>2 DEF Shows
<1>4. rt.current_inferior_id = gdb.current => heard.current_inferior_id = gdb.current
  BY <1>2 DEF IInv, KnownInv
<1>5. /\ strayed \/ heard.current_thread_id \in {None, gdb.current}
      /\ told /\ ~strayed => rt.current_thread_id = heard.current_thread_id
  BY DEF IInv, ThreadInv
<1> QED
  BY <1>3, <1>4, <1>5 DEF Both, Agrees

\* A step that leaves a clean queue, nothing unread and a runtime that agrees
\* with GDB re-establishes what the invariant says of the runtime.
LEMMA CleanKeeps ==
    ASSUME Clean(queue'), heard' = rt', Agrees(rt)', gdb'.current \in Ids
    PROVE  ForkInv' /\ KnownInv' /\ ThreadInv'
<1>1. ForkInv'
  <2>1. rt'.follow_fork_mode = gdb'.follow /\ rt'.detach_on_fork = gdb'.detach
    BY DEF Agrees, Shows
  <2>2. /\ Settles(queue', "follow", gdb'.follow, rt'.follow_fork_mode)
        /\ Settles(queue', "detach", gdb'.detach, rt'.detach_on_fork)
    BY <2>1, SettlesNone DEF Clean
  <2> QED
    BY <2>2 DEF ForkInv, Both
<1>2. KnownInv'
  <2>1. Settles(queue', "inferior", gdb'.current, gdb'.current)
    BY SettlesNone DEF Clean
  <2> QED
    BY <2>1 DEF KnownInv, Both, Agrees, Shows
<1>3. ThreadInv'
  BY DEF ThreadInv, Agrees, Clean
<1> QED
  BY <1>1, <1>2, <1>3

\* When the command waited for is executed it is the only one left.
LEMMA HeadIsMine ==
    ASSUME IInv, queue # << >>, Head(queue).mine
    PROVE  /\ Waiting /\ Len(queue) = 1 /\ Tail(queue) = << >>
           /\ Awaited(Head(queue)) /\ Clean(queue) /\ Head(queue) \in Command
<1>1. queue \in Seq(Command)
  BY DEF IInv, TypesInv, TypeOK
<1>2. 1 \in DOMAIN queue /\ Head(queue) = queue[1] /\ Len(queue) \in Nat /\ queue[1] \in Command
  BY <1>1
<1>3. Len(queue) = 1 /\ Waiting
  BY <1>2 DEF IInv, QueueInv
<1>4. Tail(queue) = << >> /\ DOMAIN queue = {1}
  <2>1. Tail(queue) \in Seq(Command) /\ Len(Tail(queue)) = 0
    BY <1>1, <1>3
  <2>2. \A q \in Seq(Command) : Len(q) = 0 => q = << >>
    OBVIOUS
  <2>3. DOMAIN queue = {1}
    <3>1. DOMAIN queue = 1 .. 1
      BY <1>1, <1>3
    <3>2. 1 .. 1 = {1}
      OBVIOUS
    <3> QED
      BY <3>1, <3>2
  <2>4. Tail(queue) = << >>
    BY <2>1, <2>2, Zenon
  <2> QED
    BY <2>3, <2>4
<1>5. Awaited(Head(queue))
  BY <1>2, <1>3 DEF IInv, QueueInv
<1> QED
  BY <1>2, <1>3, <1>4, <1>5 DEF Clean, Sets

\* While a call waits, its command is the last and the only one not given up.
LEMMA LastIsMine ==
    ASSUME IInv, Waiting
    PROVE  /\ queue \in Seq(Command) /\ queue # << >>
           /\ Len(queue) \in DOMAIN queue /\ queue[Len(queue)] \in Command
           /\ \A k \in DOMAIN queue : queue[k].mine <=> k = Len(queue)
           /\ Awaited(queue[Len(queue)])
<1>1. queue \in Seq(Command) /\ queue # << >> /\ Awaited(queue[Len(queue)])
  BY DEF IInv, TypesInv, TypeOK, QueueInv
<1>2. Len(queue) \in DOMAIN queue /\ queue[Len(queue)] \in Command
  BY <1>1
<1>3. queue[Len(queue)].mine
  BY <1>1 DEF Awaited
<1> QED
  BY <1>1, <1>2, <1>3 DEF IInv, QueueInv

\* Once the first command is out of the way, if it was given up.
LEMMA TailKeeps ==
    ASSUME IInv, queue # << >>, ~Head(queue).mine, queue' = Tail(queue), op' = op
    PROVE  /\ QueueInv' /\ CreateInv' /\ InventoryIsTrue'
           /\ queue' \in Seq(Command)
           /\ \A k \in DOMAIN queue' : k + 1 \in DOMAIN queue /\ queue'[k] = queue[k + 1]
<1>1. queue \in Seq(Command)
  BY DEF IInv, TypesInv, TypeOK
<1>2. /\ DOMAIN queue = 1 .. Len(queue) /\ DOMAIN queue' = 1 .. (Len(queue) - 1)
      /\ Len(queue) \in Nat /\ Len(queue) >= 1 /\ Len(queue') = Len(queue) - 1
      /\ \A k \in DOMAIN queue' : queue'[k] = queue[k + 1]
      /\ Head(queue) = queue[1] /\ queue' \in Seq(Command)
  BY <1>1
<1>3. \A k \in DOMAIN queue' : k + 1 \in DOMAIN queue /\ k \in Nat
  BY <1>2
<1>4. op.status # "success"
  BY DEF IInv, QueueInv
<1>5. ASSUME Waiting
      PROVE  /\ Len(queue) > 1 /\ queue' # << >>
             /\ queue'[Len(queue')] = queue[Len(queue)]
  <2>1. queue[Len(queue)].mine
    BY <1>5, LastIsMine
  <2>2. Len(queue) > 1
    BY <1>2, <2>1
  <2>3. Len(queue') \in DOMAIN queue'
    BY <1>2, <2>2
  <2>4. queue'[Len(queue')] = queue[Len(queue')  + 1] /\ Len(queue') + 1 = Len(queue)
    BY <1>2, <2>3
  <2>5. queue' # << >>
    <3>1. Len(queue') > 0
      BY <1>2, <2>2
    <3> QED
      BY <3>1
  <2> QED
    BY <2>2, <2>4, <2>5
<1>6. QueueInv'
  <2>1. ASSUME NEW k \in DOMAIN queue', queue'[k].mine PROVE k = Len(queue') /\ Waiting
    <3>1. queue[k + 1].mine /\ k + 1 \in DOMAIN queue
      BY <1>2, <1>3, <2>1
    <3>2. k + 1 = Len(queue) /\ Waiting
      BY <3>1 DEF IInv, QueueInv
    <3> QED
      BY <1>2, <1>3, <3>2
  <2>2. Waiting => queue' # << >> /\ Awaited(queue'[Len(queue')])
    BY <1>5, LastIsMine
  <2>3. op.status # "none" <=> op.pc = "returned"
    BY DEF IInv, QueueInv
  <2> QED
    BY <1>4, <2>1, <2>2, <2>3 DEF QueueInv, Waiting, Awaited
<1>7. CreateInv'
  <2>1. (op.request.tool = "add" /\ op.knew /\ op.status \in {"none", "success"} /\ ~Idle) => FALSE
    <3>1. op.status = "none" /\ ~Idle => Waiting
      BY DEF IInv, QueueInv, Waiting, Idle
    <3> QED
      BY <1>4, <1>5, <3>1 DEF IInv, CreateInv
  <2> QED
    BY <2>1 DEF CreateInv, Idle
<1>8. InventoryIsTrue'
  BY <1>4 DEF InventoryIsTrue
<1> QED
  BY <1>2, <1>3, <1>6, <1>7, <1>8

-----------------------------------------------------------------------------
(* Inferiors: one command *)

\* GDB may execute c, as far as inferiors go.
Allowed(c) ==
    /\ c \in Command
    /\ c.name \in {"inferior", "remove"} => c.id \in gdb.ids
    /\ c.name = "add" => next \in Ids

\* The fork settings change only by the commands that say so, and the selection
\* too unless the current inferior is removed.
LEMMA EffectFields ==
    ASSUME IInv, NEW c, Allowed(c), gdb' \in Effect(c),
           next' = IF c.name = "add" THEN next + 1 ELSE next
    PROVE  /\ gdb' \in Gdb /\ gdb'.current \in gdb'.ids /\ next' \in Nat
           /\ \A i \in gdb'.ids : i < next'
           /\ \A e \in Ids : Gone(e) => e < next' /\ e \notin gdb'.ids
           /\ gdb'.follow = (IF c.name = "follow" THEN c.mode ELSE gdb.follow)
           /\ gdb'.detach = (IF c.name = "detach" THEN c.enabled ELSE gdb.detach)
           /\ ~RemovesCurrent(c) =>
                 gdb'.current = (IF c.name = "inferior" THEN c.id ELSE gdb.current)
           /\ c.name = "remove" => c.id < next' /\ c.id \notin gdb'.ids
           /\ c.name \notin {"add", "remove"} => gdb'.ids = gdb.ids
<1>1. /\ gdb \in Gdb /\ gdb.current \in gdb.ids /\ next \in Nat
      /\ \A i \in gdb.ids : i < next
      /\ Ids \subseteq Nat
  BY IdsAssumption DEF IInv, TypesInv, TypeOK
<1>2. c \in Command
  BY DEF Allowed
<1>3. CASE c.name = "add"
  <2>1. gdb' = [gdb EXCEPT !.ids = @ \cup {next}] /\ next' = next + 1 /\ next \in Ids
    BY <1>3 DEF Effect, Allowed
  <2>2. /\ gdb' \in Gdb /\ gdb'.ids = gdb.ids \cup {next}
        /\ gdb'.current = gdb.current /\ gdb'.follow = gdb.follow /\ gdb'.detach = gdb.detach
    BY <1>1, <2>1 DEF Gdb
  <2>3. \A i \in gdb'.ids : i < next'
    <3>1. gdb.ids \subseteq Nat
      BY <1>1 DEF Gdb
    <3> QED
      BY <1>1, <2>1, <2>2, <3>1
  <2>4. \A e \in Ids : Gone(e) => e < next' /\ e \notin gdb'.ids
    BY <1>1, <2>1, <2>2 DEF Gone
  <2> QED
    BY <1>1, <1>3, <2>1, <2>2, <2>3, <2>4
<1>4. CASE c.name = "remove"
  <2>1. PICK i \in (IF c.id = gdb.current THEN gdb.ids \ {c.id} ELSE {gdb.current}) :
           gdb' = [gdb EXCEPT !.ids = @ \ {c.id}, !.current = i]
    BY <1>4 DEF Effect
  <2>2. next' = next /\ c.id \in gdb.ids
    BY <1>4 DEF Allowed
  <2>3. i \in gdb.ids \ {c.id} /\ (c.id # gdb.current => i = gdb.current)
    BY <1>1, <2>1
  <2>4. /\ gdb' \in Gdb /\ gdb'.ids = gdb.ids \ {c.id}
        /\ gdb'.current = i /\ gdb'.follow = gdb.follow /\ gdb'.detach = gdb.detach
    BY <1>1, <2>1, <2>3 DEF Gdb
  <2> QED
    BY <1>1, <1>4, <2>2, <2>3, <2>4 DEF Gone, RemovesCurrent
<1>5. CASE c.name = "inferior"
  <2>1. gdb' = [gdb EXCEPT !.current = c.id] /\ next' = next /\ c.id \in gdb.ids
    BY <1>5 DEF Effect, Allowed
  <2>2. /\ gdb' \in Gdb /\ gdb'.ids = gdb.ids
        /\ gdb'.current = c.id /\ gdb'.follow = gdb.follow /\ gdb'.detach = gdb.detach
    BY <1>1, <2>1 DEF Gdb
  <2> QED
    BY <1>1, <1>5, <2>1, <2>2 DEF Gone
<1>6. CASE c.name = "follow"
  <2>1. gdb' = [gdb EXCEPT !.follow = c.mode] /\ next' = next /\ c.mode \in Modes
    BY <1>2, <1>6 DEF Effect, Command
  <2>2. /\ gdb' \in Gdb /\ gdb'.ids = gdb.ids
        /\ gdb'.current = gdb.current /\ gdb'.follow = c.mode /\ gdb'.detach = gdb.detach
    BY <1>1, <2>1 DEF Gdb
  <2> QED
    BY <1>1, <1>6, <2>1, <2>2 DEF Gone
<1>7. CASE c.name = "detach"
  <2>1. gdb' = [gdb EXCEPT !.detach = c.enabled] /\ next' = next /\ c.enabled \in BOOLEAN
    BY <1>2, <1>7 DEF Effect, Command
  <2>2. /\ gdb' \in Gdb /\ gdb'.ids = gdb.ids
        /\ gdb'.current = gdb.current /\ gdb'.follow = gdb.follow /\ gdb'.detach = c.enabled
    BY <1>1, <2>1 DEF Gdb
  <2> QED
    BY <1>1, <1>7, <2>1, <2>2 DEF Gone
<1>8. CASE c.name \in {"exec", "info"}
  <2>1. gdb' = gdb /\ next' = next
    BY <1>8 DEF Effect
  <2> QED
    BY <1>1, <1>8, <2>1 DEF Gone
<1> QED
  BY <1>2, <1>3, <1>4, <1>5, <1>6, <1>7, <1>8 DEF Command, Names

\* Notifications move the selection only with the inferior selected.
LEMMA AnnouncedFields ==
    ASSUME IInv, NEW c, Allowed(c)
    PROVE  LET q == Announced(c) IN
           /\ Sound(q) /\ SameForks(heard, q)
           /\ SameThread(heard, q) \/ q.current_thread_id = None
           /\ ~(c.name = "remove" /\ c.id = heard.current_inferior_id)
                 => q.current_inferior_id = heard.current_inferior_id /\ SameThread(heard, q)
<1>1. heard \in Runtime /\ SelectedMirrorsTracked(heard)
  BY DEF IInv, TypesInv, TypeOK, Both
<1>2. CASE c.name = "add"
  <2>1. Announced(c) = EnsureInferior(heard, next) /\ next \in Ids
    BY <1>2 DEF Announced, Allowed
  <2> QED
    BY <1>1, <1>2, <2>1, EnsureInferiorSound, EnsureInferiorFields DEF Sound
<1>3. CASE c.name = "remove"
  <2>1. Announced(c) = RemoveInferior(heard, c.id) /\ c.id \in Ids
    BY <1>3 DEF Announced, Allowed, IInv, TypesInv, TypeOK, Gdb
  <2> QED
    BY <1>1, <1>3, <2>1, RemovedFields
<1>4. CASE c.name \notin {"add", "remove"}
  <2>1. Announced(c) = heard
    BY <1>4 DEF Announced
  <2> QED
    BY <1>1, <1>4, <2>1 DEF Sound, SameForks, SameThread
<1> QED
  BY <1>2, <1>3, <1>4

\* What the server takes for the effect of a command is its effect.
LEMMA AfterCommandFields ==
    ASSUME NEW r, Sound(r), NEW c \in Command, c.name = "inferior" => c.id \in Ids
    PROVE  LET q == AfterCommand(r, c) IN
           /\ Sound(q)
           /\ q.follow_fork_mode = (IF c.name = "follow" THEN c.mode ELSE r.follow_fork_mode)
           /\ q.detach_on_fork = (IF c.name = "detach" THEN c.enabled ELSE r.detach_on_fork)
           /\ q.current_inferior_id = (IF c.name = "inferior" THEN c.id
                                       ELSE r.current_inferior_id)
           /\ q.current_thread_id = (IF c.name = "inferior" THEN None ELSE r.current_thread_id)
<1>1. r \in Runtime /\ c.mode \in Modes /\ c.enabled \in BOOLEAN /\ 1 \in Ids
  BY IdsAssumption DEF Sound, Command
<1>2. CASE c.name = "inferior"
  <2>1. AfterCommand(r, c) = MarkInferiorSelected(r, c.id)
    BY <1>2 DEF AfterCommand
  <2> QED
    BY <1>1, <1>2, <2>1, SelectedFields DEF SameForks
<1>3. CASE c.name = "follow"
  <2>1. AfterCommand(r, c) = [r EXCEPT !.follow_fork_mode = c.mode]
    BY <1>3 DEF AfterCommand
  <2> QED
    BY <1>1, <1>3, <2>1, DetailFields DEF SameThread
<1>4. CASE c.name = "detach"
  <2>1. AfterCommand(r, c) = [r EXCEPT !.detach_on_fork = c.enabled]
    BY <1>4 DEF AfterCommand
  <2> QED
    BY <1>1, <1>4, <2>1, DetailFields DEF SameThread
<1>5. CASE c.name \notin {"inferior", "follow", "detach"}
  <2>1. AfterCommand(r, c) = r
    BY <1>5 DEF AfterCommand
  <2> QED
    BY <1>5, <2>1
<1> QED
  BY <1>2, <1>3, <1>4, <1>5

-----------------------------------------------------------------------------
(* Inferiors: each action keeps the invariant *)

\* A given-up command is executed: GDB comes nearer to what the runtime shows.
LEMMA ExecutedLateKeeps ==
    ASSUME IInv, Execute, ~Head(queue).mine
    PROVE  IInv'
<1>1. PICK c : c = Head(queue)
  OBVIOUS
<1>2. /\ queue # << >> /\ ~c.mine
      /\ c.name \in {"inferior", "remove"} => c.id \in gdb.ids
      /\ c.name = "add" => next \in Ids
      /\ gdb' \in Effect(c) /\ next' = IF c.name = "add" THEN next + 1 ELSE next
      /\ heard' = Announced(c) /\ news' = (news \/ c.name \in {"add", "remove"})
      /\ text' = IF c.name = "info"
                 THEN [ids |-> text.ids \cup gdb.ids, lines |-> text.lines + Cardinality(gdb.ids)]
                 ELSE text
      /\ queue' = Tail(queue) /\ rt' = rt /\ op' = op /\ tools' = tools
      /\ told' = (told /\ ~RemovesCurrent(c))
      /\ strayed' = IF RemovesCurrent(c) THEN strayed \/ heard'.current_thread_id = c.id
                    ELSE strayed
  <2>1. strayed \in BOOLEAN
    BY DEF IInv, TypesInv, TypeOK
  <2>2. /\ queue # << >> /\ ~c.mine
        /\ c.name \in {"inferior", "remove"} => c.id \in gdb.ids
        /\ c.name = "add" => next \in Ids
        /\ gdb' \in Effect(c) /\ next' = IF c.name = "add" THEN next + 1 ELSE next
        /\ heard' = Announced(c) /\ news' = (news \/ c.name \in {"add", "remove"})
        /\ text' = IF c.name = "info"
                   THEN [ids |-> text.ids \cup gdb.ids, lines |-> text.lines + Cardinality(gdb.ids)]
                   ELSE text
        /\ queue' = Tail(queue) /\ rt' = rt /\ op' = op /\ tools' = tools
        /\ told' = (told /\ ~RemovesCurrent(c))
        /\ strayed' = IF RemovesCurrent(c) THEN strayed \/ Announced(c).current_thread_id = c.id
                      ELSE strayed /\ ~(c.mine /\ c.name = "inferior")
    BY <1>1 DEF Execute
  <2>3. strayed /\ ~(c.mine /\ c.name = "inferior") <=> strayed
    BY <2>2
  <2> QED
    BY <2>1, <2>2, <2>3
<1>3. queue \in Seq(Command) /\ c \in Command
  BY <1>1, <1>2 DEF IInv, TypesInv, TypeOK
<1>4. Allowed(c)
  BY <1>2, <1>3 DEF Allowed
<1>5. /\ gdb' \in Gdb /\ gdb'.current \in gdb'.ids /\ next' \in Nat
      /\ \A i \in gdb'.ids : i < next'
      /\ \A e \in Ids : Gone(e) => Gone(e)'
      /\ gdb'.follow = (IF c.name = "follow" THEN c.mode ELSE gdb.follow)
      /\ gdb'.detach = (IF c.name = "detach" THEN c.enabled ELSE gdb.detach)
      /\ ~RemovesCurrent(c) =>
            gdb'.current = (IF c.name = "inferior" THEN c.id ELSE gdb.current)
      /\ c.name = "remove" => Gone(c.id)'
  BY <1>2, <1>4, EffectFields DEF Gone
<1>6. /\ Sound(heard') /\ SameForks(heard, heard')
      /\ SameThread(heard, heard') \/ heard'.current_thread_id = None
      /\ ~(c.name = "remove" /\ c.id = heard.current_inferior_id)
            => heard'.current_inferior_id = heard.current_inferior_id /\ SameThread(heard, heard')
  BY <1>2, <1>4, AnnouncedFields
<1>7. /\ QueueInv' /\ CreateInv' /\ InventoryIsTrue' /\ queue' \in Seq(Command)
      /\ \A k \in DOMAIN queue' : k + 1 \in DOMAIN queue /\ queue'[k] = queue[k + 1]
  BY <1>1, <1>2, TailKeeps
<1>8. TypesInv'
  <2>1. text' \in Text
    <3>1. gdb.ids \in SUBSET Ids /\ text.ids \in SUBSET Ids /\ text.lines \in Nat
      BY DEF IInv, TypesInv, TypeOK, Gdb, Text
    <3>2. Cardinality(gdb.ids) \in Nat
      BY <3>1, CountType
    <3> QED
      BY <1>2, <3>1, <3>2 DEF Text, IInv, TypesInv, TypeOK
  <2>2. news' \in BOOLEAN /\ told' \in BOOLEAN /\ strayed' \in BOOLEAN
    BY <1>2 DEF IInv, TypesInv, TypeOK
  <2>3. TypeOK'
    BY <1>2, <1>5, <1>6, <1>7, <2>1, <2>2 DEF IInv, TypesInv, TypeOK, Sound
  <2>4. \A k \in DOMAIN queue' : queue'[k].name \in {"inferior", "remove"} => queue'[k].id \in Ids
    BY <1>7 DEF IInv, TypesInv
  <2>5. SelectedMirrorsTracked(rt') /\ SelectedMirrorsTracked(heard')
    BY <1>2, <1>6 DEF IInv, TypesInv, Sound, Both
  <2> QED
    BY <1>5, <2>3, <2>4, <2>5 DEF TypesInv, Both
<1>9. \A name, g, v : Settles(queue, name, g, v)
          => Settles(queue', name, IF c.name = name THEN Value(c, name) ELSE g, v)
  BY <1>1, <1>2, <1>3, SettlesTail DEF Sets
<1>10. ForkInv'
  <2>1. ASSUME NEW r \in Both
        PROVE  /\ Settles(queue', "follow", gdb'.follow, r.follow_fork_mode)
               /\ Settles(queue', "detach", gdb'.detach, r.detach_on_fork)
    <3>1. /\ Settles(queue, "follow", gdb.follow, r.follow_fork_mode)
          /\ Settles(queue, "detach", gdb.detach, r.detach_on_fork)
      BY <2>1 DEF IInv, ForkInv
    <3>2. /\ Value(c, "follow") = c.mode /\ Value(c, "detach") = c.enabled
      BY DEF Value
    <3> QED
      BY <1>5, <1>9, <3>1, <3>2
  <2>2. /\ heard'.follow_fork_mode = heard.follow_fork_mode
        /\ heard'.detach_on_fork = heard.detach_on_fork
    BY <1>6 DEF SameForks
  <2> QED
    BY <1>2, <2>1, <2>2 DEF ForkInv, Both
<1>11. KnownInv'
  <2>1. ASSUME told, ~RemovesCurrent(c)
        PROVE  \E e \in Ids : /\ Settles(queue', "inferior", gdb'.current, e)
                              /\ rt'.current_inferior_id = e \/ Gone(e)'
                              /\ heard'.current_inferior_id = e \/ Gone(e)'
    <3>1. PICK e \in Ids : /\ Settles(queue, "inferior", gdb.current, e)
                           /\ rt.current_inferior_id = e \/ Gone(e)
                           /\ heard.current_inferior_id = e \/ Gone(e)
      BY <2>1 DEF IInv, KnownInv, Both
    <3>2. Value(c, "inferior") = c.id
      BY DEF Value
    <3>3. Settles(queue', "inferior", gdb'.current, e)
      BY <1>5, <1>9, <2>1, <3>1, <3>2
    <3>4. rt'.current_inferior_id = e \/ Gone(e)'
      BY <1>2, <1>5, <3>1
    <3>5. heard'.current_inferior_id = e \/ Gone(e)'
      BY <1>5, <1>6, <3>1
    <3> QED
      BY <3>3, <3>4, <3>5
  <2>2. \/ heard'.current_inferior_id = rt'.current_inferior_id
        \/ rt'.current_inferior_id # None /\ Gone(rt.current_inferior_id)'
    <3>1. PICK e : e = rt.current_inferior_id
      OBVIOUS
    <3>2. e \in Ids \cup {None} /\ (c.name = "remove" => c.id \in Ids) /\ None \notin Ids
      BY <1>4, <3>1, RuntimeFields, NoneIsNoId DEF IInv, TypesInv, TypeOK, Gdb, Allowed
    <3>3. heard.current_inferior_id = e \/ (e # None /\ Gone(e))
      BY <3>1 DEF IInv, KnownInv
    <3>4. heard'.current_inferior_id = e \/ (e # None /\ Gone(e)')
      BY <1>5, <1>6, <3>2, <3>3
    <3> QED
      BY <1>2, <3>1, <3>4 DEF Gone
  <2> QED
    BY <1>2, <2>1, <2>2 DEF KnownInv, Both, Gone
<1>12. ThreadInv'
  <2>1. heard'.current_thread_id \in {None, heard.current_thread_id}
    BY <1>6 DEF SameThread
  <2>2. CASE RemovesCurrent(c)
    <3>1. ASSUME ~strayed' PROVE heard'.current_thread_id = None
      <4>1. ~strayed /\ heard'.current_thread_id # c.id
        BY <1>2, <2>2, <3>1
      <4>2. heard.current_thread_id \in {None, c.id}
        BY <2>2, <4>1 DEF IInv, ThreadInv, RemovesCurrent
      <4> QED
        BY <2>1, <4>1, <4>2
    <3>2. ~told'
      BY <1>2, <2>2
    <3> QED
      BY <3>1, <3>2 DEF ThreadInv
  <2>3. CASE ~RemovesCurrent(c)
    <3>1. SUFFICES ASSUME ~strayed
                   PROVE  /\ \/ heard'.current_thread_id = None
                             \/ /\ heard'.current_thread_id = gdb'.current
                                /\ \A k \in DOMAIN queue' : ~Sets(queue'[k], "inferior")
                          /\ told => rt.current_thread_id = heard'.current_thread_id
      BY <1>2, <2>3 DEF ThreadInv
    <3>2. /\ told => rt.current_thread_id = heard.current_thread_id
          /\ heard.current_thread_id # None =>
                /\ heard.current_thread_id = gdb.current
                /\ \A k \in DOMAIN queue : ~Sets(queue[k], "inferior")
      BY <3>1 DEF IInv, ThreadInv
    <3>3. CASE heard.current_thread_id = None
      BY <2>1, <3>2, <3>3
    <3>4. CASE heard.current_thread_id # None
      <4>1. c.name # "inferior"
        <5>1. 1 \in DOMAIN queue /\ c = queue[1]
          BY <1>1, <1>2, <1>3
        <5> QED
          BY <1>2, <3>2, <3>4, <5>1 DEF Sets
      <4>2. /\ gdb'.current = gdb.current
            /\ \A k \in DOMAIN queue' : ~Sets(queue'[k], "inferior")
        BY <1>5, <1>7, <2>3, <3>2, <3>4, <4>1
      <4>3. ASSUME told PROVE heard'.current_thread_id = heard.current_thread_id
        <5>1. PICK e \in Ids : /\ Settles(queue, "inferior", gdb.current, e)
                               /\ heard.current_inferior_id = e \/ Gone(e)
          BY <4>3 DEF IInv, KnownInv, Both
        <5>2. e = gdb.current
          BY <3>2, <3>4, <5>1, SettlesNone
        <5>3. heard.current_inferior_id = gdb.current
          BY <5>1, <5>2 DEF Gone, IInv, TypesInv, TypeOK
        <5> QED
          BY <1>6, <2>3, <5>3 DEF RemovesCurrent, SameThread
      <4> QED
        BY <2>1, <3>2, <3>4, <4>2, <4>3
    <3> QED
      BY <3>3, <3>4
  <2> QED
    BY <2>2, <2>3
<1> QED
  BY <1>7, <1>8, <1>10, <1>11, <1>12 DEF IInv

\* A call that fails leaves nothing in the queue that is waited for.
LEMMA FailedKeeps ==
    ASSUME op \in Op, NEW rest, Failed(op, rest), \A k \in DOMAIN rest : ~rest[k].mine
    PROVE  op' \in Op /\ queue' = rest /\ QueueInv' /\ CreateInv' /\ InventoryIsTrue'
<1>1. PICK status \in {"warning", "error"} :
         op' = [op EXCEPT !.pc = "returned", !.status = status] /\ queue' = rest
  BY DEF Failed, Return
<1>2. op' \in Op /\ op'.pc = "returned" /\ op'.status = status
  BY <1>1 DEF Op
<1>3. QueueInv'
  BY <1>1, <1>2 DEF QueueInv, Waiting
<1>4. CreateInv' /\ InventoryIsTrue'
  BY <1>2 DEF CreateInv, InventoryIsTrue
<1> QED
  BY <1>1, <1>2, <1>3, <1>4

\* A given-up command is refused: if it was a selection, the runtime was wrong.
LEMMA RefusedLateKeeps ==
    ASSUME IInv, Refuse, ~Head(queue).mine
    PROVE  IInv'
<1>1. PICK c : c = Head(queue)
  OBVIOUS
<1>2. /\ queue # << >> /\ ~c.mine
      /\ Refusable(c) /\ queue' = Tail(queue) /\ told' = (told /\ c.name # "inferior")
      /\ UNCHANGED <<tools, gdb, next, rt, strayed, heard, news, text, op>>
  BY <1>1 DEF Refuse
<1>3. queue \in Seq(Command) /\ c \in Command
  BY <1>1, <1>2 DEF IInv, TypesInv, TypeOK
<1>4. c.name \notin {"follow", "detach"}
  BY <1>2 DEF Refusable
<1>5. /\ QueueInv' /\ CreateInv' /\ InventoryIsTrue' /\ queue' \in Seq(Command)
      /\ \A k \in DOMAIN queue' : k + 1 \in DOMAIN queue /\ queue'[k] = queue[k + 1]
  BY <1>1, <1>2, TailKeeps
<1>6. TypesInv'
  <2>1. TypeOK'
    BY <1>2, <1>5 DEF IInv, TypesInv, TypeOK
  <2>2. \A k \in DOMAIN queue' : queue'[k].name \in {"inferior", "remove"} => queue'[k].id \in Ids
    BY <1>5 DEF IInv, TypesInv
  <2> QED
    BY <1>2, <2>1, <2>2 DEF IInv, TypesInv, Both
<1>7. \A name, g, v : c.name # name /\ Settles(queue, name, g, v) => Settles(queue', name, g, v)
  BY <1>1, <1>2, <1>3, SettlesTail DEF Sets
<1>8. ForkInv'
  <2>1. ASSUME NEW r \in Both
        PROVE  /\ Settles(queue', "follow", gdb.follow, r.follow_fork_mode)
               /\ Settles(queue', "detach", gdb.detach, r.detach_on_fork)
    BY <1>4, <1>7, <2>1 DEF IInv, ForkInv
  <2> QED
    BY <1>2, <2>1 DEF ForkInv, Both
<1>9. KnownInv'
  <2>1. ASSUME told, c.name # "inferior"
        PROVE  \E e \in Ids : /\ Settles(queue', "inferior", gdb.current, e)
                              /\ \A r \in Both : r.current_inferior_id = e \/ Gone(e)
    BY <1>7, <2>1 DEF IInv, KnownInv
  <2> QED
    BY <1>2, <2>1 DEF IInv, KnownInv, Both, Gone
<1>10. ThreadInv'
  BY <1>2, <1>5 DEF IInv, ThreadInv, Both
<1> QED
  BY <1>5, <1>6, <1>8, <1>9, <1>10 DEF IInv

\* The command waited for is refused: what was read with the error is lost.
LEMMA RefusedKeeps ==
    ASSUME IInv, Refuse, Head(queue).mine
    PROVE  IInv'
<1>1. /\ AllRead /\ Failed(op, << >>) /\ Clean(queue)
      /\ UNCHANGED <<tools, gdb, next, rt, told>>
      /\ strayed' = (strayed \/ heard.current_thread_id # rt.current_thread_id)
  BY HeadIsMine DEF Refuse
<1>2. op' \in Op /\ queue' = << >> /\ QueueInv' /\ CreateInv' /\ InventoryIsTrue'
  <2>1. op \in Op
    BY DEF IInv, TypesInv, TypeOK
  <2> QED
    BY <1>1, <2>1, FailedKeeps
<1>3. TypesInv'
  <2>1. text' \in Text /\ news' \in BOOLEAN /\ heard' = rt
    BY <1>1 DEF AllRead, NoText, Text
  <2> QED
    BY <1>1, <1>2, <2>1 DEF IInv, TypesInv, TypeOK, Both
<1>4. Agrees(rt)'
  BY <1>1, CleanAgrees DEF Agrees, Shows
<1>5. ForkInv' /\ KnownInv' /\ ThreadInv'
  <2>1. Clean(queue')
    BY <1>2 DEF Clean
  <2>2. heard' = rt'
    BY <1>1 DEF AllRead
  <2>3. gdb'.current \in Ids
    BY <1>1 DEF IInv, TypesInv, TypeOK, Gdb
  <2> QED
    BY <1>4, <2>1, <2>2, <2>3, CleanKeeps
<1> QED
  BY <1>2, <1>3, <1>5 DEF IInv

\* The command waited for is given up: the runtime takes it for executed.
LEMMA TimeOutKeeps ==
    ASSUME IInv, TimeOut
    PROVE  IInv'
<1>1. PICK c : c = queue[Len(queue)]
  OBVIOUS
<1>2. /\ queue \in Seq(Command) /\ queue # << >> /\ Len(queue) \in DOMAIN queue
      /\ c \in Command /\ c.mine
      /\ \A k \in DOMAIN queue : queue[k].mine <=> k = Len(queue)
  BY <1>1, LastIsMine DEF TimeOut
<1>3. /\ rt' = AfterCommand(heard, c)
      /\ told' = (told \/ c.name = "inferior")
      /\ strayed' = (strayed /\ c.name # "inferior")
      /\ AllRead /\ Failed(op, Abandon(queue)) /\ UNCHANGED <<tools, gdb, next>>
  BY <1>1 DEF TimeOut, AfterTimeout
<1>4. c.name \in {"inferior", "remove"} => c.id \in Ids
  BY <1>1, <1>2 DEF IInv, TypesInv
<1>5. Sound(heard)
  BY DEF IInv, TypesInv, TypeOK, Both, Sound
<1>6. /\ Sound(rt')
      /\ rt'.follow_fork_mode = (IF c.name = "follow" THEN c.mode ELSE heard.follow_fork_mode)
      /\ rt'.detach_on_fork = (IF c.name = "detach" THEN c.enabled ELSE heard.detach_on_fork)
      /\ rt'.current_inferior_id = (IF c.name = "inferior" THEN c.id
                                    ELSE heard.current_inferior_id)
      /\ rt'.current_thread_id = (IF c.name = "inferior" THEN None ELSE heard.current_thread_id)
  BY <1>2, <1>3, <1>4, <1>5, AfterCommandFields
<1>7. heard' = rt' /\ news' = FALSE /\ text' = NoText
  BY <1>3 DEF AllRead
<1>8. /\ Abandon(queue) \in Seq(Command)
      /\ \A k \in DOMAIN Abandon(queue) : ~Abandon(queue)[k].mine
      /\ \A k \in DOMAIN Abandon(queue) :
            Abandon(queue)[k].name = queue[k].name /\ Abandon(queue)[k].id = queue[k].id
      /\ DOMAIN Abandon(queue) = DOMAIN queue
  <2>1. Settles(queue, "follow", gdb.follow, rt.follow_fork_mode)
    BY DEF IInv, ForkInv, Both
  <2> QED
    BY <1>2, <2>1, SettlesAbandon DEF Abandon
<1>9. op' \in Op /\ queue' = Abandon(queue) /\ QueueInv' /\ CreateInv' /\ InventoryIsTrue'
  <2>1. op \in Op
    BY DEF IInv, TypesInv, TypeOK
  <2> QED
    BY <1>3, <1>8, <2>1, FailedKeeps
<1>10. \A name, g, v : Settles(queue, name, g, v)
          => Settles(queue', name, g, IF c.name = name THEN Value(c, name) ELSE v)
  BY <1>1, <1>2, <1>9, SettlesAbandon
<1>11. TypesInv'
  <2>1. text' \in Text /\ news' \in BOOLEAN
    BY <1>7 DEF NoText, Text
  <2>2. TypeOK'
    BY <1>3, <1>6, <1>7, <1>8, <1>9, <2>1 DEF IInv, TypesInv, TypeOK, Sound
  <2>3. \A k \in DOMAIN queue' : queue'[k].name \in {"inferior", "remove"} => queue'[k].id \in Ids
    BY <1>8, <1>9 DEF IInv, TypesInv
  <2> QED
    BY <1>3, <1>6, <1>7, <2>2, <2>3 DEF IInv, TypesInv, Both, Sound
<1>12. ForkInv'
  <2>1. /\ Settles(queue, "follow", gdb.follow, heard.follow_fork_mode)
        /\ Settles(queue, "detach", gdb.detach, heard.detach_on_fork)
    BY DEF IInv, ForkInv, Both
  <2>2. Value(c, "follow") = c.mode /\ Value(c, "detach") = c.enabled
    BY DEF Value
  <2>3. /\ Settles(queue', "follow", gdb.follow, rt'.follow_fork_mode)
        /\ Settles(queue', "detach", gdb.detach, rt'.detach_on_fork)
    BY <1>6, <1>10, <2>1, <2>2
  <2> QED
    BY <1>3, <1>7, <2>3 DEF ForkInv, Both
<1>13. KnownInv'
  <2>1. ASSUME told'
        PROVE  \E e \in Ids : /\ Settles(queue', "inferior", gdb.current, e)
                              /\ rt'.current_inferior_id = e \/ Gone(e)
    <3>1. Value(c, "inferior") = c.id
      BY DEF Value
    <3>2. CASE c.name = "inferior"
      <4>1. Settles(queue', "inferior", gdb.current, c.id)
        BY <1>1, <1>2, <1>9, <3>1, <3>2, SettlesAbandon
      <4> QED
        BY <1>4, <1>6, <3>2, <4>1
    <3>3. CASE c.name # "inferior"
      <4>1. PICK e \in Ids : /\ Settles(queue, "inferior", gdb.current, e)
                             /\ heard.current_inferior_id = e \/ Gone(e)
        BY <1>3, <2>1, <3>3 DEF IInv, KnownInv, Both
      <4> QED
        BY <1>6, <1>10, <3>3, <4>1
    <3> QED
      BY <3>2, <3>3
  <2> QED
    BY <1>3, <1>7, <2>1 DEF KnownInv, Both, Gone
<1>14. ThreadInv'
  <2>1. ASSUME ~strayed', rt'.current_thread_id # None
        PROVE  /\ rt'.current_thread_id = gdb.current
               /\ \A k \in DOMAIN queue' : ~Sets(queue'[k], "inferior")
    <3>1. c.name # "inferior" /\ rt'.current_thread_id = heard.current_thread_id /\ ~strayed
      BY <1>3, <1>6, <2>1
    <3>2. /\ heard.current_thread_id = gdb.current
          /\ \A k \in DOMAIN queue : ~Sets(queue[k], "inferior")
      BY <2>1, <3>1 DEF IInv, ThreadInv, Both
    <3>3. \A k \in DOMAIN queue : queue[k].name # "inferior"
      BY <1>1, <1>2, <3>1, <3>2 DEF Sets
    <3> QED
      BY <1>8, <1>9, <3>1, <3>2, <3>3 DEF Sets
  <2> QED
    BY <1>3, <1>7, <2>1 DEF ThreadInv, Both
<1> QED
  BY <1>9, <1>11, <1>12, <1>13, <1>14 DEF IInv

\* A command is sent behind those that were given up.
LEMMA CommandType ==
    ASSUME NEW name \in Names, NEW r \in Request, NEW id \in Ids \cup {None}
    PROVE  LET c == Cmd(name, r, id) IN
           /\ c \in Command /\ c.mine /\ c.name = name /\ c.id = id
           /\ c.mode = r.mode /\ c.enabled = r.enabled
BY DEF Cmd, Command, Request

\* What a call asks for is well formed.
LEMMA RequestType ==
    ASSUME NEW r \in Requests
    PROVE  /\ r \in Request /\ r.tool \in AllTools /\ r.executable \in BOOLEAN
           /\ r.make_current \in BOOLEAN
           /\ r.tool \in {"remove", "select"} => r.id \in Ids
BY DEF Requests, Request

LEMMA CallKeeps ==
    ASSUME IInv, NEW r \in Requests, Call(r)
    PROVE  IInv'
<1> DEFINE knew == queue = << >> /\ rt.current_inferior_id = gdb.current
           o == [NoOp EXCEPT !.request = r, !.before = gdb.current, !.knew = knew]
<1>1. Idle /\ UNCHANGED <<tools, gdb, next, heard, news, text, rt, told, strayed>>
  BY DEF Call
<1>2. PICK pc \in {"add", "remove", "select", "refresh", "set"}, name \in Names,
           id \in Ids \cup {None} :
         /\ Proceed(o, pc, name, id, queue)
         /\ \/ pc = "add" /\ r.tool = "add" /\ name = "add"
            \/ pc = "remove" /\ r.tool = "remove" /\ name = "remove" /\ id \in Ids
            \/ pc = "select" /\ r.tool = "select" /\ name = "inferior" /\ id \in Ids
            \/ pc = "refresh" /\ r.tool = "list" /\ name = "info"
            \/ pc = "set" /\ r.tool \in {"follow", "detach"} /\ name = r.tool
  <2> HIDE DEF o
  <2>1. \/ r.tool = "add" /\ Proceed(o, "add", "add", None, queue)
        \/ r.tool = "remove" /\ Proceed(o, "remove", "remove", r.id, queue)
        \/ r.tool = "select" /\ Proceed(o, "select", "inferior", r.id, queue)
        \/ r.tool = "list" /\ Proceed(o, "refresh", "info", None, queue)
        \/ r.tool \in {"follow", "detach"} /\ Proceed(o, "set", r.tool, None, queue)
    BY DEF Call, o
  <2> QED
    BY <2>1, RequestType DEF Names
<1>3. PICK c : c = Cmd(name, r, id)
  OBVIOUS
<1>4. /\ c \in Command /\ c.mine /\ c.name = name /\ c.id = id /\ r \in Request
  BY <1>3, CommandType, RequestType
<1>5. op' = [o EXCEPT !.pc = pc] /\ queue' = Append(queue, c)
  BY <1>2, <1>3 DEF Proceed, o, NoOp
<1>6. gdb.current \in Ids /\ queue \in Seq(Command) /\ rt \in Runtime
  BY DEF IInv, TypesInv, TypeOK, Gdb
<1>7. PICK k \in BOOLEAN : k = knew
  OBVIOUS
<1>8. /\ op' \in Op /\ op'.request = r /\ op'.pc = pc /\ op'.status = "none"
      /\ op'.before = gdb.current /\ op'.knew = k
  <2>1. op' = [NoOp EXCEPT !.request = r, !.before = gdb.current, !.knew = k, !.pc = pc]
    BY <1>5, <1>7 DEF NoOp
  <2> QED
    BY <1>4, <1>6, <2>1 DEF NoOp, Op, NoRequest
<1>9. /\ queue' \in Seq(Command) /\ Len(queue') = Len(queue) + 1 /\ Len(queue) \in Nat
      /\ DOMAIN queue' = 1 .. Len(queue) + 1 /\ DOMAIN queue = 1 .. Len(queue)
      /\ queue'[Len(queue')] = c /\ queue' # << >>
      /\ \A m \in DOMAIN queue : queue'[m] = queue[m]
  BY <1>4, <1>5, <1>6
<1>10. \A m \in DOMAIN queue' : m = Len(queue') \/ (m \in DOMAIN queue /\ queue'[m] = queue[m])
  BY <1>9
<1>11. TypesInv'
  <2>1. TypeOK'
    BY <1>1, <1>8, <1>9 DEF IInv, TypesInv, TypeOK
  <2>2. \A m \in DOMAIN queue' : queue'[m].name \in {"inferior", "remove"} => queue'[m].id \in Ids
    <3>1. c.name \in {"inferior", "remove"} => c.id \in Ids
      BY <1>2, <1>4, RequestType
    <3> QED
      BY <1>9, <1>10, <3>1 DEF IInv, TypesInv
  <2> QED
    BY <1>1, <2>1, <2>2 DEF IInv, TypesInv, Both
<1>12. QueueInv'
  <2>1. \A m \in DOMAIN queue : ~queue[m].mine
    BY <1>1 DEF IInv, QueueInv, Idle, Waiting
  <2>2. Waiting'
    BY <1>8 DEF Waiting
  <2>3. Awaited(c)'
    BY <1>2, <1>4, <1>8 DEF Awaited
  <2>4. \A m \in DOMAIN queue' : queue'[m].mine => m = Len(queue')
    BY <1>10, <2>1
  <2>5. op'.status = "none" /\ op'.pc # "returned"
    BY <1>8
  <2>6. Awaited(queue[Len(queue)])'
    BY <1>9, <2>3 DEF Awaited
  <2> QED
    BY <1>9, <2>2, <2>4, <2>5, <2>6 DEF QueueInv
<1>13. \A n, g, v : Settles(queue, n, g, v) => Settles(queue', n, g, v)
  BY <1>4, <1>5, <1>6, SettlesAppend DEF Sets
<1>14. ForkInv'
  BY <1>1, <1>13 DEF IInv, ForkInv, Both
<1>15. KnownInv'
  BY <1>1, <1>13 DEF IInv, KnownInv, Both, Gone
<1>16. ThreadInv'
  <2>1. \A m \in DOMAIN queue' : Sets(queue'[m], "inferior")
            => m \in DOMAIN queue /\ Sets(queue[m], "inferior")
    BY <1>4, <1>9, <1>10 DEF Sets
  <2> QED
    BY <1>1, <2>1 DEF IInv, ThreadInv, Both
<1>17. CreateInv'
  <2>1. ASSUME r.tool = "add", k
        PROVE  /\ gdb.current \in Ids /\ Len(queue') = 1 /\ pc = "add"
               /\ heard.current_inferior_id = gdb.current
    <3>1. queue = << >> /\ rt.current_inferior_id = gdb.current
      BY <1>7, <2>1
    <3>2. Clean(queue)
      BY <3>1 DEF Clean
    <3> QED
      BY <1>2, <1>6, <1>9, <2>1, <3>1, <3>2, CleanAgrees
  <2> QED
    BY <1>1, <1>8, <2>1 DEF CreateInv, Right
<1>18. InventoryIsTrue'
  BY <1>8 DEF InventoryIsTrue
<1> QED
  BY <1>11, <1>12, <1>14, <1>15, <1>16, <1>17, <1>18 DEF IInv

LEMMA AnsweredKeeps ==
    ASSUME IInv, Answered
    PROVE  IInv'
<1>1. /\ op' = NoOp /\ op.pc = "returned"
      /\ UNCHANGED <<tools, gdb, next, queue, heard, news, text, rt, told, strayed>>
  BY DEF Answered
<1>2. /\ op' \in Op /\ op'.pc = "idle" /\ op'.status = "none"
  BY <1>1 DEF NoOp, NoRequest, Op, Request, AllTools, Modes
<1>3. TypesInv'
  BY <1>1, <1>2 DEF IInv, TypesInv, TypeOK, Both
<1>4. QueueInv'
  BY <1>1, <1>2 DEF IInv, QueueInv, Waiting
<1>5. ForkInv' /\ KnownInv' /\ ThreadInv'
  BY <1>1 DEF IInv, ForkInv, KnownInv, ThreadInv, Both, Gone
<1>6. CreateInv' /\ InventoryIsTrue'
  BY <1>2 DEF CreateInv, InventoryIsTrue, Idle
<1> QED
  BY <1>3, <1>4, <1>5, <1>6 DEF IInv

\* Between two calls an event leaves GDB and the runtime in agreement, unless
\* GDB was moved and the runtime was not told.
LEMMA EventKeeps ==
    ASSUME IInv, Events, Sound(rt'), AllRead, Agrees(rt)',
           queue' \in {<< >>, <<InfoInferiors>>},
           gdb' \in Gdb, gdb'.current \in gdb'.ids, next' \in Nat, \A i \in gdb'.ids : i < next',
           told' \in BOOLEAN, strayed' \in BOOLEAN
    PROVE  IInv'
<1>1. tools' = tools /\ op' = op /\ op.pc = "idle" /\ op.status = "none"
  BY DEF Events, Idle, IInv, QueueInv
<1>2. heard' = rt' /\ news' = FALSE /\ text' \in Text
  BY DEF AllRead, NoText, Text
<1>3. InfoInferiors \in Command /\ ~InfoInferiors.mine /\ InfoInferiors.name = "info"
  BY DEF InfoInferiors, Command, Names, Modes
<1>4. /\ queue' \in Seq(Command)
      /\ \A k \in DOMAIN queue' : ~queue'[k].mine /\ queue'[k].name = "info"
  <2>1. CASE queue' = << >>
    BY <2>1
  <2>2. CASE queue' = <<InfoInferiors>>
    <3>1. <<InfoInferiors>> \in Seq(Command) /\ DOMAIN <<InfoInferiors>> = {1}
      BY <1>3
    <3> QED
      BY <1>3, <2>2, <3>1
  <2> QED
    BY <2>1, <2>2
<1>5. TypesInv'
  <2>1. TypeOK'
    BY <1>1, <1>2, <1>4 DEF IInv, TypesInv, TypeOK, Sound
  <2> QED
    BY <1>2, <1>4, <2>1 DEF TypesInv, Both, Sound
<1>6. QueueInv' /\ CreateInv' /\ InventoryIsTrue'
  BY <1>1, <1>4 DEF QueueInv, CreateInv, InventoryIsTrue, Idle, Waiting
<1>7. Clean(queue') /\ gdb'.current \in Ids
  BY <1>4 DEF Clean, Sets, Gdb
<1>8. ForkInv' /\ KnownInv' /\ ThreadInv'
  BY <1>2, <1>7, CleanKeeps
<1> QED
  BY <1>5, <1>6, <1>8 DEF IInv

\* What is read of a stop: perhaps an inventory, then the stop itself.
LEMMA StopReadKeeps ==
    ASSUME IInv, Events, NEW r, NEW i \in Ids, NEW changed, StopRead(r, i, changed),
           Sound(r), r.follow_fork_mode = gdb'.follow, r.detach_on_fork = gdb'.detach,
           gdb' \in Gdb, gdb'.current = i, i \in gdb'.ids,
           next' \in Nat, \A k \in gdb'.ids : k < next'
    PROVE  IInv'
<1>1. PICK b : /\ b = r \/ b = Refreshed(r, Parsed(NoText, gdb'.ids, i))
               /\ rt' = [MarkInferiorPaused(b, i, "stop") EXCEPT !.current_thread_id = i]
               /\ told' = (b.current_inferior_id = i) /\ strayed' = FALSE
               /\ queue' \in {<< >>, <<InfoInferiors>>}
               /\ AllRead
  BY DEF StopRead
<1>2. Sound(b) /\ SameForks(r, b)
  <2>1. gdb'.ids \in SUBSET Ids /\ NoText \in Text /\ r \in Runtime
    BY DEF Gdb, NoText, Text, Sound
  <2>2. ASSUME NEW ids, ids = gdb'.ids
        PROVE  LET q == Refreshed(r, Parsed(NoText, ids, i)) IN Sound(q) /\ SameForks(r, q)
    BY <2>1, <2>2, RefreshedFields
  <2> QED
    BY <1>1, <2>2 DEF SameForks
<1>3. PICK m : m = MarkInferiorPaused(b, i, "stop")
  OBVIOUS
<1>4. /\ Sound(m) /\ SameForks(b, m)
      /\ b.current_inferior_id = i => m.current_inferior_id = i
  BY <1>2, <1>3, MarkFields
<1>5. /\ Sound(rt') /\ SameForks(m, rt')
      /\ rt'.current_inferior_id = m.current_inferior_id /\ rt'.current_thread_id = i
  BY <1>1, <1>3, <1>4, DetailFields
<1>6. Agrees(rt)'
  BY <1>1, <1>2, <1>4, <1>5 DEF Agrees, Shows, SameForks
<1> QED
  BY <1>1, <1>5, <1>6, EventKeeps

LEMMA StopsKeeps ==
    ASSUME IInv, NEW i \in Ids, Stops(i)
    PROVE  IInv'
<1>1. /\ Events /\ i \in gdb.ids /\ gdb' = [gdb EXCEPT !.current = i] /\ next' = next
      /\ StopRead(heard, i, news)
  BY DEF Stops
<1>2. /\ gdb \in Gdb /\ next \in Nat /\ (\A k \in gdb.ids : k < next) /\ Sound(heard)
  BY DEF IInv, TypesInv, TypeOK, Both, Sound
<1>3. /\ gdb' \in Gdb /\ gdb'.current = i /\ gdb'.ids = gdb.ids
      /\ gdb'.follow = gdb.follow /\ gdb'.detach = gdb.detach
  BY <1>1, <1>2 DEF Gdb
<1>4. heard.follow_fork_mode = gdb.follow /\ heard.detach_on_fork = gdb.detach
  <2>1. Clean(queue)
    BY <1>1 DEF Events, Clean
  <2> QED
    BY <2>1, CleanAgrees DEF Agrees, Shows
<1> QED
  BY <1>1, <1>2, <1>3, <1>4, StopReadKeeps

LEMMA ForksKeeps ==
    ASSUME IInv, Forks
    PROVE  IInv'
<1> DEFINE e == EnsureInferior(heard, next)
           m == MarkInferiorRunning(e, next)
<1>1. /\ Events /\ next \in Ids /\ next' = next + 1
      /\ gdb' = [gdb EXCEPT !.ids = @ \cup {next},
                            !.current = IF gdb.follow = "child" THEN next ELSE @]
      /\ StopRead(m, gdb'.current, TRUE)
  BY DEF Forks
<1>2. /\ gdb \in Gdb /\ gdb.current \in gdb.ids /\ next \in Nat
      /\ (\A k \in gdb.ids : k < next) /\ Sound(heard) /\ gdb.ids \subseteq Nat
  BY IdsAssumption DEF IInv, TypesInv, TypeOK, Both, Sound, Gdb
<1>3. PICK i : i = IF gdb.follow = "child" THEN next ELSE gdb.current
  OBVIOUS
<1>4. /\ gdb' \in Gdb /\ gdb'.ids = gdb.ids \cup {next} /\ gdb'.current = i
      /\ i \in gdb'.ids /\ i \in Ids
      /\ gdb'.follow = gdb.follow /\ gdb'.detach = gdb.detach
  <2>1. i \in gdb.ids \cup {next} /\ gdb.ids \cup {next} \in SUBSET Ids
    BY <1>1, <1>2, <1>3 DEF Gdb
  <2>2. gdb' = [gdb EXCEPT !.ids = gdb.ids \cup {next}, !.current = i]
    BY <1>1, <1>3, Zenon
  <2> QED
    BY <1>2, <2>1, <2>2 DEF Gdb
<1>5. next' \in Nat /\ \A k \in gdb'.ids : k < next'
  BY <1>1, <1>2, <1>4
<1>6. heard.follow_fork_mode = gdb.follow /\ heard.detach_on_fork = gdb.detach
  <2>1. Clean(queue)
    BY <1>1 DEF Events, Clean
  <2> QED
    BY <2>1, CleanAgrees DEF Agrees, Shows
<1>7. Sound(e) /\ SameForks(heard, e)
  BY <1>1, <1>2, EnsureInferiorSound, EnsureInferiorFields DEF Sound
<1> HIDE DEF e
<1>8. Sound(m) /\ SameForks(e, m)
  BY <1>1, <1>7, MarkFields
<1> HIDE DEF m
<1>9. m.follow_fork_mode = gdb'.follow /\ m.detach_on_fork = gdb'.detach
  BY <1>4, <1>6, <1>7, <1>8 DEF SameForks
<1>10. StopRead(m, i, TRUE)
  BY <1>1, <1>4
<1> QED
  BY <1>1, <1>4, <1>5, <1>8, <1>9, <1>10, StopReadKeeps

LEMMA RawThreadKeeps ==
    ASSUME IInv, NEW i \in Ids, RawThread(i)
    PROVE  IInv'
<1>1. /\ Events /\ i \in gdb.ids /\ gdb' = [gdb EXCEPT !.current = i] /\ next' = next
      /\ rt' = heard /\ AllRead /\ told' = FALSE /\ strayed' = TRUE /\ queue' = << >>
  BY DEF RawThread, Events
<1>2. /\ gdb \in Gdb /\ next \in Nat /\ (\A k \in gdb.ids : k < next) /\ Sound(heard)
  BY DEF IInv, TypesInv, TypeOK, Both, Sound
<1>3. /\ gdb' \in Gdb /\ gdb'.current = i /\ gdb'.ids = gdb.ids
      /\ gdb'.follow = gdb.follow /\ gdb'.detach = gdb.detach
  BY <1>1, <1>2 DEF Gdb
<1>4. heard.follow_fork_mode = gdb.follow /\ heard.detach_on_fork = gdb.detach
  <2>1. Clean(queue)
    BY <1>1 DEF Events, Clean
  <2> QED
    BY <2>1, CleanAgrees DEF Agrees, Shows
<1>5. Agrees(rt)'
  BY <1>1, <1>3, <1>4 DEF Agrees, Shows
<1> QED
  BY <1>1, <1>2, <1>3, <1>5, EventKeeps

\* The command that step pc of call o sends.
Fits(o, pc, name, id) ==
    \/ pc = "select" /\ name = "inferior" /\ o.request.tool = "add" /\ id = o.id /\ id \in Ids
    \/ pc = "exec" /\ name = "exec" /\ o.request.tool = "add"
    \/ pc = "restore" /\ name = "inferior" /\ o.request.tool = "add"
          /\ id = o.previous /\ id \in Ids
    \/ pc = "refresh" /\ name = "info" /\ o.request.tool \in {"add", "remove", "select", "list"}

\* What the invariant says of the call and its command.
CallInv ==
    /\ QueueInv /\ CreateInv /\ InventoryIsTrue
    /\ op \in Op /\ queue \in Seq(Command) /\ Clean(queue)
    /\ \A k \in DOMAIN queue : queue[k].name \in {"inferior", "remove"} => queue[k].id \in Ids

\* A call that is answered goes on to its next command.
LEMMA ProceedKeeps ==
    ASSUME NEW o \in Op, o.status = "none", NEW pc, NEW name, NEW id \in Ids \cup {None},
           Proceed(o, pc, name, id, << >>), Fits(o, pc, name, id),
           (o.request.tool = "add" /\ o.knew) => o.before \in Ids /\ Right(o, pc, gdb'.current)
    PROVE  CallInv'
<1>1. PICK c : c = Cmd(name, o.request, id)
  OBVIOUS
<1>2. /\ pc \in {"select", "exec", "restore", "refresh"} /\ name \in Names
      /\ name # "remove" /\ (name = "inferior" => id \in Ids)
  BY DEF Fits, Names
<1>3. o.request \in Request
  BY DEF Op
<1>4. c \in Command /\ c.mine /\ c.name = name /\ c.id = id
  BY <1>1, <1>2, <1>3, CommandType
<1>5. op' = [o EXCEPT !.pc = pc] /\ queue' = <<c>>
  BY <1>1 DEF Proceed
<1>6. /\ op' \in Op /\ op'.pc = pc /\ op'.status = "none"
      /\ op'.request = o.request /\ op'.knew = o.knew /\ op'.before = o.before
      /\ op'.id = o.id /\ op'.previous = o.previous
  BY <1>2, <1>5 DEF Op
<1>7. /\ queue' \in Seq(Command) /\ DOMAIN queue' = {1} /\ queue'[1] = c
      /\ Len(queue') = 1 /\ queue' # << >>
  BY <1>4, <1>5
<1>8. Awaited(queue[Len(queue)])'
  BY <1>4, <1>6, <1>7 DEF Awaited, Fits
<1>9. Waiting'
  BY <1>2, <1>6 DEF Waiting
<1>10. QueueInv'
  <2>1. \A k \in DOMAIN queue' : queue'[k].mine => k = Len(queue')
    BY <1>7
  <2>2. op'.status # "none" <=> op'.pc = "returned"
    BY <1>2, <1>6
  <2> QED
    BY <1>6, <1>7, <1>8, <1>9, <2>1, <2>2 DEF QueueInv
<1>11. CreateInv'
  BY <1>2, <1>6, <1>7 DEF CreateInv, Right
<1>12. InventoryIsTrue'
  BY <1>6 DEF InventoryIsTrue
<1>13. Clean(queue')
  BY <1>4, <1>7 DEF Clean, Sets
<1> QED
  BY <1>2, <1>4, <1>6, <1>7, <1>10, <1>11, <1>12, <1>13 DEF CallInv

\* A create goes back to where it was, or asks for the inventory.
LEMMA AfterExecKeeps ==
    ASSUME NEW o \in Op, o.status = "none", o.request.tool = "add", AfterExec(o, << >>),
           o.knew => /\ o.before \in Ids /\ o.previous = o.before
                     /\ o.id \in Ids /\ o.id # o.before
                     /\ gdb'.current = (IF o.request.make_current \/ o.request.executable
                                        THEN o.id ELSE o.before)
    PROVE  CallInv'
<1>1. o.previous \in Ids \cup {None} /\ None \notin Ids
  BY NoneIsNoId DEF Op
<1>2. CASE ~o.request.make_current /\ o.request.executable /\ o.previous \notin {None, o.id}
  <2>1. Proceed(o, "restore", "inferior", o.previous, << >>)
    BY <1>2 DEF AfterExec
  <2>2. Fits(o, "restore", "inferior", o.previous)
    BY <1>1, <1>2 DEF Fits
  <2>3. o.knew => o.before \in Ids /\ Right(o, "restore", gdb'.current)
    BY <1>2 DEF Right
  <2> QED
    BY <1>1, <2>1, <2>2, <2>3, ProceedKeeps
<1>3. CASE ~(~o.request.make_current /\ o.request.executable /\ o.previous \notin {None, o.id})
  <2>1. Proceed(o, "refresh", "info", None, << >>)
    BY <1>3 DEF AfterExec
  <2>2. Fits(o, "refresh", "info", None)
    BY DEF Fits
  <2>3. o.knew => o.before \in Ids /\ Right(o, "refresh", gdb'.current)
    BY <1>1, <1>3 DEF Right
  <2> QED
    BY <2>1, <2>2, <2>3, ProceedKeeps
<1> QED
  BY <1>2, <1>3

\* A call that is answered returns.
LEMMA ReturnKeeps ==
    ASSUME NEW o \in Op, Return(o, "success", << >>),
           (o.request.tool = "add" /\ o.knew) =>
               o.before \in Ids /\ Right(o, "returned", gdb'.current),
           (o.request.tool \in {"add", "remove", "select", "list"} /\ ~o.noise) =>
               /\ o.count = Cardinality(gdb'.ids) /\ o.current = gdb'.current
               /\ Tracked(rt') = gdb'.ids /\ rt'.inferior_count = o.count
    PROVE  CallInv'
<1>1. op' = [o EXCEPT !.pc = "returned", !.status = "success"] /\ queue' = << >>
  BY DEF Return
<1>2. /\ op' \in Op /\ op'.pc = "returned" /\ op'.status = "success"
      /\ op'.request = o.request /\ op'.knew = o.knew /\ op'.before = o.before
      /\ op'.id = o.id /\ op'.previous = o.previous
      /\ op'.count = o.count /\ op'.current = o.current /\ op'.noise = o.noise
  BY <1>1 DEF Op
<1>3. QueueInv'
  BY <1>1, <1>2 DEF QueueInv, Waiting
<1>4. CreateInv'
  BY <1>2 DEF CreateInv, Right, Waiting
<1>5. InventoryIsTrue'
  BY <1>2 DEF InventoryIsTrue, Tracked
<1>6. queue' \in Seq(Command) /\ DOMAIN queue' = {}
  BY <1>1
<1> QED
  BY <1>2, <1>3, <1>4, <1>5, <1>6 DEF CallInv, Clean

\* What is read with the answer to the command waited for: the runtime agrees
\* with GDB, whatever the command was.
LEMMA AnswerAgrees ==
    ASSUME IInv, NEW c, c = Head(queue), queue # << >>, c.mine, Allowed(c),
           gdb' \in Effect(c), next' = IF c.name = "add" THEN next + 1 ELSE next,
           strayed' = IF RemovesCurrent(c) THEN strayed \/ Announced(c).current_thread_id = c.id
                      ELSE strayed /\ c.name # "inferior"
    PROVE  LET r == AfterCommand(Announced(c), c) IN
           /\ Sound(r)
           /\ r.follow_fork_mode = gdb'.follow /\ r.detach_on_fork = gdb'.detach
           /\ (told \/ c.name = "inferior") /\ ~RemovesCurrent(c)
                 => r.current_inferior_id = gdb'.current
           /\ heard.current_inferior_id = gdb.current /\ ~RemovesCurrent(c)
                 => r.current_inferior_id = gdb'.current
           /\ strayed' \/ r.current_thread_id \in {None, gdb'.current}
<1>1. Agrees(heard)
  BY HeadIsMine, CleanAgrees
<1>2. PICK a : a = Announced(c)
  OBVIOUS
<1>3. /\ Sound(a) /\ SameForks(heard, a)
      /\ SameThread(heard, a) \/ a.current_thread_id = None
      /\ ~(c.name = "remove" /\ c.id = heard.current_inferior_id)
            => a.current_inferior_id = heard.current_inferior_id
  BY <1>2, AnnouncedFields
<1>4. c \in Command /\ (c.name = "inferior" => c.id \in Ids)
  BY DEF Allowed, IInv, TypesInv, TypeOK, Gdb
<1>5. PICK r : r = AfterCommand(a, c)
  OBVIOUS
<1>6. /\ Sound(r)
      /\ r.follow_fork_mode = (IF c.name = "follow" THEN c.mode ELSE a.follow_fork_mode)
      /\ r.detach_on_fork = (IF c.name = "detach" THEN c.enabled ELSE a.detach_on_fork)
      /\ r.current_inferior_id = (IF c.name = "inferior" THEN c.id ELSE a.current_inferior_id)
      /\ r.current_thread_id = (IF c.name = "inferior" THEN None ELSE a.current_thread_id)
  BY <1>3, <1>4, <1>5, AfterCommandFields
<1>7. /\ gdb'.follow = (IF c.name = "follow" THEN c.mode ELSE gdb.follow)
      /\ gdb'.detach = (IF c.name = "detach" THEN c.enabled ELSE gdb.detach)
      /\ ~RemovesCurrent(c) =>
            gdb'.current = (IF c.name = "inferior" THEN c.id ELSE gdb.current)
  BY EffectFields
<1>8. r.follow_fork_mode = gdb'.follow /\ r.detach_on_fork = gdb'.detach
  BY <1>1, <1>3, <1>6, <1>7 DEF Agrees, Shows, SameForks
<1>9. heard.current_inferior_id = gdb.current /\ ~RemovesCurrent(c)
         => r.current_inferior_id = gdb'.current
  BY <1>3, <1>6, <1>7 DEF RemovesCurrent
<1>10. (told \/ c.name = "inferior") /\ ~RemovesCurrent(c)
          => r.current_inferior_id = gdb'.current
  BY <1>1, <1>6, <1>7, <1>9 DEF Agrees, Shows
<1>11. strayed' \/ r.current_thread_id \in {None, gdb'.current}
  <2>1. CASE RemovesCurrent(c)
    <3>1. strayed' = (strayed \/ a.current_thread_id = c.id) /\ c.name # "inferior"
      BY <1>2, <2>1 DEF RemovesCurrent
    <3>2. strayed \/ a.current_thread_id \in {None, c.id}
      BY <1>1, <1>3, <2>1 DEF Agrees, SameThread, RemovesCurrent
    <3> QED
      BY <1>6, <3>1, <3>2
  <2>2. CASE ~RemovesCurrent(c)
    BY <1>1, <1>3, <1>6, <1>7, <2>2 DEF Agrees, SameThread
  <2> QED
    BY <2>1, <2>2
<1> QED
  BY <1>2, <1>5, <1>6, <1>8, <1>9, <1>10, <1>11

\* The call and its next command, case by case.
LEMMA SucceededKeeps ==
    ASSUME IInv, NEW c, c = Head(queue), queue # << >>, c.mine, Allowed(c),
           gdb' \in Effect(c), next' = IF c.name = "add" THEN next + 1 ELSE next,
           NEW r, Sound(r),
           heard.current_inferior_id = gdb.current /\ c.name # "remove"
               => r.current_inferior_id = gdb'.current,
           Succeeded(op, next, r, << >>)
    PROVE  CallInv' /\ \/ rt' = r /\ c.name # "info"
                       \/ c.name = "add" /\ next \in Ids /\ rt' = EnsureInferior(r, next)
                       \/ c.name = "info" /\ rt' = Refreshed(r, Parsed(text, gdb.ids, gdb.current))
<1>1. /\ Waiting /\ Len(queue) = 1 /\ Awaited(c) /\ c \in Command
  BY HeadIsMine
<1>2. op \in Op /\ op.status = "none" /\ text \in Text /\ gdb \in Gdb /\ gdb.current \in gdb.ids
      /\ next \in Nat /\ \A i \in gdb.ids : i < next
  BY <1>1 DEF IInv, TypesInv, TypeOK, QueueInv, Waiting
<1>3. /\ c.name # "remove" =>
            gdb'.current = (IF c.name = "inferior" THEN c.id ELSE gdb.current)
      /\ c.name \notin {"add", "remove"} => gdb'.ids = gdb.ids
  BY EffectFields DEF RemovesCurrent
<1>4. (op.request.tool = "add" /\ op.knew) =>
         /\ op.before \in Ids
         /\ op.pc = "add" => gdb.current = op.before /\ heard.current_inferior_id = op.before
         /\ Right(op, op.pc, gdb.current)
  BY <1>1, <1>2 DEF IInv, CreateInv, Waiting, Idle
<1>5. r.current_inferior_id \in Ids \cup {None} /\ None \notin Ids
  BY RuntimeFields, NoneIsNoId DEF Sound
<1>6. CASE op.pc = "add"
  <2>1. PICK o : o = [op EXCEPT !.id = next, !.previous = r.current_inferior_id]
    OBVIOUS
  <2>2. /\ c.name = "add" /\ op.request.tool = "add" /\ next \in Ids
    BY <1>1, <1>6 DEF Awaited, Allowed
  <2>3. AfterAdd(o, << >>) /\ rt' = EnsureInferior(r, next)
    BY <1>6, <2>1 DEF Succeeded
  <2>4. /\ o \in Op /\ o.status = "none" /\ o.request = op.request /\ o.knew = op.knew
        /\ o.before = op.before /\ o.id = next /\ o.previous = r.current_inferior_id
    BY <1>2, <1>5, <2>1, <2>2 DEF Op
  <2>5. o.knew => /\ o.before \in Ids /\ o.previous = o.before /\ o.id # o.before
                  /\ gdb'.current = o.before
    <3>1. ASSUME op.knew
          PROVE  /\ op.before \in Ids /\ r.current_inferior_id = op.before
                 /\ next # op.before /\ gdb'.current = op.before
      <4>1. op.before \in Ids /\ gdb.current = op.before /\ heard.current_inferior_id = op.before
        BY <1>4, <1>6, <2>2, <3>1
      <4>2. gdb'.current = gdb.current
        BY <1>3, <2>2
      <4>3. r.current_inferior_id = op.before
        BY <2>2, <4>1, <4>2
      <4>4. gdb.current < next
        BY <1>2
      <4>5. next # op.before
        BY <1>2, <4>1, <4>4
      <4> QED
        BY <4>1, <4>2, <4>3, <4>5
    <3> QED
      BY <2>4, <3>1
  <2>6. CallInv'
    <3>1. CASE o.request.executable \/ (o.request.make_current /\ o.previous # o.id)
      <4>1. Proceed(o, "select", "inferior", o.id, << >>)
        BY <2>3, <3>1 DEF AfterAdd
      <4>2. Fits(o, "select", "inferior", o.id)
        BY <2>2, <2>4 DEF Fits
      <4>3. o.knew => o.before \in Ids /\ Right(o, "select", gdb'.current)
        BY <2>2, <2>4, <2>5, <3>1 DEF Right
      <4> QED
        BY <2>2, <2>4, <4>1, <4>2, <4>3, ProceedKeeps
    <3>2. CASE ~(o.request.executable \/ (o.request.make_current /\ o.previous # o.id))
      <4>1. AfterExec(o, << >>)
        BY <2>3, <3>2 DEF AfterAdd
      <4>2. o.knew => ~o.request.make_current /\ ~o.request.executable
        BY <2>5, <3>2
      <4> QED
        BY <2>2, <2>4, <2>5, <4>1, <4>2, AfterExecKeeps
    <3> QED
      BY <3>1, <3>2
  <2> QED
    BY <2>2, <2>3, <2>6
<1>7. CASE op.pc = "select" /\ op.request.tool = "add"
  <2>1. c.name = "inferior" /\ c.id = op.id
    BY <1>1, <1>7 DEF Awaited
  <2>2. /\ rt' = r
        /\ IF op.request.executable THEN Proceed(op, "exec", "exec", None, << >>)
                                    ELSE AfterExec(op, << >>)
    BY <1>7 DEF Succeeded
  <2>3. op.knew => /\ op.before \in Ids /\ op.previous = op.before
                   /\ op.id \in Ids /\ op.id # op.before /\ gdb'.current = op.id
                   /\ op.request.executable \/ op.request.make_current
    BY <1>3, <1>4, <1>7, <2>1 DEF Right
  <2>4. CallInv'
    <3>1. CASE op.request.executable
      <4>1. Proceed(op, "exec", "exec", None, << >>) /\ Fits(op, "exec", "exec", None)
        BY <1>7, <2>2, <3>1 DEF Fits
      <4>2. op.knew => op.before \in Ids /\ Right(op, "exec", gdb'.current)
        BY <2>3, <3>1 DEF Right
      <4> QED
        BY <1>2, <4>1, <4>2, ProceedKeeps
    <3>2. CASE ~op.request.executable
      BY <1>2, <1>7, <2>2, <2>3, <3>2, AfterExecKeeps
    <3> QED
      BY <3>1, <3>2
  <2> QED
    BY <2>1, <2>2, <2>4
<1>8. CASE op.pc = "exec"
  <2>1. c.name = "exec" /\ op.request.tool = "add"
    BY <1>1, <1>8 DEF Awaited
  <2>2. rt' = r /\ AfterExec(op, << >>)
    BY <1>8 DEF Succeeded
  <2>3. op.knew => /\ op.before \in Ids /\ op.previous = op.before
                   /\ op.id \in Ids /\ op.id # op.before /\ gdb'.current = op.id
                   /\ op.request.executable
    BY <1>3, <1>4, <1>8, <2>1 DEF Right
  <2> QED
    BY <1>2, <2>1, <2>2, <2>3, AfterExecKeeps
<1>9. CASE op.pc \in {"restore", "remove"} \/ (op.pc = "select" /\ op.request.tool = "select")
  <2>1. Proceed(op, "refresh", "info", None, << >>) /\ rt' = r
    BY <1>9 DEF Succeeded
  <2>2. op.request.tool \in {"add", "remove", "select"} /\ c.name # "info"
    BY <1>1, <1>9 DEF Awaited
  <2>3. Fits(op, "refresh", "info", None)
    BY <2>2 DEF Fits
  <2>4. (op.request.tool = "add" /\ op.knew) =>
           op.before \in Ids /\ Right(op, "refresh", gdb'.current)
    <3>1. ASSUME op.request.tool = "add", op.knew
          PROVE  op.before \in Ids /\ gdb'.current = op.before /\ ~op.request.make_current
      <4>1. op.pc = "restore" /\ c.name = "inferior" /\ c.id = op.previous
        BY <1>1, <1>9, <3>1 DEF Awaited
      <4> QED
        BY <1>3, <1>4, <3>1, <4>1 DEF Right
    <3> QED
      BY <3>1 DEF Right
  <2> QED
    BY <1>2, <2>1, <2>2, <2>3, <2>4, ProceedKeeps
<1>10. CASE op.pc = "set"
  <2>1. Return(op, "success", << >>) /\ rt' = r
    BY <1>10 DEF Succeeded
  <2>2. op.request.tool \in {"follow", "detach"} /\ c.name # "info"
    BY <1>1, <1>10 DEF Awaited
  <2> QED
    BY <1>2, <2>1, <2>2, ReturnKeeps
<1>11. CASE op.pc = "refresh"
  <2>1. c.name = "info" /\ op.request.tool \in {"add", "remove", "select", "list"}
    BY <1>1, <1>11 DEF Awaited
  <2>2. PICK p : p = Parsed(text, gdb.ids, gdb.current)
    OBVIOUS
  <2>3. PICK noise \in BOOLEAN : noise = (text # NoText)
    OBVIOUS
  <2>4. PICK o : o = [op EXCEPT !.count = p.count, !.current = p.current, !.noise = noise]
    OBVIOUS
  <2>5. Return(o, "success", << >>) /\ rt' = Refreshed(r, p)
    BY <1>11, <2>2, <2>3, <2>4 DEF Succeeded
  <2>6. /\ p.count \in Nat /\ p.current = gdb.current
        /\ text = NoText => /\ p.count = Cardinality(gdb.ids)
                            /\ Tracked(rt') = gdb.ids
                            /\ rt'.inferior_count = Cardinality(gdb.ids)
    <3>1. gdb.ids \in SUBSET Ids /\ gdb.current \in gdb.ids /\ r \in Runtime /\ text \in Text
      BY <1>2 DEF Gdb, Sound
    <3>2. PICK q : q = Refreshed(r, p)
      OBVIOUS
    <3>3. /\ p.count \in Nat /\ p.current = gdb.current
          /\ text = NoText => /\ p.count = Cardinality(gdb.ids)
                              /\ Tracked(q) = gdb.ids /\ q.inferior_count = Cardinality(gdb.ids)
      BY <2>2, <3>1, <3>2, RefreshedFields
    <3> QED
      BY <2>5, <3>2, <3>3
  <2>7. /\ o \in Op /\ o.request = op.request /\ o.knew = op.knew /\ o.before = op.before
        /\ o.id = op.id /\ o.previous = op.previous
        /\ o.count = p.count /\ o.current = p.current /\ o.noise = noise
    BY <1>2, <2>4, <2>6 DEF Op, Gdb
  <2>8. gdb'.ids = gdb.ids /\ gdb'.current = gdb.current
    BY <1>3, <2>1
  <2>9. (o.request.tool = "add" /\ o.knew) =>
           o.before \in Ids /\ Right(o, "returned", gdb'.current)
    BY <1>4, <1>11, <2>7, <2>8 DEF Right
  <2>10. ~o.noise =>
            /\ o.count = Cardinality(gdb'.ids) /\ o.current = gdb'.current
            /\ Tracked(rt') = gdb'.ids /\ rt'.inferior_count = o.count
    BY <2>3, <2>6, <2>7, <2>8
  <2>11. CallInv'
    BY <2>5, <2>7, <2>9, <2>10, ReturnKeeps
  <2> QED
    BY <2>1, <2>2, <2>5, <2>11
<1> QED
  BY <1>6, <1>7, <1>8, <1>9, <1>10, <1>11 DEF Succeeded

\* The command waited for is executed and answered.
LEMMA ExecutedKeeps ==
    ASSUME IInv, Execute, Head(queue).mine
    PROVE  IInv'
<1>1. PICK c : c = Head(queue)
  OBVIOUS
<1>2. PICK r : r = AfterCommand(Announced(c), c)
  OBVIOUS
<1>3. /\ queue # << >> /\ c.mine /\ c \in Command /\ Tail(queue) = << >> /\ Allowed(c)
      /\ gdb' \in Effect(c) /\ next' = IF c.name = "add" THEN next + 1 ELSE next
      /\ Succeeded(op, next, r, << >>) /\ AllRead
      /\ told' = IF RemovesCurrent(c) THEN rt'.current_inferior_id = gdb'.current
                 ELSE told \/ c.name \in {"inferior", "info"}
      /\ strayed' = IF RemovesCurrent(c) THEN strayed \/ Announced(c).current_thread_id = c.id
                    ELSE strayed /\ c.name # "inferior"
      /\ tools' = tools
  BY <1>1, <1>2, HeadIsMine DEF Execute, Allowed
<1>4. /\ Sound(r)
      /\ r.follow_fork_mode = gdb'.follow /\ r.detach_on_fork = gdb'.detach
      /\ (told \/ c.name = "inferior") /\ ~RemovesCurrent(c)
            => r.current_inferior_id = gdb'.current
      /\ heard.current_inferior_id = gdb.current /\ ~RemovesCurrent(c)
            => r.current_inferior_id = gdb'.current
      /\ strayed' \/ r.current_thread_id \in {None, gdb'.current}
  BY <1>1, <1>2, <1>3, AnswerAgrees
<1>5. /\ CallInv'
      /\ \/ rt' = r /\ c.name # "info"
         \/ c.name = "add" /\ next \in Ids /\ rt' = EnsureInferior(r, next)
         \/ c.name = "info" /\ rt' = Refreshed(r, Parsed(text, gdb.ids, gdb.current))
  BY <1>1, <1>3, <1>4, SucceededKeeps DEF RemovesCurrent
<1>6. /\ gdb' \in Gdb /\ gdb'.current \in gdb'.ids /\ next' \in Nat
      /\ \A i \in gdb'.ids : i < next'
      /\ c.name = "info" => gdb'.current = gdb.current
  BY <1>3, EffectFields DEF RemovesCurrent
<1>7. /\ Sound(rt') /\ SameForks(r, rt') /\ SameThread(r, rt')
      /\ \/ rt'.current_inferior_id = r.current_inferior_id /\ c.name # "info"
         \/ rt'.current_inferior_id = gdb'.current
  <2>1. CASE rt' = r /\ c.name # "info"
    BY <1>4, <2>1 DEF SameForks, SameThread
  <2>2. CASE c.name = "add" /\ next \in Ids /\ rt' = EnsureInferior(r, next)
    BY <1>4, <2>2, EnsureInferiorSound, EnsureInferiorFields DEF Sound
  <2>3. CASE c.name = "info" /\ rt' = Refreshed(r, Parsed(text, gdb.ids, gdb.current))
    <3>1. gdb.ids \in SUBSET Ids /\ gdb.current \in gdb.ids /\ text \in Text /\ r \in Runtime
      BY <1>4 DEF IInv, TypesInv, TypeOK, Gdb, Sound
    <3> QED
      BY <1>6, <2>3, <3>1, RefreshedFields
  <2> QED
    BY <1>5, <2>1, <2>2, <2>3
<1>8. Agrees(rt)'
  BY <1>3, <1>4, <1>7 DEF Agrees, Shows, SameForks, SameThread
<1>9. heard' = rt' /\ news' \in BOOLEAN /\ text' \in Text
  BY <1>3 DEF AllRead, NoText, Text
<1>10. TypesInv'
  <2>1. told' \in BOOLEAN /\ strayed' \in BOOLEAN
    BY <1>3
  <2>2. TypeOK'
    <3>1. tools' \in Usages
      BY <1>3 DEF IInv, TypesInv, TypeOK
    <3> QED
      BY <1>5, <1>6, <1>7, <1>9, <2>1, <3>1 DEF CallInv, TypeOK, Sound
  <2> QED
    BY <1>5, <1>6, <1>7, <1>9, <2>2 DEF TypesInv, CallInv, Both, Sound
<1>11. ForkInv' /\ KnownInv' /\ ThreadInv'
  <2>1. gdb'.current \in Ids /\ Clean(queue')
    BY <1>5, <1>6 DEF Gdb, CallInv, Clean, Sets
  <2> QED
    BY <1>8, <1>9, <2>1, CleanKeeps
<1> QED
  BY <1>5, <1>10, <1>11 DEF IInv, CallInv

-----------------------------------------------------------------------------
(* Inferiors: the theorems *)

\* After start() the runtime shows inferior 1, and so does GDB.
LEMMA InitInvariant == Init => IInv
<1> SUFFICES ASSUME Init PROVE IInv
  OBVIOUS
<1> DEFINE x == [InitialRuntime EXCEPT !.controller = TRUE]
           y == BeginStartup(x)
           z == MarkInferiorNotStarted(y, 1)
<1>1. /\ gdb = [ids |-> {1}, current |-> 1, follow |-> "parent", detach |-> TRUE]
      /\ next = 2 /\ queue = << >>
      /\ rt = MarkReady(z) /\ heard = rt /\ news = FALSE /\ text = NoText
      /\ op = NoOp /\ told = TRUE /\ strayed = FALSE /\ tools \in Usages
  BY DEF Init
<1>2. x \in Runtime
  BY InitialSound, ControllerSet DEF Sound
<1> HIDE DEF x
<1>3. /\ Sound(y) /\ y.follow_fork_mode = None /\ y.detach_on_fork = None
      /\ y.current_inferior_id = None /\ y.current_thread_id = None
  <2>1. Sound(y)
    BY <1>2, BeginStartupSound
  <2> QED
    BY <1>2, <2>1 DEF BeginStartup, ResetTransient, Runtime
<1> HIDE DEF y
<1>4. /\ Sound(z) /\ z.follow_fork_mode = None /\ z.detach_on_fork = None
      /\ z.current_inferior_id = 1 /\ z.current_thread_id = None
  BY <1>3, IdsAssumption, MarkFields DEF SameForks, SameThread
<1> HIDE DEF z
<1>5. /\ Sound(rt) /\ rt.follow_fork_mode = "parent" /\ rt.detach_on_fork = TRUE
      /\ rt.current_inferior_id = 1 /\ rt.current_thread_id = None
  <2>1. PICK q : q = MarkReady(z)
    OBVIOUS
  <2>2. z \in Runtime /\ 1 # None
    BY <1>4, NoneIsNoId DEF Sound
  <2>3. /\ SameThread(z, q) /\ q.current_inferior_id = 1
        /\ q.follow_fork_mode = "parent" /\ q.detach_on_fork = TRUE
    BY <1>4, <2>1, <2>2, ReadyFields
  <2>4. Sound(q)
    BY <2>1, <2>2, MarkReadySound
  <2> QED
    BY <1>1, <1>4, <2>1, <2>3, <2>4 DEF SameThread
<1>6. TypesInv
  <2>1. gdb \in Gdb /\ gdb.ids = {1} /\ gdb.current = 1
    BY <1>1, IdsAssumption DEF Gdb, Modes
  <2>2. op \in Op
    BY <1>1 DEF NoOp, NoRequest, Op, Request, AllTools, Modes
  <2>3. text \in Text /\ queue \in Seq(Command) /\ DOMAIN queue = {}
    BY <1>1 DEF NoText, Text
  <2>4. TypeOK
    BY <1>1, <1>5, <2>1, <2>2, <2>3 DEF TypeOK, Sound
  <2>5. \A i \in gdb.ids : i < next
    BY <1>1, <2>1
  <2> QED
    BY <1>1, <1>5, <2>3, <2>4, <2>5 DEF TypesInv, Both, Sound
<1>7. QueueInv /\ CreateInv /\ InventoryIsTrue
  BY <1>1 DEF QueueInv, CreateInv, InventoryIsTrue, NoOp, Waiting, Idle
<1>8. ForkInv
  <2>1. gdb.follow = "parent" /\ gdb.detach = TRUE /\ DOMAIN queue = {}
    BY <1>1
  <2>2. /\ Settles(queue, "follow", gdb.follow, rt.follow_fork_mode)
        /\ Settles(queue, "detach", gdb.detach, rt.detach_on_fork)
    BY <1>5, <2>1 DEF Settles
  <2> QED
    BY <1>1, <2>2 DEF ForkInv, Both
<1>9. KnownInv
  <2>1. Settles(queue, "inferior", gdb.current, 1)
    BY <1>1, SettlesNone
  <2> QED
    BY <1>1, <1>5, <2>1, IdsAssumption DEF KnownInv, Both
<1>10. ThreadInv
  BY <1>1, <1>5 DEF ThreadInv, Both
<1> QED
  BY <1>6, <1>7, <1>8, <1>9, <1>10 DEF IInv

\* Every step keeps the invariant.
LEMMA StepKeeps == IInv /\ [Next]_vars => IInv'
<1> SUFFICES ASSUME IInv, [Next]_vars PROVE IInv'
  OBVIOUS
<1>1. ASSUME NEW r \in Requests, Call(r) PROVE IInv'
  BY <1>1, CallKeeps
<1>2. CASE Answered
  BY <1>2, AnsweredKeeps
<1>3. CASE TimeOut
  BY <1>3, TimeOutKeeps
<1>4. CASE Execute
  BY <1>4, ExecutedKeeps, ExecutedLateKeeps
<1>5. CASE Refuse
  BY <1>5, RefusedKeeps, RefusedLateKeeps
<1>6. ASSUME NEW i \in Ids, Stops(i) \/ RawThread(i) PROVE IInv'
  BY <1>6, StopsKeeps, RawThreadKeeps
<1>7. CASE Forks
  BY <1>7, ForksKeeps
<1>8. CASE UNCHANGED vars
  BY <1>8 DEF vars, IInv, TypesInv, TypeOK, QueueInv, ForkInv, KnownInv, ThreadInv, CreateInv,
              InventoryIsTrue, Both, Gone, Waiting, Idle, Awaited
<1> QED
  BY <1>1, <1>2, <1>3, <1>4, <1>5, <1>6, <1>7, <1>8 DEF Next

LEMMA Invariant == Spec => []IInv
<1>1. Init => IInv
  BY InitInvariant
<1>2. IInv /\ [Next]_vars => IInv'
  BY StepKeeps
<1> QED
  BY <1>1, <1>2, PTL DEF Spec

\* Once GDB has executed its commands the runtime's current inferior and fork
\* settings are GDB's, given-up commands included, as far as it was told where
\* GDB went.
THEOREM RuntimeKnowsGdbHolds == Spec => []RuntimeKnowsGdb
<1>1. IInv => RuntimeKnowsGdb
  BY CleanAgrees DEF RuntimeKnowsGdb, CurrentIsKnown, ForkSettingsAreReal, Quiet, Clean, Agrees, Shows
<1> QED
  BY <1>1, Invariant, PTL

\* A successful answer, and the runtime with it, shows GDB's inferiors.
THEOREM InventoryIsTrueHolds == Spec => []InventoryIsTrue
<1>1. IInv => InventoryIsTrue
  BY DEF IInv
<1> QED
  BY <1>1, Invariant, PTL

\* A successful create ends where it was asked to.
THEOREM CreateKeepsSelectionHolds == Spec => []CreateKeepsSelection
<1>1. IInv => CreateKeepsSelection
  BY DEF IInv, QueueInv, CreateInv, Right, CreateKeepsSelection, Idle
<1> QED
  BY <1>1, Invariant, PTL

\* The runtime's thread is one of the inferior it shows, unless the word that
\* this thread was left never reached it.
THEOREM ThreadOfCurrentHolds == Spec => []ThreadOfCurrent
<1>1. IInv => ThreadOfCurrent
  BY CleanAgrees DEF ThreadOfCurrent, Quiet, Clean, Agrees, Shows
<1> QED
  BY <1>1, Invariant, PTL

\* Whatever is given up and executed late, GDB's tables, the unread output and
\* the runtime stay well typed, and GDB's current inferior is one of its own.
THEOREM InferiorsTypeCorrect == Spec => []TypeOK
<1>1. IInv => TypeOK
  BY DEF IInv, TypesInv
<1> QED
  BY <1>1, Invariant, PTL
=============================================================================
