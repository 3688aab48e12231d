--------------------------- MODULE WorkflowProofs ---------------------------
(***************************************************************************)
(* Proofs about Workflow, for every number of iterations and steps, every  *)
(* set of failure predicates and every limit of the stop history.          *)
(***************************************************************************)
EXTENDS Workflow, RuntimeStateProofs

-----------------------------------------------------------------------------
(* The inductive invariant *)

CampaignSteps == {"start", "run", "capture", "cleanup"}

\* While the iteration's debugger may be alive.
Iterating == job.kind = "campaign" /\ job.pc \in {"step", "run", "capture", "cleanup"}

\* The steps a job takes are those of its kind, and a job has a status once it
\* returns or an exception ends it.
KindInv ==
    /\ job.pc = "idle" => job = NoJob
    /\ job.pc \in CampaignSteps => job.kind = "campaign"
    /\ job.pc = "step" => job.kind \in {"batch", "campaign"}
    /\ job.kind \in {"none", "batch"} => job.iteration = 0
    /\ job.kind = "campaign" => job.iteration > 0 /\ job.criteria \in Criteria
    /\ job.pc \in {"idle", "step", "start", "run", "capture"} => job.status = "none"
    /\ job.pc = "cleanup" => job.status \in {"none", "raised"}

\* The runtimes show their selected inferior and have a recent history.
RuntimeInv == \A s \in Sessions : Sound(rt[s]) /\ Recent(rt[s])

\* The iteration's debugger is there exactly as long as its session has a
\* controller; the ones that could not be ended are of earlier iterations.
DebuggerInv ==
    /\ NoDebuggerLeft
    /\ Iterating => (rt["temporary"].controller <=> job.iteration \in alive)
    /\ (Iterating \/ job.pc = "start") => stuck \subseteq 1..(job.iteration - 1)
    /\ job.kind # "campaign" => stuck = {}

\* The stops of the temporary session are this iteration's.
EventInv ==
    /\ (job.kind = "campaign" /\ job.pc \in {"step", "run"}) =>
           LET e == rt["temporary"].last_stop_event
           IN  e # None => e.iteration = job.iteration
    /\ job.pc = "start" => job.event = None /\ job.results = << >>
    /\ JudgedByItsOwn

\* The summaries of the iterations so far: none of the earlier ones matched.
Unmatched(n) == \A i \in 1..n : job.iterations[i].matched = FALSE

RunTriggers == Triggers \ {"startup_error", "setup_error"}

CampaignInv ==
    /\ job.kind = "campaign" /\ job.pc \in {"start", "step", "run"} =>
          /\ Len(job.iterations) = job.iteration - 1 /\ Unmatched(job.iteration - 1)
          /\ job.trigger = None /\ ~job.bundle
    /\ job.pc \in {"capture", "cleanup"} /\ job.status = "none" =>
          /\ Len(job.iterations) = job.iteration /\ Unmatched(job.iteration - 1)
          /\ job.iterations[job.iteration] = [matched |-> job.trigger # None, trigger |-> job.trigger]
          /\ job.bundle => job.trigger \in RunTriggers
    /\ job.pc = "capture" => job.trigger \in RunTriggers
    /\ CampaignIsCoherent

\* The steps of a batch that goes on have succeeded, or errors are passed over.
BatchInv ==
    /\ job.kind = "batch" /\ job.pc = "step" =>
          /\ Len(job.results) < job.steps /\ ~job.stopped_early
          /\ job.fail_fast => \A i \in DOMAIN job.results : job.results[i].ok
    /\ job.kind = "campaign" /\ job.pc = "step" => Len(job.results) < job.steps
    /\ BatchEndsWhereAsked
    /\ BatchReportsStopsEarly

IInv == TypeOK /\ KindInv /\ RuntimeInv /\ DebuggerInv /\ EventInv /\ CampaignInv /\ BatchInv


-----------------------------------------------------------------------------
(* What one call does to a runtime *)

\* A session that start() has made ready.
LEMMA StartedSound ==
    /\ Sound(Started) /\ Recent(Started) /\ Started.controller = TRUE
    /\ Started.last_stop_event = None
<1> DEFINE a == [InitialRuntime EXCEPT !.controller = TRUE]
           b == BeginStartup(a)
           c == MarkInferiorNotStarted(b, 1)
<1>1. Sound(a) /\ a.controller = TRUE
  BY InitialSound, ControllerSet
<1> HIDE DEF a
<1>2. Sound(b) /\ Recent(b) /\ b.controller = TRUE /\ b.last_stop_event = None
  BY <1>1, BeginStartupSound DEF Sound
<1> HIDE DEF b
<1>3. Sound(c) /\ SameSession(b, c)
  BY <1>2, MarksSound, NoneIsNoId DEF Sound
<1>4. Started = MarkReady(c)
  BY DEF Started, a, b
<1> HIDE DEF c
<1>5. /\ Sound(Started) /\ Started.controller = c.controller
      /\ Started.last_stop_event = c.last_stop_event /\ Started.stop_history = c.stop_history
  BY <1>3, <1>4, MarkReadySound DEF Sound
<1> QED
  BY <1>2, <1>3, <1>5 DEF SameSession, Recent

\* A stop is recorded in a session that is otherwise as before.
LEMMA StoppedSound ==
    ASSUME NEW r, Sound(r), NEW e \in StopEvents
    PROVE  LET q == Stopped(r, e) IN
           /\ Sound(q) /\ Recent(q) /\ q.controller = r.controller
           /\ q.last_stop_event = e
           /\ Len(q.stop_history) = IF Len(r.stop_history) < StopHistoryLimit
                                   THEN Len(r.stop_history) + 1 ELSE StopHistoryLimit
<1> DEFINE code == CHOOSE c \in ExitCodes : TRUE
           b == IF e.reason \in ExitReasons THEN MarkInferiorExited(r, None, e.reason, code)
                ELSE MarkInferiorPaused(r, None, e.reason)
<1>1. code \in ExitCodes /\ e.reason \in Reasons
  BY WorkflowAssumption
<1>2. Stopped(r, e) = RecordStopEvent(b, e)
  BY DEF Stopped
<1> HIDE DEF code
<1>3. Sound(b) /\ SameSession(r, b)
  BY <1>1, MarksSound DEF Sound
<1> HIDE DEF b
<1>4. LET q == RecordStopEvent(b, e) IN
      /\ Sound(q) /\ Recent(q) /\ q.controller = b.controller
      /\ q.last_stop_event = e
      /\ Len(q.stop_history) = IF Len(b.stop_history) < StopHistoryLimit
                              THEN Len(b.stop_history) + 1 ELSE StopHistoryLimit
  BY <1>3, RecordStopEventSound
<1> QED
  BY <1>2, <1>3, <1>4 DEF SameSession

\* The end of a session whose transport is closed keeps the history only.
LEMMA ClosedSound ==
    ASSUME NEW r, Sound(r), Recent(r)
    PROVE  LET c == [r EXCEPT !.controller = FALSE]
           IN  \A q \in {MarkTransportTerminated(r), MarkFailed(c), MarkStopped(c)} :
                  /\ Sound(q) /\ Recent(q) /\ q.controller = FALSE
                  /\ q.last_stop_event = r.last_stop_event /\ q.stop_history = r.stop_history
<1> DEFINE c == [r EXCEPT !.controller = FALSE]
<1>1. /\ Sound(c) /\ c.controller = FALSE
      /\ c.last_stop_event = r.last_stop_event /\ c.stop_history = r.stop_history
  BY ControllerSet
<1>2. MarkTransportTerminated(r) = MarkFailed(c) /\ c \in Runtime
  BY <1>1 DEF MarkTransportTerminated, Sound
<1> HIDE DEF c
<1>3. ASSUME NEW q \in {MarkFailed(c), MarkStopped(c)}
      PROVE  /\ Sound(q) /\ Recent(q) /\ q.controller = FALSE
             /\ q.last_stop_event = r.last_stop_event /\ q.stop_history = r.stop_history
  <2>1. /\ Sound(q) /\ q.controller = c.controller
        /\ q.last_stop_event = c.last_stop_event /\ q.stop_history = c.stop_history
    BY <1>2, EndedSound
  <2> QED
    BY <1>1, <2>1 DEF Recent
<1> QED
  BY <1>2, <1>3 DEF c

\* Every outcome of a call leaves a sound runtime; it opens no transport, and
\* either records one stop of its own, as the newest, or none.
LEMMA OutcomesSound ==
    ASSUME NEW r, Sound(r), Recent(r), NEW phase \in Phases, NEW i \in 0..MaxIterations,
           NEW o \in Outcomes(r, phase, i)
    PROVE  LET q == o.runtime IN
           /\ Sound(q) /\ Recent(q) /\ (q.controller => r.controller)
           /\ o.result \in {"error", "timeout", "success", "raised"}
           /\ \/ /\ o.event = None
                 /\ q.last_stop_event = r.last_stop_event /\ q.stop_history = r.stop_history
              \/ /\ o.event \in StopEvents /\ o.event.phase = phase /\ o.event.iteration = i
                 /\ q.last_stop_event = o.event
                 /\ Len(q.stop_history) = IF Len(r.stop_history) < StopHistoryLimit
                                         THEN Len(r.stop_history) + 1 ELSE StopHistoryLimit
<1>1. \A x, y, z : LET t == Outcome(x, y, z)
                   IN  t.runtime = x /\ t.event = y /\ t.result = z
  BY DEF Outcome
<1>2. \/ \E z \in {"error", "timeout", "success", "raised"} : o = Outcome(r, None, z)
      \/ o = Outcome(MarkInferiorRunning(r, None), None, "timeout")
      \/ o = Outcome(MarkTransportTerminated(r), None, "error")
      \/ \E e \in StopEvents : /\ e.phase = phase /\ e.iteration = i
                               /\ o = Outcome(Stopped(r, e), e, "success")
  BY DEF Outcomes
<1>3. CASE \E z \in {"error", "timeout", "success", "raised"} : o = Outcome(r, None, z)
  BY <1>1, <1>3
<1>4. CASE o = Outcome(MarkInferiorRunning(r, None), None, "timeout")
  <2>1. o.runtime = MarkInferiorRunning(r, None) /\ o.event = None /\ o.result = "timeout"
    BY <1>1, <1>4
  <2>2. Sound(o.runtime) /\ SameSession(r, o.runtime)
    BY <2>1, MarksSound DEF Sound
  <2> QED
    BY <2>1, <2>2 DEF SameSession, Recent
<1>5. CASE o = Outcome(MarkTransportTerminated(r), None, "error")
  <2>1. o.runtime = MarkTransportTerminated(r) /\ o.event = None /\ o.result = "error"
    BY <1>1, <1>5
  <2> QED
    BY <2>1, ClosedSound
<1>6. CASE \E e \in StopEvents : /\ e.phase = phase /\ e.iteration = i
                                /\ o = Outcome(Stopped(r, e), e, "success")
  <2>1. PICK e \in StopEvents : /\ e.phase = phase /\ e.iteration = i
                               /\ o = Outcome(Stopped(r, e), e, "success")
    BY <1>6
  <2>2. o.runtime = Stopped(r, e) /\ o.event = e /\ o.result = "success"
    BY <1>1, <2>1
  <2> QED
    BY <2>1, <2>2, StoppedSound
<1> QED
  BY <1>2, <1>3, <1>4, <1>5, <1>6

\* _matches_failure names one of the predicates about a run, or none.
LEMMA MatchesFailureType ==
    ASSUME NEW c, NEW result, NEW r, NEW event, NEW found
    PROVE  MatchesFailure(c, result, r, event, found) \in RunTriggers \cup {None}
<1> DEFINE reason == IF event # None THEN event.reason ELSE r.stop_reason
           order == <<"timeout", "run_error", "stop_reason", "execution_state", "exit_code",
                      "result_text_regex">>
           holds == <<c.failure_on_timeout /\ result = "timeout",
                      c.failure_on_error /\ result # "success",
                      reason \in c.stop_reasons,
                      r.execution_state \in c.execution_states,
                      r.exit_code \in c.exit_codes,
                      c.regex /\ found>>
           hits == {i \in 1..6 : holds[i]}
           first == CHOOSE i \in hits : \A k \in hits : i <= k
<1>1. MatchesFailure(c, result, r, event, found) = IF hits = {} THEN None ELSE order[first]
  BY Zenon DEF MatchesFailure
<1>2. hits \in SUBSET (1..6)
  BY Zenon
<1> HIDE DEF hits
<1>3. ASSUME hits # {} PROVE first \in 1..6
  <2>1. hits \in SUBSET Nat
    BY <1>2
  <2>2. \E x \in hits : \A y \in hits : x <= y
    BY <1>3, <2>1, LeastExists
  <2> QED
    BY <1>2, <2>2
<1> HIDE DEF first
<1>4. \A k \in 1..6 : order[k] \in RunTriggers
  BY DEF RunTriggers, Triggers
<1> QED
  BY <1>1, <1>3, <1>4

-----------------------------------------------------------------------------
(* The steps of a job *)

LEMMA NoJobType == NoJob \in Job
BY WorkflowAssumption DEF NoJob, Job

\* Before any call, the client's session is ready and there is no other GDB.
LEMMA InitInvariant == Init => IInv
<1> SUFFICES ASSUME Init PROVE IInv
  OBVIOUS
<1>1. rt = [own |-> Started, temporary |-> InitialRuntime] /\ alive = {0} /\ stuck = {}
      /\ job = NoJob
  BY DEF Init
<1>2. rt["own"] = Started /\ rt["temporary"] = InitialRuntime
  BY <1>1
<1>3. Sound(Started) /\ Recent(Started) /\ Sound(InitialRuntime) /\ Recent(InitialRuntime)
  BY StartedSound, InitialSound
<1>4. RuntimeInv
  BY <1>2, <1>3 DEF RuntimeInv, Sessions
<1>5. rt \in [Sessions -> Runtime]
  BY <1>1, <1>3 DEF Sessions, Sound
<1>7. TypeOK
  BY <1>1, <1>5, NoJobType, WorkflowAssumption DEF TypeOK
<1>8. /\ job.kind = "none" /\ job.pc = "idle" /\ job.event = None /\ job.iteration = 0
      /\ job.status = "none"
  BY <1>1 DEF NoJob
<1> QED
  BY <1>1, <1>4, <1>7, <1>8
  DEF IInv, KindInv, DebuggerInv, EventInv, CampaignInv, BatchInv, NoDebuggerLeft, Iterating,
      CampaignSteps, JudgedByItsOwn, CampaignIsCoherent, BatchEndsWhereAsked,
      BatchReportsStopsEarly

\* One session's runtime is replaced.
LEMMA SessionSet ==
    ASSUME IInv, NEW s \in Sessions, NEW r, Sound(r), Recent(r), rt' = [rt EXCEPT ![s] = r]
    PROVE  /\ rt' \in [Sessions -> Runtime] /\ RuntimeInv' /\ rt'[s] = r
           /\ \A t \in Sessions \ {s} : rt'[t] = rt[t]
<1>1. rt \in [Sessions -> Runtime] /\ \A t \in Sessions : Sound(rt[t]) /\ Recent(rt[t])
  BY DEF IInv, TypeOK, RuntimeInv
<1>2. r \in Runtime
  BY DEF Sound
<1>3. /\ rt' \in [Sessions -> Runtime] /\ rt'[s] = r
      /\ \A t \in Sessions \ {s} : rt'[t] = rt[t]
  BY <1>1, <1>2
<1>4. RuntimeInv'
  BY <1>1, <1>3 DEF RuntimeInv
<1> QED
  BY <1>3, <1>4

\* The debuggers, as long as an iteration is under way or none is.
Debuggers(i) ==
    /\ alive \subseteq 0..MaxIterations /\ stuck \subseteq alive
    /\ alive \ ({0} \cup stuck) \subseteq {i}
    /\ rt["temporary"].controller <=> i \in alive
    /\ stuck \subseteq 1..(i - 1)

NoDebuggers ==
    /\ alive \subseteq 0..MaxIterations /\ stuck \subseteq alive
    /\ alive \subseteq {0} \cup stuck

\* What a call to the session of the job does to the debuggers.
LEMMA ApplyOwn ==
    ASSUME IInv, job.kind # "campaign", NEW r, Sound(r), Recent(r), Apply("own", 0, r)
    PROVE  rt' \in [Sessions -> Runtime] /\ RuntimeInv' /\ NoDebuggers' /\ stuck' = {}
           /\ rt'["own"] = r
<1>1. /\ rt' = [rt EXCEPT !["own"] = r] /\ stuck' = stuck
      /\ alive' = IF r.controller THEN alive ELSE alive \ {0}
  BY DEF Apply
<1>2. rt' \in [Sessions -> Runtime] /\ RuntimeInv' /\ rt'["own"] = r
  BY <1>1, SessionSet DEF Sessions
<1>3. alive \subseteq 0..MaxIterations /\ stuck = {} /\ alive \subseteq {0}
  BY DEF IInv, TypeOK, DebuggerInv, NoDebuggerLeft
<1>4. alive' \subseteq alive
  BY <1>1
<1>5. NoDebuggers'
  BY <1>1, <1>3, <1>4 DEF NoDebuggers
<1> QED
  BY <1>1, <1>2, <1>3, <1>5

LEMMA ApplyTemporary ==
    ASSUME IInv, Iterating, NEW i \in 1..MaxIterations, i = job.iteration,
           NEW r, Sound(r), Recent(r),
           r.controller => rt["temporary"].controller, Apply("temporary", i, r)
    PROVE  rt' \in [Sessions -> Runtime] /\ RuntimeInv' /\ Debuggers(i)'
           /\ rt'["temporary"] = r
<1>1. /\ rt' = [rt EXCEPT !["temporary"] = r] /\ stuck' = stuck
      /\ alive' = IF r.controller THEN alive ELSE alive \ {i}
  BY DEF Apply
<1>2. rt' \in [Sessions -> Runtime] /\ RuntimeInv' /\ rt'["temporary"] = r
  BY <1>1, SessionSet DEF Sessions
<1>3. Debuggers(i)
  BY DEF IInv, TypeOK, DebuggerInv, NoDebuggerLeft, Iterating, Debuggers
<1>4. i \notin stuck
  BY <1>3, WorkflowAssumption DEF Debuggers
<1>5. CASE r.controller
  BY <1>1, <1>2, <1>3, <1>5 DEF Debuggers
<1>6. CASE ~r.controller
  BY <1>1, <1>2, <1>3, <1>4, <1>6 DEF Debuggers
<1> QED
  BY <1>2, <1>5, <1>6

\* An iteration goes on, or no debugger is left: what the next job may be.
LEMMA DebuggersNext ==
    ASSUME job'.kind = "campaign", NEW i, i = job'.iteration,
           job'.pc \in {"step", "run", "capture", "cleanup"}, Debuggers(i)'
    PROVE  DebuggerInv'
BY DEF Debuggers, DebuggerInv, NoDebuggerLeft, Iterating

LEMMA NoDebuggersNext ==
    ASSUME NoDebuggers',
           \/ job'.kind # "campaign" /\ stuck' = {}
           \/ /\ job'.kind = "campaign" /\ job'.pc \in {"start", "returned"}
              /\ job'.pc = "start" => stuck' \subseteq 1..(job'.iteration - 1)
    PROVE  DebuggerInv'
BY DEF NoDebuggers, DebuggerInv, NoDebuggerLeft, Iterating

\* A call to the client's session while no batch or campaign is under way.
LEMMA OtherCallKeeps == ASSUME IInv, OtherCall PROVE IInv'
<1>1. PICK o \in Outcomes(rt["own"], "other", 0) : Apply("own", 0, o.runtime)
  BY DEF OtherCall
<1>2. job' = job /\ job = NoJob
  BY DEF OtherCall, IInv, KindInv
<1>3. /\ job.kind = "none" /\ job.pc = "idle" /\ job.event = None /\ job.status = "none"
  BY <1>2 DEF NoJob
<1>4. Sound(rt["own"]) /\ Recent(rt["own"])
  BY DEF IInv, RuntimeInv, Sessions
<1>5. Sound(o.runtime) /\ Recent(o.runtime)
  BY <1>4, OutcomesSound, WorkflowAssumption DEF Phases
<1>6. /\ rt' \in [Sessions -> Runtime] /\ RuntimeInv' /\ NoDebuggers' /\ stuck' = {}
  BY <1>1, <1>3, <1>5, ApplyOwn
<1>7. TypeOK'
  BY <1>2, <1>6 DEF NoDebuggers, TypeOK, IInv
<1>8. DebuggerInv'
  BY <1>2, <1>3, <1>6, NoDebuggersNext
<1> QED
  BY <1>2, <1>3, <1>6, <1>7, <1>8
  DEF IInv, KindInv, EventInv, CampaignInv, BatchInv, CampaignSteps, JudgedByItsOwn,
      CampaignIsCoherent, BatchEndsWhereAsked, BatchReportsStopsEarly

\* A job that has not begun, or is over without a report.
LEMMA BlankJob ==
    ASSUME \/ job' = NoJob
           \/ \E s \in {"validation_error", "raised"} :
                 job' = [NoJob EXCEPT !.pc = "returned", !.status = s],
           rt' \in [Sessions -> Runtime], RuntimeInv', NoDebuggers', stuck' = {}
    PROVE  IInv'
<1>1. /\ job' \in Job
      /\ job'.kind = "none" /\ job'.pc \in {"idle", "returned"} /\ job'.event = None
      /\ job'.status \in {"none", "validation_error", "raised"} /\ job'.iteration = 0
      /\ job'.pc = "idle" => job' = NoJob /\ job'.status = "none"
  <2>1. CASE job' = NoJob
    BY <2>1, NoJobType DEF NoJob
  <2>2. ASSUME NEW s \in {"validation_error", "raised"},
               job' = [NoJob EXCEPT !.pc = "returned", !.status = s]
        PROVE  /\ job' \in Job /\ job'.kind = "none" /\ job'.pc = "returned" /\ job'.event = None
               /\ job'.status = s /\ job'.iteration = 0
    <3>1. job' \in Job
      BY <2>2, NoJobType DEF Job
    <3> QED
      BY <2>2, <3>1 DEF NoJob
  <2> QED
    BY <2>1, <2>2
<1>2. TypeOK'
  BY <1>1 DEF NoDebuggers, TypeOK
<1>3. DebuggerInv'
  BY <1>1, NoDebuggersNext
<1> QED
  BY <1>1, <1>2, <1>3
  DEF IInv, KindInv, EventInv, CampaignInv, BatchInv, CampaignSteps, JudgedByItsOwn,
      CampaignIsCoherent, BatchEndsWhereAsked, BatchReportsStopsEarly

\* run_batch and run_until_failure: the steps are validated before anything runs.
LEMMA CallKeeps ==
    ASSUME IInv, NEW n \in 0..MaxSteps, NEW ff \in BOOLEAN, NEW cap \in BOOLEAN,
           (BatchCall(n, ff, cap) /\ n > 0) \/ \E c \in Criteria : CampaignCall(n, cap, c)
    PROVE  IInv'
<1>1. job = NoJob /\ UNCHANGED <<rt, alive, stuck>>
  BY DEF BatchCall, CampaignCall, IInv, KindInv
<1>2. job.kind = "none" /\ job.pc = "idle"
  BY <1>1 DEF NoJob
<1>3. /\ rt' \in [Sessions -> Runtime] /\ RuntimeInv' /\ NoDebuggers' /\ stuck' = {}
  BY <1>1, <1>2
  DEF IInv, TypeOK, RuntimeInv, DebuggerInv, NoDebuggerLeft, NoDebuggers, Iterating
<1>4. CASE job' = Rejected
  BY <1>3, <1>4, BlankJob DEF Rejected
<1>5. CASE n > 0 /\ job' = [NoJob EXCEPT !.kind = "batch", !.pc = "step", !.steps = n,
                                        !.fail_fast = ff, !.capture = cap]
  <2>1. job' \in Job
    BY ZenonT(60), <1>5, NoJobType DEF Job
  <2>2. /\ job'.kind = "batch" /\ job'.pc = "step" /\ job'.steps = n /\ job'.results = << >>
        /\ job'.iteration = 0 /\ job'.status = "none" /\ job'.event = None
        /\ ~job'.stopped_early
    BY <1>5 DEF NoJob
  <2>3. TypeOK'
    BY <1>3, <2>1 DEF NoDebuggers, TypeOK
  <2>4. DebuggerInv'
    BY <1>3, <2>2, NoDebuggersNext
  <2>5. Len(job'.results) = 0 /\ DOMAIN job'.results = {}
    BY <2>2
  <2>6. KindInv' /\ EventInv' /\ CampaignInv'
    BY <2>2 DEF KindInv, EventInv, CampaignInv, CampaignSteps, JudgedByItsOwn, CampaignIsCoherent
  <2>7. BatchInv'
    BY <1>5, <2>2, <2>5 DEF BatchInv, BatchEndsWhereAsked, BatchReportsStopsEarly
  <2> QED
    BY <1>3, <2>3, <2>4, <2>6, <2>7 DEF IInv
<1>6. CASE \E c \in Criteria :
              job' = [NoJob EXCEPT !.kind = "campaign", !.pc = "start", !.steps = n,
                                   !.capture = cap, !.criteria = c, !.iteration = 1]
  <2>1. PICK c \in Criteria :
              job' = [NoJob EXCEPT !.kind = "campaign", !.pc = "start", !.steps = n,
                                   !.capture = cap, !.criteria = c, !.iteration = 1]
    BY <1>6
  <2>2. job' \in Job
    <3>1. 1 \in 0..MaxIterations
      BY WorkflowAssumption
    <3> QED
      BY ZenonT(60), <2>1, <3>1, NoJobType DEF Job
  <2>3. /\ job'.kind = "campaign" /\ job'.pc = "start" /\ job'.results = << >>
        /\ job'.iteration = 1 /\ job'.status = "none" /\ job'.event = None
        /\ job'.criteria = c /\ job'.iterations = << >> /\ job'.trigger = None /\ ~job'.bundle
    BY <2>1 DEF NoJob
  <2>4. TypeOK'
    BY <1>3, <2>2 DEF NoDebuggers, TypeOK
  <2>5. DebuggerInv'
    BY <1>3, <2>3, NoDebuggersNext
  <2>6. Len(job'.iterations) = 0
    BY <2>3
  <2>7. KindInv' /\ EventInv' /\ BatchInv'
    BY <2>3 DEF KindInv, EventInv, BatchInv, CampaignSteps, JudgedByItsOwn, BatchEndsWhereAsked,
                BatchReportsStopsEarly
  <2>8. CampaignInv'
    BY <2>3, <2>6 DEF CampaignInv, CampaignIsCoherent, Unmatched
  <2> QED
    BY <1>3, <2>4, <2>5, <2>7, <2>8 DEF IInv
<1> QED
  BY <1>1, <1>4, <1>5, <1>6 DEF BatchCall, CampaignCall

\* The answer is sent; a stuck debugger is of no further interest.
LEMMA AnsweredKeeps == ASSUME IInv, Answered PROVE IInv'
<1>1. /\ job' = NoJob /\ rt' = [rt EXCEPT !["temporary"] = InitialRuntime]
      /\ alive' = alive \ stuck /\ stuck' = {} /\ job.pc = "returned"
  BY DEF Answered
<1>2. rt' \in [Sessions -> Runtime] /\ RuntimeInv'
  BY <1>1, InitialSound, SessionSet DEF Sessions
<1>3. NoDebuggers'
  BY <1>1 DEF IInv, TypeOK, DebuggerInv, NoDebuggerLeft, NoDebuggers
<1> QED
  BY <1>1, <1>2, <1>3, BlankJob

\* What is known of a campaign before its iteration is judged.
LEMMA CampaignFacts ==
    ASSUME IInv, job.kind = "campaign", job.pc \in {"start", "step", "run"}
    PROVE  /\ job \in Job /\ job.iteration \in 1..MaxIterations /\ job.criteria \in Criteria
           /\ job.status = "none" /\ job.trigger = None /\ ~job.bundle
           /\ job.iterations \in Seq(Summary) /\ Len(job.iterations) = job.iteration - 1
           /\ \A k \in 1..(job.iteration - 1) : job.iterations[k].matched = FALSE
<1>1. job \in Job
  BY DEF IInv, TypeOK
<1>2. job.iteration \in 0..MaxIterations /\ job.iterations \in Seq(Summary)
  BY <1>1 DEF Job
<1>3. job.iteration > 0 /\ job.criteria \in Criteria /\ job.status = "none"
  BY DEF IInv, KindInv
<1>4. job.iteration \in 1..MaxIterations
  BY <1>2, <1>3, WorkflowAssumption
<1> QED
  BY <1>1, <1>2, <1>3, <1>4 DEF IInv, CampaignInv, Unmatched

\* The end of an iteration with a summary that may be a match.
Ends(j, trigger, pc) ==
    [j EXCEPT !.iterations = Append(@, [matched |-> trigger # None, trigger |-> trigger]),
              !.trigger = trigger, !.pc = pc]

\* An iteration is summarised: by an error before its run, or as judged.
LEMMA SummaryKeeps ==
    ASSUME IInv, job.kind = "campaign", job.pc \in {"start", "step", "run"},
           NEW j \in Job, NEW t \in Triggers \cup {None}, NEW p \in {"capture", "cleanup"},
           p = "capture" => t \in RunTriggers,
           j.kind = job.kind, j.iteration = job.iteration, j.criteria = job.criteria,
           j.status = job.status, j.bundle = job.bundle, j.iterations = job.iterations,
           j.event # None => /\ j.event.iteration = j.iteration
                             /\ j.ran => j.event.phase = "run",
           job' = Ends(j, t, p),
           rt' \in [Sessions -> Runtime], RuntimeInv',
           NEW i, i = job.iteration, Debuggers(i)'
    PROVE  IInv'
<1> DEFINE m == [matched |-> t # None, trigger |-> t]
<1>1. /\ job \in Job /\ i \in 1..MaxIterations /\ job.criteria \in Criteria
      /\ job.status = "none" /\ job.trigger = None /\ ~job.bundle
      /\ job.iterations \in Seq(Summary) /\ Len(job.iterations) = i - 1
      /\ \A k \in 1..(i - 1) : job.iterations[k].matched = FALSE
  BY CampaignFacts
<1>2. m \in Summary /\ m.trigger = t /\ (m.matched <=> t # None)
  BY DEF Summary
<1>3. job' = [j EXCEPT !.iterations = Append(j.iterations, m), !.trigger = t, !.pc = p]
  BY DEF Ends, Job
<1> HIDE DEF m
<1>4. Append(j.iterations, m) \in Seq(Summary)
  BY <1>1, <1>2
<1>5. job' \in Job
  BY ZenonT(60), <1>3, <1>4 DEF Job
<1>6. /\ job'.kind = "campaign" /\ job'.pc = p /\ job'.iteration = i
      /\ job'.criteria = job.criteria /\ job'.status = "none" /\ job'.trigger = t
      /\ job'.bundle = job.bundle /\ job'.event = j.event /\ job'.ran = j.ran
      /\ job'.iterations = Append(job.iterations, m)
  BY <1>1, <1>3 DEF Job
<1>7. /\ Len(job'.iterations) = i /\ job'.iterations[i] = m
      /\ \A k \in 1..(i - 1) : job'.iterations[k].matched = FALSE
  BY <1>1, <1>2, <1>6
<1>8. TypeOK'
  BY <1>5 DEF TypeOK, Debuggers
<1>9. DebuggerInv'
  BY <1>6, DebuggersNext
<1>10. KindInv' /\ EventInv' /\ BatchInv'
  BY <1>1, <1>6 DEF KindInv, EventInv, BatchInv, CampaignSteps, JudgedByItsOwn,
                    BatchEndsWhereAsked, BatchReportsStopsEarly
<1>11. CampaignInv'
  <2>1. Unmatched(job.iteration - 1)'
    BY <1>6, <1>7 DEF Unmatched
  <2> QED
    BY <1>1, <1>6, <1>7, <2>1 DEF CampaignInv, CampaignIsCoherent, m
<1> QED
  BY <1>8, <1>9, <1>10, <1>11 DEF IInv

\* The iteration goes on with its setup steps or its run.
LEMMA GoesOnKeeps ==
    ASSUME IInv, job.kind = "campaign", job.pc \in {"start", "step"},
           NEW j \in Job, NEW p \in {"step", "run"}, job' = [j EXCEPT !.pc = p],
           j.kind = job.kind, j.iteration = job.iteration, j.criteria = job.criteria,
           j.status = job.status, j.bundle = job.bundle, j.iterations = job.iterations,
           j.trigger = job.trigger, j.event = job.event, j.ran = job.ran,
           p = "step" => Len(j.results) < j.steps,
           rt' \in [Sessions -> Runtime], RuntimeInv',
           NEW i, i = job.iteration, Debuggers(i)',
           LET e == rt'["temporary"].last_stop_event IN e # None => e.iteration = i
    PROVE  IInv'
<1>1. /\ job \in Job /\ i \in 1..MaxIterations /\ job.criteria \in Criteria
      /\ job.status = "none" /\ job.trigger = None /\ ~job.bundle
      /\ job.iterations \in Seq(Summary) /\ Len(job.iterations) = i - 1
      /\ \A k \in 1..(i - 1) : job.iterations[k].matched = FALSE
  BY CampaignFacts
<1>2. job' \in Job
  BY DEF Job
<1>3. /\ job'.kind = "campaign" /\ job'.pc = p /\ job'.iteration = i
      /\ job'.criteria = job.criteria /\ job'.status = "none" /\ job'.trigger = None
      /\ job'.bundle = job.bundle /\ job'.event = job.event /\ job'.ran = job.ran
      /\ job'.iterations = job.iterations
      /\ job'.results = j.results /\ job'.steps = j.steps
  BY <1>1 DEF Job
<1>4. TypeOK'
  BY <1>2 DEF TypeOK, Debuggers
<1>5. DebuggerInv'
  BY <1>3, DebuggersNext
<1>6. KindInv' /\ BatchInv'
  BY <1>1, <1>3 DEF KindInv, BatchInv, CampaignSteps, BatchEndsWhereAsked, BatchReportsStopsEarly
<1>7. EventInv'
  BY <1>1, <1>3 DEF IInv, EventInv, JudgedByItsOwn
<1>8. CampaignInv'
  <2>1. Unmatched(job.iteration - 1)'
    BY <1>1, <1>3 DEF Unmatched
  <2> QED
    BY <1>1, <1>3, <2>1 DEF CampaignInv, CampaignIsCoherent
<1> QED
  BY <1>4, <1>5, <1>6, <1>7, <1>8 DEF IInv

\* start() of the iteration's session.
LEMMA CampaignStartKeeps == ASSUME IInv, CampaignStart PROVE IInv'
<1>1. job.pc = "start" /\ job.kind = "campaign" /\ stuck' = stuck
  BY DEF CampaignStart, IInv, KindInv, CampaignSteps
<1>2. PICK i \in 1..MaxIterations : i = job.iteration
  BY <1>1, CampaignFacts
<1>3. /\ job \in Job /\ job.results = << >> /\ job.event = None /\ job.trigger = None
      /\ job.steps \in Nat
  <2>1. job \in Job /\ job.trigger = None
    BY <1>1, CampaignFacts
  <2>2. job.steps \in 0..MaxSteps
    BY <2>1 DEF Job
  <2>3. job.steps \in Nat
    BY <2>2, WorkflowAssumption
  <2> QED
    BY <1>1, <2>1, <2>3 DEF IInv, EventInv
<1>4. /\ alive \subseteq 0..MaxIterations /\ stuck \subseteq alive /\ stuck \subseteq 1..(i - 1)
      /\ alive \subseteq {0} \cup stuck
  BY <1>1, <1>2 DEF IInv, TypeOK, DebuggerInv, NoDebuggerLeft
<1>5. i \notin alive /\ i \in 0..MaxIterations
  BY <1>4, WorkflowAssumption
<1>6. ASSUME NEW r, Sound(r), Recent(r), r.last_stop_event = None,
             rt' = [rt EXCEPT !["temporary"] = r], alive' \in {alive, alive \cup {i}},
             r.controller <=> i \in alive',
             job' = [job EXCEPT !.pc = IF job.steps > 0 THEN "step" ELSE "run"]
      PROVE  IInv'
  <2>1. rt' \in [Sessions -> Runtime] /\ RuntimeInv' /\ rt'["temporary"] = r
    BY <1>6, SessionSet DEF Sessions
  <2>2. Debuggers(i)'
    BY <1>1, <1>4, <1>5, <1>6, <2>1 DEF Debuggers
  <2>3. PICK p \in {"step", "run"} : /\ p = IF job.steps > 0 THEN "step" ELSE "run"
                                     /\ job' = [job EXCEPT !.pc = p]
    BY <1>6
  <2>4. p = "step" => Len(job.results) < job.steps
    BY <1>3, <2>3
  <2> QED
    BY <1>1, <1>2, <1>3, <1>6, <2>1, <2>2, <2>3, <2>4, GoesOnKeeps
<1>7. CASE /\ rt' = [rt EXCEPT !["temporary"] = Started]
           /\ alive' = alive \cup {job.iteration}
           /\ job' = [job EXCEPT !.pc = IF job.steps > 0 THEN "step" ELSE "run"]
  BY <1>2, <1>6, <1>7, StartedSound
<1>8. CASE /\ rt' = [rt EXCEPT !["temporary"] = [Started EXCEPT !.controller = FALSE]]
           /\ job' = [job EXCEPT !.pc = IF job.steps > 0 THEN "step" ELSE "run"]
           /\ UNCHANGED alive
  <2> DEFINE r == [Started EXCEPT !.controller = FALSE]
  <2>1. /\ Sound(r) /\ r.controller = FALSE /\ r.last_stop_event = Started.last_stop_event
        /\ r.stop_history = Started.stop_history
    BY StartedSound, ControllerSet
  <2>2. rt' = [rt EXCEPT !["temporary"] = r]
    BY <1>8
  <2> HIDE DEF r
  <2>3. Recent(r) /\ r.last_stop_event = None
    BY <2>1, StartedSound DEF Recent
  <2> QED
    BY <1>5, <1>6, <1>8, <2>1, <2>2, <2>3
<1>9. CASE /\ rt' = [rt EXCEPT !["temporary"] = MarkFailed(InitialRuntime)]
           /\ job' = [job EXCEPT !.pc = "cleanup", !.trigger = "startup_error",
                                 !.iterations = Append(@, [matched |-> TRUE,
                                                           trigger |-> "startup_error"])]
           /\ UNCHANGED alive
  <2> DEFINE r == MarkFailed(InitialRuntime)
  <2>1. /\ Sound(r) /\ r.controller = InitialRuntime.controller
        /\ r.last_stop_event = InitialRuntime.last_stop_event
        /\ r.stop_history = InitialRuntime.stop_history
    BY InitialSound, EndedSound DEF Sound
  <2>2. Recent(r) /\ ~r.controller
    BY <2>1, InitialSound DEF Recent
  <2>3. rt' = [rt EXCEPT !["temporary"] = r]
    BY <1>9
  <2> HIDE DEF r
  <2>4. rt' \in [Sessions -> Runtime] /\ RuntimeInv' /\ rt'["temporary"] = r
    BY <2>1, <2>2, <2>3, SessionSet DEF Sessions
  <2>5. Debuggers(i)'
    BY <1>1, <1>4, <1>5, <1>9, <2>2, <2>4 DEF Debuggers
  <2>6. PICK t \in Triggers, q \in {"capture", "cleanup"} : t = "startup_error" /\ q = "cleanup"
    BY DEF Triggers
  <2>7. job' = Ends(job, t, q)
    <3>1. (t # None) = TRUE
      BY WorkflowAssumption
    <3> QED
      BY <1>3, <1>9, <2>6, <3>1 DEF Ends, Job
  <2> QED
    BY <1>1, <1>2, <1>3, <2>4, <2>5, <2>6, <2>7, SummaryKeeps
<1> QED
  BY <1>7, <1>8, <1>9 DEF CampaignStart

\* The run of the iteration, judged with the state get_status leaves.
LEMMA RunJudgedKeeps ==
    ASSUME IInv, job.pc = "run", job.kind = "campaign",
           NEW i \in 1..MaxIterations, i = job.iteration,
           NEW o \in Outcomes(rt["temporary"], "run", i), NEW found \in BOOLEAN,
           NEW q, q \in LivenessChecked(o.runtime), Apply("temporary", i, q),
           job' = Judged([job EXCEPT !.event = JudgedEvent(q), !.ran = o.event # None],
                         MatchesFailure(job.criteria, o.result, q, JudgedEvent(q), found))
    PROVE  IInv'
<1>4. Sound(rt["temporary"]) /\ Recent(rt["temporary"])
  BY DEF IInv, RuntimeInv, Sessions
<1>5. "run" \in Phases /\ i \in 0..MaxIterations
  BY WorkflowAssumption DEF Phases
<1> DEFINE u == o.runtime
           e == JudgedEvent(q)
           j == [job EXCEPT !.event = e, !.ran = o.event # None]
           t == MatchesFailure(job.criteria, o.result, q, e, found)
           p == IF t # None /\ j.capture THEN "capture" ELSE "cleanup"
<1>a. /\ Sound(u) /\ Recent(u) /\ (u.controller => rt["temporary"].controller)
      /\ \/ o.event = None /\ u.last_stop_event = rt["temporary"].last_stop_event
         \/ /\ o.event \in StopEvents /\ o.event.phase = "run" /\ o.event.iteration = i
            /\ u.last_stop_event = o.event
  BY <1>4, <1>5, OutcomesSound
<1>b. q = u \/ q = MarkTransportTerminated(u)
  BY DEF LivenessChecked
<1> HIDE DEF u
<1>6. /\ Sound(q) /\ Recent(q) /\ (q.controller => rt["temporary"].controller)
      /\ \/ o.event = None /\ q.last_stop_event = rt["temporary"].last_stop_event
         \/ /\ o.event \in StopEvents /\ o.event.phase = "run" /\ o.event.iteration = i
            /\ q.last_stop_event = o.event
  <2>1. CASE q = u
    BY <1>a, <2>1
  <2>2. CASE q = MarkTransportTerminated(u)
    <3>1. /\ Sound(q) /\ Recent(q) /\ (q.controller => u.controller)
          /\ q.last_stop_event = u.last_stop_event
      BY <1>a, <2>2, ClosedSound
    <3> QED
      BY <1>a, <3>1
  <2> QED
    BY <1>b, <2>1, <2>2
<1>7. e \in StopEvents \cup {None} /\ e = q.last_stop_event
  BY <1>6 DEF JudgedEvent, Sound, Runtime
<1>8. LET x == rt["temporary"].last_stop_event IN x # None => x.iteration = i
  BY DEF IInv, EventInv
<1>9. /\ e # None => e.iteration = i
      /\ e # None /\ o.event # None => e.phase = "run"
  BY <1>6, <1>7, <1>8
<1>10. /\ rt' \in [Sessions -> Runtime] /\ RuntimeInv' /\ Debuggers(i)'
  BY <1>6, ApplyTemporary DEF Iterating
<1>11. t \in RunTriggers \cup {None}
  BY MatchesFailureType
<1>12. job' = Judged(j, t)
  OBVIOUS
<1> HIDE DEF t, e
<1>13. job \in Job
  BY DEF IInv, TypeOK
<1>14. j \in Job
  BY ZenonT(60), <1>7, <1>13 DEF Job
<1>15. /\ j.kind = job.kind /\ j.iteration = job.iteration /\ j.criteria = job.criteria
       /\ j.status = job.status /\ j.bundle = job.bundle /\ j.iterations = job.iterations
       /\ j.event = e /\ (j.ran <=> o.event # None)
  BY <1>13 DEF Job
<1> HIDE DEF j
<1>16. job' = Ends(j, t, p)
  BY <1>12, <1>14 DEF Judged, Ends, Job
<1>17. /\ p \in {"capture", "cleanup"} /\ (p = "capture" => t \in RunTriggers)
       /\ t \in Triggers \cup {None}
  BY <1>11 DEF RunTriggers
<1> HIDE DEF p
<1>18. j.event # None => /\ j.event.iteration = j.iteration
                         /\ j.ran => j.event.phase = "run"
  BY <1>9, <1>15
<1> QED
  BY <1>10, <1>14, <1>15, <1>16, <1>17, <1>18, SummaryKeeps

\* The run of the iteration: judged, or it raises.
LEMMA CampaignRunKeeps == ASSUME IInv, CampaignRun PROVE IInv'
<1>1. job.pc = "run" /\ job.kind = "campaign"
  BY DEF CampaignRun, IInv, KindInv, CampaignSteps
<1>2. PICK i \in 1..MaxIterations : i = job.iteration
  BY <1>1, CampaignFacts
<1>3. CASE \E o \in Outcomes(rt["temporary"], "run", i), found \in BOOLEAN :
            \E r \in LivenessChecked(o.runtime) :
              /\ Apply("temporary", i, r)
              /\ job' = Judged([job EXCEPT !.event = JudgedEvent(r), !.ran = o.event # None],
                               MatchesFailure(job.criteria, o.result, r, JudgedEvent(r), found))
  BY <1>1, <1>2, <1>3, RunJudgedKeeps, Zenon
<1>4. CASE /\ job' = [job EXCEPT !.pc = "cleanup", !.status = "raised"]
           /\ UNCHANGED <<rt, alive, stuck>>
  <2>1. job \in Job /\ job.trigger = None
    BY <1>1, CampaignFacts
  <2>2. job' \in Job
    BY ZenonT(60), <1>4, <2>1 DEF Job
  <2>3. /\ job'.kind = job.kind /\ job'.pc = "cleanup" /\ job'.iteration = job.iteration
        /\ job'.criteria = job.criteria /\ job'.trigger = job.trigger
        /\ job'.event = job.event /\ job'.ran = job.ran /\ job'.status = "raised"
    BY <1>4, <2>1 DEF Job
  <2>4. TypeOK' /\ RuntimeInv'
    BY <1>4, <2>2 DEF IInv, TypeOK, RuntimeInv
  <2>5. DebuggerInv'
    BY <1>1, <1>4, <2>3 DEF IInv, DebuggerInv, NoDebuggerLeft, Iterating
  <2>6. KindInv' /\ EventInv' /\ BatchInv'
    BY <1>1, <1>4, <2>3 DEF IInv, KindInv, EventInv, BatchInv, CampaignSteps, JudgedByItsOwn,
                            BatchEndsWhereAsked, BatchReportsStopsEarly
  <2>7. CampaignInv'
    BY <1>1, <1>2, <2>1, <2>3 DEF IInv, CampaignInv, CampaignIsCoherent
  <2> QED
    BY <2>4, <2>5, <2>6, <2>7 DEF IInv
<1> QED
  BY <1>2, <1>3, <1>4, Zenon DEF CampaignRun

\* The capture of a matching iteration.
LEMMA CampaignCaptureKeeps == ASSUME IInv, CampaignCapture PROVE IInv'
<1>1. job.pc = "capture" /\ job.kind = "campaign" /\ job.status = "none" /\ job \in Job
  BY DEF CampaignCapture, IInv, KindInv, CampaignSteps, TypeOK
<1>2. PICK i \in 1..MaxIterations : i = job.iteration
  <2>1. job.iteration \in 0..MaxIterations /\ job.iteration > 0
    BY <1>1 DEF IInv, KindInv, Job
  <2> QED
    BY <2>1, WorkflowAssumption
<1>3. Sound(rt["temporary"]) /\ Recent(rt["temporary"])
  BY DEF IInv, RuntimeInv, Sessions
<1>4. PICK r : /\ r = rt["temporary"] \/ r = MarkTransportTerminated(rt["temporary"])
               /\ Apply("temporary", i, r)
  BY <1>2 DEF CampaignCapture, LivenessChecked
<1>5. Sound(r) /\ Recent(r) /\ (r.controller => rt["temporary"].controller)
  BY <1>3, <1>4, ClosedSound
<1>6. /\ rt' \in [Sessions -> Runtime] /\ RuntimeInv' /\ Debuggers(i)'
  BY <1>1, <1>2, <1>4, <1>5, ApplyTemporary DEF Iterating
<1>7. /\ Len(job.iterations) = i /\ job.iterations \in Seq(Summary)
      /\ \A k \in 1..(i - 1) : job.iterations[k].matched = FALSE
      /\ job.iterations[i] = [matched |-> job.trigger # None, trigger |-> job.trigger]
      /\ job.trigger \in RunTriggers
  BY <1>1, <1>2 DEF IInv, CampaignInv, Unmatched, Job
<1>8. ASSUME job' \in Job, job'.kind = "campaign", job'.pc = "cleanup", job'.iteration = i,
             job'.criteria = job.criteria, job'.trigger = job.trigger,
             job'.event = job.event, job'.ran = job.ran,
             \/ job'.status = "raised"
             \/ job'.status = "none" /\ job'.iterations = job.iterations
      PROVE  IInv'
  <2>1. TypeOK'
    BY <1>6, <1>8 DEF TypeOK, Debuggers
  <2>2. DebuggerInv'
    BY <1>6, <1>8, DebuggersNext
  <2>3. KindInv' /\ EventInv' /\ BatchInv'
    BY <1>1, <1>2, <1>8 DEF IInv, KindInv, EventInv, BatchInv, CampaignSteps, JudgedByItsOwn,
                      BatchEndsWhereAsked, BatchReportsStopsEarly
  <2>4. CampaignInv'
    <3>1. job'.status = "none" => Unmatched(job.iteration - 1)'
      BY <1>7, <1>8 DEF Unmatched
    <3> QED
      BY <1>7, <1>8, <3>1 DEF CampaignInv, CampaignIsCoherent
  <2> QED
    BY <1>6, <2>1, <2>2, <2>3, <2>4 DEF IInv
<1>9. CASE \E written \in BOOLEAN : job' = [job EXCEPT !.pc = "cleanup", !.bundle = written]
  <2>1. PICK written \in BOOLEAN : job' = [job EXCEPT !.pc = "cleanup", !.bundle = written]
    BY <1>9
  <2>2. job' \in Job
    BY <1>1, <2>1 DEF Job
  <2>3. /\ job'.kind = job.kind /\ job'.pc = "cleanup" /\ job'.iteration = job.iteration
        /\ job'.criteria = job.criteria /\ job'.trigger = job.trigger
        /\ job'.event = job.event /\ job'.ran = job.ran
        /\ job'.status = job.status /\ job'.iterations = job.iterations
    BY <1>1, <2>1 DEF Job
  <2> QED
    BY <1>1, <1>2, <1>8, <2>2, <2>3
<1>10. CASE job' = [job EXCEPT !.pc = "cleanup", !.status = "raised",
                               !.iterations = SubSeq(@, 1, Len(@) - 1)]
  <2> DEFINE s == SubSeq(job.iterations, 1, Len(job.iterations) - 1)
  <2>1. s \in Seq(Summary)
    BY <1>7
  <2>2. job' = [job EXCEPT !.pc = "cleanup", !.status = "raised", !.iterations = s]
    BY <1>1, <1>10 DEF Job
  <2> HIDE DEF s
  <2>3. job' \in Job
    BY <1>1, <2>1, <2>2 DEF Job
  <2>4. /\ job'.kind = job.kind /\ job'.pc = "cleanup" /\ job'.iteration = job.iteration
        /\ job'.criteria = job.criteria /\ job'.trigger = job.trigger
        /\ job'.event = job.event /\ job'.ran = job.ran /\ job'.status = "raised"
    BY <1>1, <2>2 DEF Job
  <2> QED
    BY <1>1, <1>2, <1>8, <2>3, <2>4
<1> QED
  BY <1>9, <1>10 DEF CampaignCapture

\* _cleanup_session: the iteration's debugger is gone, or known to be stuck.
LEMMA CleanedUpKeeps ==
    ASSUME IInv, job.pc = "cleanup", CleanedUp, NEW i \in 1..MaxIterations, i = job.iteration
    PROVE  rt' \in [Sessions -> Runtime] /\ RuntimeInv' /\ NoDebuggers' /\ stuck' \subseteq 1..i
<1> DEFINE r == rt["temporary"]
           c == [r EXCEPT !.controller = FALSE]
<1>1. job.kind = "campaign"
  BY DEF IInv, KindInv, CampaignSteps
<1>2. /\ alive \subseteq 0..MaxIterations /\ stuck \subseteq alive /\ stuck \subseteq 1..(i - 1)
      /\ alive \ ({0} \cup stuck) \subseteq {i} /\ (r.controller <=> i \in alive)
  BY <1>1 DEF IInv, TypeOK, DebuggerInv, NoDebuggerLeft, Iterating
<1>3. stuck \subseteq 1..i /\ {i} \subseteq 1..i
  BY <1>2, WorkflowAssumption
<1>4. Sound(r) /\ Recent(r)
  BY DEF IInv, RuntimeInv, Sessions
<1>5. /\ Sound(MarkStopped(c)) /\ Recent(MarkStopped(c))
      /\ Sound(MarkFailed(c)) /\ Recent(MarkFailed(c))
  BY <1>4, ClosedSound
<1>6. CASE ~r.controller /\ UNCHANGED <<rt, alive, stuck>>
  BY <1>2, <1>3, <1>6 DEF IInv, TypeOK, RuntimeInv, NoDebuggers
<1>7. CASE /\ rt' = [rt EXCEPT !["temporary"] = MarkStopped(c)]
           /\ alive' = alive \ {i} /\ stuck' = stuck
  <2>1. rt' \in [Sessions -> Runtime] /\ RuntimeInv'
    BY <1>5, <1>7, SessionSet DEF Sessions
  <2>2. i \notin stuck
    BY <1>2, WorkflowAssumption
  <2>3. NoDebuggers'
    BY <1>2, <1>7, <2>2 DEF NoDebuggers
  <2> QED
    BY <1>3, <1>7, <2>1, <2>3
<1>8. CASE /\ r.controller /\ rt' = [rt EXCEPT !["temporary"] = MarkFailed(c)]
           /\ stuck' = stuck \cup {i} /\ alive' = alive
  <2>1. rt' \in [Sessions -> Runtime] /\ RuntimeInv'
    BY <1>5, <1>8, SessionSet DEF Sessions
  <2>2. NoDebuggers'
    BY <1>2, <1>8 DEF NoDebuggers
  <2> QED
    BY <1>3, <1>8, <2>1, <2>2
<1> QED
  BY <1>6, <1>7, <1>8 DEF CleanedUp

\* The end of an iteration: the campaign returns, or the next one begins.
LEMMA CampaignCleanupKeeps == ASSUME IInv, CampaignCleanup PROVE IInv'
<1>1. job.pc = "cleanup" /\ job.kind = "campaign" /\ job \in Job
      /\ job.status \in {"none", "raised"} /\ CleanedUp
  BY DEF CampaignCleanup, IInv, KindInv, CampaignSteps, TypeOK
<1>2. PICK i \in 1..MaxIterations : i = job.iteration
  <2>1. job.iteration \in 0..MaxIterations /\ job.iteration > 0
    BY <1>1 DEF IInv, KindInv, Job
  <2> QED
    BY <2>1, WorkflowAssumption
<1>3. /\ rt' \in [Sessions -> Runtime] /\ RuntimeInv' /\ NoDebuggers' /\ stuck' \subseteq 1..i
  BY <1>1, <1>2, CleanedUpKeeps
<1>4. job.criteria \in Criteria /\ JudgedByItsOwn /\ job.iterations \in Seq(Summary)
  BY <1>1 DEF IInv, KindInv, EventInv, Job
<1>5. ASSUME job.status = "none"
      PROVE  /\ Len(job.iterations) = i
             /\ \A k \in 1..(i - 1) : job.iterations[k].matched = FALSE
             /\ job.iterations[i].matched = (job.trigger # None)
             /\ job.iterations[i].trigger = job.trigger
             /\ job.bundle => job.trigger \in RunTriggers
  BY <1>1, <1>2, <1>5 DEF IInv, CampaignInv, Unmatched
<1>6. CASE \E s \in {"raised", "success"} :
              /\ job' = [job EXCEPT !.pc = "returned", !.status = s]
              /\ s = "success" => job.status = "none" /\ (job.trigger # None \/ i = MaxIterations)
  <2>1. PICK s \in {"raised", "success"} :
              /\ job' = [job EXCEPT !.pc = "returned", !.status = s]
              /\ s = "success" => job.status = "none" /\ (job.trigger # None \/ i = MaxIterations)
    BY <1>6
  <2>2. job' \in Job
    BY <1>1, <2>1 DEF Job
  <2>3. /\ job'.kind = "campaign" /\ job'.pc = "returned" /\ job'.iteration = i
        /\ job'.criteria = job.criteria /\ job'.trigger = job.trigger
        /\ job'.event = job.event /\ job'.ran = job.ran /\ job'.bundle = job.bundle
        /\ job'.status = s /\ job'.iterations = job.iterations
    BY <1>1, <1>2, <2>1 DEF Job
  <2>4. TypeOK'
    BY <1>3, <2>2 DEF TypeOK, NoDebuggers
  <2>5. DebuggerInv'
    BY <1>3, <2>3, NoDebuggersNext
  <2>6. KindInv' /\ EventInv' /\ BatchInv'
    BY <1>2, <1>4, <2>3 DEF KindInv, EventInv, BatchInv, CampaignSteps, JudgedByItsOwn,
                            BatchEndsWhereAsked, BatchReportsStopsEarly
  <2>7. CampaignIsCoherent'
    <3>1. CASE s = "raised"
      BY <2>3, <3>1 DEF CampaignIsCoherent
    <3>2. CASE s = "success"
      <4>1. job.status = "none" /\ (job.trigger # None \/ i = MaxIterations)
        BY <2>1, <3>2
      <4>2. DOMAIN job'.iterations = 1..i
        BY <1>4, <1>5, <2>3, <4>1
      <4>3. ASSUME NEW k \in 1..i
            PROVE  job'.iterations[k].matched = (k = i /\ job.trigger # None)
        <5>1. CASE k = i
          BY <1>5, <2>3, <4>1, <5>1
        <5>2. CASE k # i
          <6>1. k \in 1..(i - 1)
            BY <5>2
          <6> QED
            BY <1>5, <2>3, <4>1, <5>2, <6>1
        <5> QED
          BY <5>1, <5>2
      <4>4. job'.bundle => job'.trigger \notin {None, "startup_error", "setup_error"}
        BY <1>5, <2>3, <4>1, WorkflowAssumption DEF RunTriggers
      <4> QED
        BY <1>5, <2>3, <4>1, <4>2, <4>3, <4>4 DEF CampaignIsCoherent
    <3> QED
      BY <3>1, <3>2
  <2>8. CampaignInv'
    BY <2>3, <2>7 DEF CampaignInv
  <2> QED
    BY <1>3, <2>4, <2>5, <2>6, <2>8 DEF IInv
<1>7. CASE /\ job.status = "none" /\ job.trigger = None /\ i # MaxIterations
           /\ job' = [job EXCEPT !.pc = "start", !.iteration = @ + 1, !.results = << >>,
                                 !.stopped_early = FALSE, !.event = None, !.ran = FALSE]
  <2>1. PICK n \in 1..MaxIterations : n = i + 1
    BY <1>7, WorkflowAssumption
  <2>2. job' = [job EXCEPT !.pc = "start", !.iteration = n, !.results = << >>,
                          !.stopped_early = FALSE, !.event = None, !.ran = FALSE]
    BY <1>1, <1>2, <1>7, <2>1 DEF Job
  <2>3. job' \in Job
    <3>1. n \in 0..MaxIterations /\ << >> \in Seq(Result)
      BY WorkflowAssumption
    <3> QED
      BY <1>1, <2>2, <3>1 DEF Job
  <2>4. /\ job'.kind = "campaign" /\ job'.pc = "start" /\ job'.iteration = n
        /\ job'.criteria = job.criteria /\ job'.trigger = job.trigger
        /\ job'.event = None /\ job'.results = << >> /\ job'.bundle = job.bundle
        /\ job'.status = "none" /\ job'.iterations = job.iterations
    BY <1>1, <1>7, <2>2 DEF Job
  <2>5. TypeOK'
    BY <1>3, <2>3 DEF TypeOK, NoDebuggers
  <2>6. n - 1 = i
    BY <2>1
  <2>7. DebuggerInv'
    BY <1>3, <2>4, <2>6, NoDebuggersNext
  <2>8. KindInv' /\ EventInv' /\ BatchInv'
    BY <1>4, <2>4 DEF KindInv, EventInv, BatchInv, CampaignSteps, JudgedByItsOwn,
                      BatchEndsWhereAsked, BatchReportsStopsEarly
  <2>9. ~job.bundle
    BY <1>5, <1>7, WorkflowAssumption DEF RunTriggers
  <2>10. \A k \in 1..i : job.iterations[k].matched = FALSE
    <3>1. ASSUME NEW k \in 1..i PROVE k = i \/ k \in 1..(i - 1)
      OBVIOUS
    <3> QED
      BY <1>5, <1>7, <3>1
  <2>11. Unmatched(job.iteration - 1)'
    BY <2>4, <2>6, <2>10 DEF Unmatched
  <2>12. CampaignInv'
    BY <1>5, <1>7, <2>4, <2>6, <2>9, <2>11 DEF CampaignInv, CampaignIsCoherent
  <2> QED
    BY <1>3, <2>5, <2>7, <2>8, <2>12 DEF IInv
<1>8. CASE job.status = "raised"
  <2>1. job' = [job EXCEPT !.pc = "returned"]
    BY <1>8 DEF CampaignCleanup
  <2>2. job' = [job EXCEPT !.pc = "returned", !.status = "raised"]
    BY <1>1, <1>8, <2>1 DEF Job
  <2> QED
    BY <1>6, <2>2
<1>9. CASE job.status # "raised" /\ job.trigger # None
  BY <1>1, <1>6, <1>9 DEF CampaignCleanup
<1>10. CASE job.status # "raised" /\ job.trigger = None
  BY <1>1, <1>2, <1>6, <1>7, <1>10 DEF CampaignCleanup, NextIteration
<1> QED
  BY <1>8, <1>9, <1>10

-----------------------------------------------------------------------------
(* The steps of a batch, and the setup steps of a campaign *)

\* _step_stop_event returns the stop the call has recorded, and never another
\* one; it may miss it only when the history was full before the call.
LEMMA StepStopEventOwn ==
    ASSUME NEW r, Sound(r), Recent(r), NEW i \in 0..MaxIterations,
           NEW o \in Outcomes(r, "step", i)
    PROVE  LET e == StepStopEvent(o.runtime, Len(r.stop_history)) IN
           /\ e \in StopEvents \cup {None} /\ o.event \in StopEvents \cup {None}
           /\ e = o.event \/ (Len(r.stop_history) >= StopHistoryLimit /\ e = None)
<1> DEFINE q == o.runtime
           n == Len(r.stop_history)
           e == StepStopEvent(q, n)
<1>1. /\ Sound(q) /\ Recent(q)
      /\ \/ o.event = None /\ q.stop_history = r.stop_history
         \/ /\ o.event \in StopEvents /\ q.last_stop_event = o.event
            /\ Len(q.stop_history) = IF n < StopHistoryLimit THEN n + 1 ELSE StopHistoryLimit
  BY OutcomesSound DEF Phases
<1>2. q.stop_history \in Seq(StopEvents) /\ r.stop_history \in Seq(StopEvents)
  BY <1>1 DEF Sound, Runtime
<1>3. n \in Nat /\ Len(q.stop_history) \in Nat /\ StopHistoryLimit \in Nat
  BY <1>2, LimitAssumption
<1>4. /\ Len(q.stop_history) > n => e = q.stop_history[Len(q.stop_history)]
      /\ ~(Len(q.stop_history) > n) => e = None
  BY DEF StepStopEvent
<1> HIDE DEF q, n, e
<1>5. CASE o.event = None /\ q.stop_history = r.stop_history
  <2>1. ~(Len(q.stop_history) > n)
    BY <1>3, <1>5 DEF n
  <2> QED
    BY <1>4, <1>5, <2>1 DEF e, n, q
<1>6. CASE /\ o.event \in StopEvents /\ q.last_stop_event = o.event
           /\ Len(q.stop_history) = IF n < StopHistoryLimit THEN n + 1 ELSE StopHistoryLimit
  <2>1. CASE n < StopHistoryLimit
    <3>1. Len(q.stop_history) > n /\ StopHistoryLimit > 0
      BY <1>3, <1>6, <2>1
    <3>2. e = o.event
      BY <1>1, <1>4, <1>6, <3>1, NoneAssumption DEF Recent
    <3> QED
      BY <1>6, <3>2 DEF e, n, q
  <2>2. CASE ~(n < StopHistoryLimit)
    <3>1. ~(Len(q.stop_history) > n) /\ n >= StopHistoryLimit
      BY <1>3, <1>6, <2>2
    <3> QED
      BY <1>4, <1>6, <3>1 DEF e, n, q
  <2> QED
    BY <2>1, <2>2
<1> QED
  BY <1>1, <1>5, <1>6

\* A batch of the client has taken one more step.
LEMMA BatchNext ==
    ASSUME IInv, job.kind = "batch", job.pc = "step", NEW x \in Result,
           job.capture => x.event = x.real \/ (x.full /\ x.event = None),
           NEW S \in BOOLEAN, NEW P \in {"step", "returned"}, NEW T \in {"none", "success"},
           NEW R, R = Append(job.results, x),
           job' = [job EXCEPT !.results = R, !.stopped_early = S, !.pc = P, !.status = T],
           \/ P = "step" /\ T = "none" /\ ~S /\ Len(R) # job.steps /\ (job.fail_fast => x.ok)
           \/ P = "returned" /\ T = "success" /\ S /\ job.fail_fast /\ ~x.ok
           \/ /\ P = "returned" /\ T = "success" /\ ~S /\ Len(R) = job.steps
              /\ job.fail_fast => x.ok,
           rt' \in [Sessions -> Runtime], RuntimeInv', NoDebuggers', stuck' = {}
    PROVE  IInv'
<1>1. job \in Job /\ job.results \in Seq(Result) /\ job.steps \in 0..MaxSteps
  BY DEF IInv, TypeOK, Job
<1>2. /\ Len(job.results) < job.steps
      /\ job.fail_fast => \A k \in DOMAIN job.results : job.results[k].ok
      /\ job.capture => \A k \in DOMAIN job.results :
                           \/ job.results[k].event = job.results[k].real
                           \/ job.results[k].full /\ job.results[k].event = None
  BY DEF IInv, BatchInv, BatchReportsStopsEarly
<1>3. job.iteration = 0 /\ job.status = "none" /\ JudgedByItsOwn
  BY DEF IInv, KindInv, EventInv
<1> DEFINE n == Len(job.results)
<1>4. /\ R \in Seq(Result) /\ Len(R) = n + 1 /\ R[n + 1] = x /\ n \in Nat
      /\ DOMAIN R = 1..(n + 1) /\ DOMAIN job.results = 1..n
      /\ \A k \in 1..n : R[k] = job.results[k]
  BY <1>1
<1>5. job' \in Job
  BY ZenonT(60), <1>1, <1>4 DEF Job
<1>6. /\ job'.kind = "batch" /\ job'.pc = P /\ job'.status = T /\ job'.results = R
      /\ job'.stopped_early = S /\ job'.iteration = 0 /\ job'.event = job.event
      /\ job'.ran = job.ran /\ job'.steps = job.steps /\ job'.fail_fast = job.fail_fast
      /\ job'.capture = job.capture
  BY <1>1, <1>3 DEF Job
<1> HIDE DEF n
<1>7. TypeOK'
  BY <1>5 DEF TypeOK, NoDebuggers
<1>8. DebuggerInv'
  BY <1>6, NoDebuggersNext
<1>9. KindInv' /\ EventInv' /\ CampaignInv'
  BY <1>3, <1>6 DEF KindInv, EventInv, CampaignInv, CampaignSteps, JudgedByItsOwn,
                    CampaignIsCoherent
<1>10. \A k \in 1..(n + 1) : k = n + 1 \/ k \in 1..n
  BY <1>4
<1>11. BatchReportsStopsEarly'
  BY <1>2, <1>4, <1>6, <1>10 DEF BatchReportsStopsEarly
<1>12. BatchEndsWhereAsked'
  <2> DEFINE failed == {k \in DOMAIN job'.results : ~job'.results[k].ok}
  <2>1. CASE P = "step"
    BY <1>6, <2>1 DEF BatchEndsWhereAsked
  <2>2. CASE P = "returned" /\ T = "success" /\ S /\ job.fail_fast /\ ~x.ok
    <3>1. failed = {n + 1}
      BY <1>2, <1>4, <1>6, <1>10, <2>2
    <3> QED
      BY ZenonT(60), <1>4, <1>6, <2>2, <3>1 DEF BatchEndsWhereAsked
  <2>3. CASE /\ P = "returned" /\ T = "success" /\ ~S /\ Len(R) = job.steps
             /\ job.fail_fast => x.ok
    <3>1. job.fail_fast => failed = {}
      BY <1>2, <1>4, <1>6, <1>10, <2>3
    <3> QED
      BY <1>4, <1>6, <2>3, <3>1 DEF BatchEndsWhereAsked
  <2> QED
    BY <2>1, <2>2, <2>3
<1>13. BatchInv'
  <2>1. P = "step" => Len(R) < job.steps
    BY <1>1, <1>2, <1>4, WorkflowAssumption DEF n
  <2>2. P = "step" /\ job.fail_fast => \A k \in DOMAIN R : R[k].ok
    BY <1>2, <1>4, <1>10
  <2> QED
    BY <1>6, <1>11, <1>12, <2>1, <2>2 DEF BatchInv
<1> QED
  BY <1>7, <1>8, <1>9, <1>13 DEF IInv

\* execute_batch takes one step: of a batch of the client, or of the setup of a
\* campaign's iteration.
LEMMA BatchStepKeeps == ASSUME IInv, BatchStep PROVE IInv'
<1>1. job.pc = "step" /\ job.kind \in {"batch", "campaign"} /\ job \in Job
  BY DEF BatchStep, IInv, KindInv, TypeOK
<1>2. PICK i \in 0..MaxIterations : i = job.iteration
  BY <1>1 DEF Job
<1> DEFINE r == rt[Session]
<1>3. Session \in Sessions /\ Sound(r) /\ Recent(r)
  BY DEF IInv, RuntimeInv, Sessions, Session
<1> DEFINE X(o) == [ok    |-> o.result = "success",
                    event |-> IF job.capture
                              THEN StepStopEvent(o.runtime, Len(r.stop_history)) ELSE None,
                    real  |-> o.event,
                    full  |-> Len(r.stop_history) >= StopHistoryLimit]
           J(o) == [job EXCEPT !.results = Append(@, X(o))]
<1>4. PICK o \in Outcomes(r, "step", i) :
         /\ Apply(Session, i, o.runtime)
         /\ job' = CASE o.result = "raised" /\ job.kind = "batch" ->
                            [NoJob EXCEPT !.pc = "returned", !.status = "raised"]
                      [] o.result = "raised" /\ job.kind = "campaign" ->
                            [job EXCEPT !.pc = "cleanup", !.status = "raised"]
                      [] ~(o.result = "success") /\ o.result # "raised" /\ job.fail_fast ->
                            BatchOver([J(o) EXCEPT !.stopped_early = TRUE])
                      [] (o.result = "success" \/ ~job.fail_fast) /\ o.result # "raised" ->
                            IF Len(J(o).results) = J(o).steps THEN BatchOver(J(o)) ELSE J(o)
  BY <1>2 DEF BatchStep
<1> DEFINE x == X(o)
           R == Append(job.results, x)
           j == [job EXCEPT !.results = R]
           k == [job EXCEPT !.results = R, !.stopped_early = TRUE]
<1>5. /\ Sound(o.runtime) /\ Recent(o.runtime) /\ (o.runtime.controller => r.controller)
      /\ \/ o.event = None /\ o.runtime.last_stop_event = r.last_stop_event
         \/ /\ o.event \in StopEvents /\ o.event.iteration = i
            /\ o.runtime.last_stop_event = o.event
  BY <1>3, OutcomesSound DEF Phases
<1>6. /\ x \in Result /\ x.ok = (o.result = "success")
      /\ job.capture => x.event = x.real \/ (x.full /\ x.event = None)
  <2> DEFINE e == StepStopEvent(o.runtime, Len(r.stop_history))
  <2>1. /\ e \in StopEvents \cup {None} /\ o.event \in StopEvents \cup {None}
        /\ e = o.event \/ (Len(r.stop_history) >= StopHistoryLimit /\ e = None)
    BY <1>3, StepStopEventOwn
  <2>2. x = [ok |-> o.result = "success", event |-> IF job.capture THEN e ELSE None,
             real |-> o.event, full |-> Len(r.stop_history) >= StopHistoryLimit]
    OBVIOUS
  <2> HIDE DEF e, r, x
  <2>3. (IF job.capture THEN e ELSE None) \in StopEvents \cup {None}
    BY <2>1
  <2>4. x \in Result
    BY <2>1, <2>2, <2>3 DEF Result
  <2>5. /\ x.ok = (o.result = "success") /\ x.event = (IF job.capture THEN e ELSE None)
        /\ x.real = o.event /\ x.full = (Len(r.stop_history) >= StopHistoryLimit)
    BY <2>2
  <2>6. job.capture => x.event = x.real \/ (x.full /\ x.event = None)
    BY <2>1, <2>5
  <2> QED
    BY <2>4, <2>5, <2>6
<1>7. J(o) = j /\ [J(o) EXCEPT !.stopped_early = TRUE] = k
  BY <1>1 DEF Job
<1>8. /\ o.result = "raised" /\ job.kind = "batch" =>
            job' = [NoJob EXCEPT !.pc = "returned", !.status = "raised"]
      /\ o.result = "raised" /\ job.kind = "campaign" =>
            job' = [job EXCEPT !.pc = "cleanup", !.status = "raised"]
      /\ o.result # "raised" /\ ~x.ok /\ job.fail_fast => job' = BatchOver(k)
      /\ o.result # "raised" /\ (x.ok \/ ~job.fail_fast) =>
            job' = IF Len(j.results) = j.steps THEN BatchOver(j) ELSE j
  <2> HIDE DEF J, x, j, k
  <2> QED
    BY <1>1, <1>4, <1>6, <1>7
<1> HIDE DEF X, J, x, r
<1>9. R \in Seq(Result) /\ job.results \in Seq(Result)
  BY <1>1, <1>6 DEF Job
<1>10. CASE job.kind = "batch"
  <2>1. Session = "own" /\ i = 0
    BY <1>2, <1>10 DEF Session, IInv, KindInv
  <2>2. rt' \in [Sessions -> Runtime] /\ RuntimeInv' /\ NoDebuggers' /\ stuck' = {}
    BY <1>4, <1>5, <1>10, <2>1, ApplyOwn
  <2>3. CASE o.result = "raised"
    BY <1>8, <1>10, <2>2, <2>3, BlankJob
  <2>4. /\ job.status = "none" /\ job.stopped_early = FALSE
    BY <1>1, <1>10 DEF IInv, KindInv, BatchInv, Job
  <2>5. /\ BatchOver(k) = [job EXCEPT !.results = R, !.stopped_early = TRUE,
                                      !.pc = "returned", !.status = "success"]
        /\ BatchOver(j) = [job EXCEPT !.results = R, !.stopped_early = FALSE,
                                      !.pc = "returned", !.status = "success"]
        /\ j = [job EXCEPT !.results = R, !.stopped_early = FALSE, !.pc = "step",
                           !.status = "none"]
        /\ j.results = R /\ j.steps = job.steps
    BY <1>1, <1>10, <2>4 DEF BatchOver, Job
  <2>6. PICK Q : Q = Append(job.results, x)
    OBVIOUS
  <2>7. Q = R
    BY <2>6
  <2> HIDE DEF j, k, R
  <2>8. CASE o.result # "raised" /\ ~x.ok /\ job.fail_fast
    <3>1. PICK S \in BOOLEAN, P \in {"step", "returned"}, T \in {"none", "success"} :
             S = TRUE /\ P = "returned" /\ T = "success"
      OBVIOUS
    <3>2. job' = [job EXCEPT !.results = Q, !.stopped_early = S, !.pc = P, !.status = T]
      BY <1>8, <2>5, <2>8, <2>7, <3>1
    <3> QED
      BY <1>1, <1>6, <1>10, <2>2, <2>8, <2>6, <3>1, <3>2, BatchNext
  <2>9. CASE o.result # "raised" /\ (x.ok \/ ~job.fail_fast) /\ Len(R) = job.steps
    <3>1. PICK S \in BOOLEAN, P \in {"step", "returned"}, T \in {"none", "success"} :
             S = FALSE /\ P = "returned" /\ T = "success"
      OBVIOUS
    <3>2. job' = [job EXCEPT !.results = Q, !.stopped_early = S, !.pc = P, !.status = T]
      BY <1>8, <2>5, <2>9, <2>7, <3>1
    <3> QED
      BY <1>1, <1>6, <1>10, <2>2, <2>9, <2>6, <2>7, <3>1, <3>2, BatchNext
  <2>10. CASE o.result # "raised" /\ (x.ok \/ ~job.fail_fast) /\ Len(R) # job.steps
    <3>1. PICK S \in BOOLEAN, P \in {"step", "returned"}, T \in {"none", "success"} :
             S = FALSE /\ P = "step" /\ T = "none"
      OBVIOUS
    <3>2. job' = [job EXCEPT !.results = Q, !.stopped_early = S, !.pc = P, !.status = T]
      BY <1>8, <2>5, <2>10, <2>7, <3>1
    <3> QED
      BY <1>1, <1>6, <1>10, <2>2, <2>10, <2>6, <2>7, <3>1, <3>2, BatchNext
  <2> QED
    BY <2>3, <2>8, <2>9, <2>10
<1>11. CASE job.kind = "campaign"
  <2>1. Session = "temporary" /\ Iterating
    BY <1>1, <1>11 DEF Session, Iterating
  <2>2. i \in 1..MaxIterations
    BY <1>1, <1>2, <1>11, CampaignFacts
  <2>3. /\ rt' \in [Sessions -> Runtime] /\ RuntimeInv' /\ Debuggers(i)'
        /\ rt'["temporary"] = o.runtime
    BY <1>2, <1>4, <1>5, <2>1, <2>2, ApplyTemporary DEF r
  <2>4. LET e == rt'["temporary"].last_stop_event IN e # None => e.iteration = i
    BY <1>1, <1>2, <1>5, <1>11, <2>1, <2>3 DEF IInv, EventInv, r
  <2>5. CASE o.result = "raised"
    <3>1. job' = [job EXCEPT !.pc = "cleanup", !.status = "raised"]
      BY <1>8, <1>11, <2>5
    <3>2. job' \in Job
      BY <1>1, <3>1 DEF Job
    <3>3. /\ job'.kind = "campaign" /\ job'.pc = "cleanup" /\ job'.iteration = i
          /\ job'.criteria = job.criteria /\ job'.event = job.event /\ job'.ran = job.ran
          /\ job'.status = "raised"
      BY <1>1, <1>2, <1>11, <3>1 DEF Job
    <3>4. TypeOK'
      BY <2>3, <3>2 DEF TypeOK, Debuggers
    <3>5. DebuggerInv'
      BY <2>3, <3>3, DebuggersNext
    <3>6. job.criteria \in Criteria /\ JudgedByItsOwn /\ i > 0
      BY <1>11, <2>2 DEF IInv, KindInv, EventInv
    <3>7. KindInv' /\ EventInv' /\ BatchInv' /\ CampaignInv'
      BY <1>2, <3>3, <3>6
      DEF KindInv, EventInv, BatchInv, CampaignInv, CampaignSteps, JudgedByItsOwn,
          BatchEndsWhereAsked, BatchReportsStopsEarly, CampaignIsCoherent
    <3> QED
      BY <2>3, <3>4, <3>5, <3>7 DEF IInv
  <2>6. ASSUME NEW y \in {j, k}
        PROVE  /\ y \in Job /\ y.pc = "step" /\ y.results = R /\ y.steps = job.steps
               /\ y.kind = job.kind /\ y.iteration = job.iteration /\ y.criteria = job.criteria
               /\ y.status = job.status /\ y.bundle = job.bundle
               /\ y.iterations = job.iterations /\ y.trigger = job.trigger
               /\ y.event = job.event /\ y.ran = job.ran
    <3>1. CASE y = j
      <4>1. y \in Job
        BY <1>1, <1>9, <3>1 DEF Job
      <4> QED
        BY <1>1, <3>1, <4>1 DEF Job
    <3>2. CASE y = k
      <4>1. y \in Job
        BY <1>1, <1>9, <3>2 DEF Job
      <4> QED
        BY <1>1, <3>2, <4>1 DEF Job
    <3> QED
      BY <3>1, <3>2
  <2> HIDE DEF j, k
  <2>7. ASSUME NEW y \in {j, k}, job' = BatchOver(y) PROVE IInv'
    <3>1. /\ y \in Job /\ y.kind = job.kind /\ y.iteration = job.iteration
          /\ y.criteria = job.criteria /\ y.status = job.status /\ y.bundle = job.bundle
          /\ y.iterations = job.iterations /\ y.trigger = job.trigger
          /\ y.event = job.event /\ y.ran = job.ran
      BY <2>6, <2>7
    <3>2. \/ job' = [y EXCEPT !.pc = "cleanup", !.trigger = "setup_error",
                              !.iterations = Append(@, [matched |-> TRUE,
                                                        trigger |-> "setup_error"])]
          \/ job' = [y EXCEPT !.pc = "run"]
      BY <1>11, <2>7, <3>1 DEF BatchOver, AfterSetup
    <3>3. CASE job' = [y EXCEPT !.pc = "run"]
      BY <1>1, <1>2, <1>11, <2>3, <2>4, <3>1, <3>3, GoesOnKeeps
    <3>4. CASE job' = [y EXCEPT !.pc = "cleanup", !.trigger = "setup_error",
                                !.iterations = Append(@, [matched |-> TRUE,
                                                          trigger |-> "setup_error"])]
      <4>1. PICK t \in Triggers, q \in {"capture", "cleanup"} :
               t = "setup_error" /\ q = "cleanup"
        BY DEF Triggers
      <4>2. (t # None) = TRUE
        BY WorkflowAssumption
      <4>3. job' = Ends(y, t, q)
        BY <3>1, <3>4, <4>1, <4>2 DEF Ends, Job
      <4>4. y.event # None => /\ y.event.iteration = y.iteration
                              /\ y.ran => y.event.phase = "run"
        BY <3>1 DEF IInv, EventInv, JudgedByItsOwn
      <4> QED
        BY <1>1, <1>2, <1>11, <2>3, <3>1, <4>1, <4>3, <4>4, SummaryKeeps
    <3> QED
      BY <3>2, <3>3, <3>4
  <2>8. CASE o.result # "raised" /\ ~x.ok /\ job.fail_fast
    BY <1>8, <2>7, <2>8
  <2>9. CASE o.result # "raised" /\ (x.ok \/ ~job.fail_fast)
    <3>1. job' = IF Len(j.results) = j.steps THEN BatchOver(j) ELSE j
      BY <1>8, <2>9
    <3>2. CASE Len(j.results) = j.steps
      BY <2>7, <3>1, <3>2
    <3>3. CASE Len(j.results) # j.steps
      <4>1. /\ j \in Job /\ j.pc = "step" /\ j.results = R /\ j.steps = job.steps
            /\ j.kind = job.kind /\ j.iteration = job.iteration
            /\ j.criteria = job.criteria /\ j.status = job.status /\ j.bundle = job.bundle
            /\ j.iterations = job.iterations /\ j.trigger = job.trigger
            /\ j.event = job.event /\ j.ran = job.ran
        BY <2>6
      <4>2. job' = [j EXCEPT !.pc = "step"]
        BY <3>1, <3>3, <4>1 DEF Job
      <4>3. Len(job.results) < job.steps /\ job.steps \in 0..MaxSteps
        BY <1>1, <1>11 DEF IInv, BatchInv, Job
      <4>4. Len(j.results) < j.steps
        BY <1>9, <3>3, <4>1, <4>3, WorkflowAssumption
      <4> QED
        BY <1>1, <1>2, <1>11, <2>3, <2>4, <4>1, <4>2, <4>4, GoesOnKeeps
    <3> QED
      BY <3>2, <3>3
  <2> QED
    BY <2>5, <2>8, <2>9
<1> QED
  BY <1>1, <1>10, <1>11

-----------------------------------------------------------------------------
(* Theorems *)

\* Every step of a call, a batch or a campaign keeps the invariant.
LEMMA StepKeeps == ASSUME IInv, [Next]_vars PROVE IInv'
<1>1. CASE UNCHANGED vars
  BY <1>1
  DEF vars, IInv, TypeOK, KindInv, RuntimeInv, DebuggerInv, EventInv, CampaignInv, BatchInv,
      NoDebuggerLeft, Iterating, CampaignSteps, JudgedByItsOwn, CampaignIsCoherent, Unmatched,
      BatchEndsWhereAsked, BatchReportsStopsEarly
<1>2. CASE OtherCall
  BY <1>2, OtherCallKeeps
<1>3. CASE \E n \in 1..MaxSteps, ff \in BOOLEAN, cap \in BOOLEAN : BatchCall(n, ff, cap)
  <2>1. PICK n \in 1..MaxSteps, ff \in BOOLEAN, cap \in BOOLEAN : BatchCall(n, ff, cap)
    BY <1>3
  <2>2. n \in 0..MaxSteps /\ n > 0
    BY WorkflowAssumption
  <2> QED
    BY <2>1, <2>2, CallKeeps
<1>4. CASE \E n \in 0..MaxSteps, cap \in BOOLEAN, c \in Criteria : CampaignCall(n, cap, c)
  BY <1>4, CallKeeps
<1>5. CASE BatchStep
  BY <1>5, BatchStepKeeps
<1>6. CASE CampaignStart \/ CampaignRun \/ CampaignCapture \/ CampaignCleanup
  BY <1>6, CampaignStartKeeps, CampaignRunKeeps, CampaignCaptureKeeps, CampaignCleanupKeeps
<1>7. CASE Answered
  BY <1>7, AnsweredKeeps
<1> QED
  BY <1>1, <1>2, <1>3, <1>4, <1>5, <1>6, <1>7 DEF Next, Calls, Work

\* The inductive invariant holds in every reachable state of session/workflow.py
\* and session/campaign.py.
THEOREM InvariantHolds == Spec => []IInv
<1>1. IInv /\ [Next]_vars => IInv'
  BY StepKeeps
<1> QED
  BY InitInvariant, <1>1, PTL DEF Spec

\* The records that run_batch and run_until_failure build stay in their types.
THEOREM WorkflowTypeCorrect == Spec => []TypeOK
BY InvariantHolds, PTL DEF IInv

\* _step_stop_event: the answer of a batch shows for a step only the stop that
\* step recorded, and misses it only at the limit of the history - for every
\* limit and every length of the batch.
THEOREM StopsAreTheSteps == Spec => []BatchReportsStopsEarly
BY InvariantHolds, PTL DEF IInv, BatchInv

\* run_until_failure's finally: whichever way an iteration ends, its debugger
\* ends with it, unless exit() failed - for every number of iterations.
THEOREM IterationsLeaveNoDebugger == Spec => []NoDebuggerLeft
BY InvariantHolds, PTL DEF IInv, DebuggerInv

\* The report of a batch or a campaign tells how far it came and why it ended.
THEOREM ReportsAreCoherent == Spec => []ReportIsCoherent
BY InvariantHolds, PTL DEF IInv, CampaignInv, BatchInv, ReportIsCoherent

\* _matches_failure judges a run by a stop of its own iteration, and by the
\* run's own if it recorded one.
THEOREM RunsAreJudgedByTheirOwn == Spec => []JudgedByItsOwn
BY InvariantHolds, PTL DEF IInv, EventInv

=============================================================================
