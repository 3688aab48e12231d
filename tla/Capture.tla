------------------------------ MODULE Capture ------------------------------
(***************************************************************************)
(* Capture bundles (session/capture.py): one tool call that makes many      *)
(* inspection calls, each of which moves GDB's selection and restores it,   *)
(* and writes their answers to files.  What the files hold is left out;     *)
(* kept is which thread and frame each answer is about, which sections      *)
(* failed, and where the selection ends up.                                 *)
(***************************************************************************)
EXTENDS Inspection, Sequences, FiniteSets

LOCAL INSTANCE SequencesExt

CONSTANTS
    Requests,        \* the capture requests clients make
    MaxRangeBytes,   \* DEFAULT_CAPTURE_MEMORY_MAX_RANGE_BYTES
    MaxTotalBytes    \* DEFAULT_CAPTURE_MEMORY_MAX_TOTAL_BYTES

VARIABLE bundle      \* the capture in progress

Current  == {"frame", "variables", "registers", "evaluate"}
Sections == {"threads", "backtrace"} \cup Current

\* include: the sections asked for.  ranges: memory to read.
MemoryRange == [count : Int, offset : Int, name : {None, "blank", "a", "b"}]
IsRequest(r) == r.include \subseteq Sections /\ r.ranges \in Seq(MemoryRange)

ASSUME CaptureAssumption ==
    /\ \A r \in Requests : IsRequest(r)
    /\ MaxRangeBytes \in Nat /\ MaxTotalBytes \in Nat
    /\ IsFiniteSet(Threads)

\* One entry of the plan: an inspection call, or the reading of the note.
Task == [kind : Sections \cup {"note", "memory"}, thread : Threads \cup {None}]
Do(kind) == [kind |-> kind, thread |-> None]

\* plan: what is still to be done.  thread, frame: current_thread_id and
\* current_frame.  failed: failed_sections.  manifest: the selection named by
\* the manifest.  For the properties: the selection at the start, whether the
\* runtime knew it, what the sections about the current frame have read, and
\* whether a section has lost the selection.
Bundle == [pc : {"idle", "busy", "returned"}, status : {"none", "success", "error", "raised"},
           include : SUBSET Sections, plan : Seq(Task), failed : SUBSET Task,
           thread : Threads \cup {None}, frame : Frames \cup {None}, manifest : Selection,
           start : Selection, told : BOOLEAN, seen : SUBSET Selection, lost : BOOLEAN]

NoBundle ==
    [pc |-> "idle", status |-> "none", include |-> {}, plan |-> << >>, failed |-> {},
     thread |-> None, frame |-> None, manifest |-> Nothing,
     start |-> Nothing, told |-> FALSE, seen |-> {}, lost |-> FALSE]

captureVars == <<vars, bundle>>

CaptureTypeOK == TypeOK /\ bundle \in Bundle

CaptureInit == Init /\ bundle = NoBundle

-----------------------------------------------------------------------------
(* The request *)

Total(ranges) == FoldLeft(LAMBDA n, m : n + m.count, 0, ranges)

\* _validate_request
Valid(r) ==
    /\ \A i \in DOMAIN r.ranges :
          /\ r.ranges[i].count \in 1..MaxRangeBytes
          /\ r.ranges[i].offset >= 0
          /\ r.ranges[i].name # "blank"
          /\ \A j \in DOMAIN r.ranges :
                (i # j /\ r.ranges[i].name # None) => r.ranges[i].name # r.ranges[j].name
    /\ Total(r.ranges) <= MaxTotalBytes

\* Broken variant for mutation: the note is read before the backtraces, whose
\* calls bring it up to date.
PlanNoteFirst(r) ==
    LET asked(s) == IF s \in r.include THEN <<Do(s)>> ELSE << >>
    IN  <<Do("note")>>
        \o (IF r.include \cap {"threads", "backtrace"} # {} THEN <<Do("threads")>> ELSE << >>)
        \o asked("frame") \o asked("variables") \o asked("registers") \o asked("evaluate")
        \o [i \in DOMAIN r.ranges |-> Do("memory")]

\* The backtraces join the plan once the threads are known.
Plan(r) ==
    LET asked(s) == IF s \in r.include THEN <<Do(s)>> ELSE << >>
    IN  (IF r.include \cap {"threads", "backtrace"} # {} THEN <<Do("threads")>> ELSE << >>)
        \o <<Do("note")>>
        \o asked("frame") \o asked("variables") \o asked("registers") \o asked("evaluate")
        \o [i \in DOMAIN r.ranges |-> Do("memory")]

Ready == Idle /\ bundle.pc = "idle"

\* The artifacts that need no command (status, stop events, transcript) are
\* written at once.
CaptureCall(r) ==
    /\ Ready /\ Valid(r)
    /\ bundle' = [NoBundle EXCEPT !.pc = "busy", !.include = r.include, !.plan = Plan(r),
                                  !.start = sel, !.told = noted]
    /\ UNCHANGED vars

\* An invalid request, a bundle that exists, a directory that cannot be made.
CaptureRefused(r) ==
    /\ Ready
    /\ bundle' = [NoBundle EXCEPT !.pc = "returned", !.status = "error", !.start = sel]
    /\ UNCHANGED vars

-----------------------------------------------------------------------------
(* The sections *)

Busy == Idle /\ bundle.pc = "busy"

NoteSelection ==
    /\ Busy /\ bundle.plan # << >> /\ Head(bundle.plan).kind = "note"
    /\ bundle' = [bundle EXCEPT !.plan = Tail(@), !.thread = rt.thread,
                                !.frame = IF rt.frame = None THEN 0 ELSE rt.frame]
    /\ UNCHANGED vars

\* The frame of the registers and the expressions is what the runtime says by
\* then; get_frame_info may have changed it.
StartSection ==
    /\ Busy /\ bundle.plan # << >> /\ Head(bundle.plan).kind # "note"
    /\ LET task == Head(bundle.plan)
       IN  CASE task.kind = "variables" -> Enter("variables", bundle.thread, bundle.frame)
             [] task.kind \in {"registers", "evaluate"} ->
                    Enter(task.kind, bundle.thread, rt.frame)
             [] OTHER -> Enter(task.kind, task.thread, None)
    /\ UNCHANGED <<sel, depth, rt, cache, noted, bundle>>

Alive == {t \in Threads : depth[t] > 0}

\* Each thread once, in any order.
Orders == {q \in [1..Cardinality(Alive) -> Alive] : \A t \in Alive : \E i \in DOMAIN q : q[i] = t}
Backtraces == {[i \in DOMAIN q |-> [kind |-> "backtrace", thread |-> q[i]]] : q \in Orders}

\* The answer of one section; the threads are in the order GDB lists them.
SectionDone ==
    /\ bundle.pc = "busy" /\ op.pc = "returned"
    /\ LET task == Head(bundle.plan)
           ok   == op.status = "success"
           b    == [bundle EXCEPT
                       !.plan   = Tail(@),
                       !.failed = IF ok THEN @ ELSE @ \cup {task},
                       !.seen   = IF ok /\ task.kind \in Current THEN @ \cup {op.read} ELSE @,
                       !.lost   = \/ @ \/ op.status = "restore_error"
                                  \/ (op.kind = "backtrace" /\ op.late)]
       IN  IF task.kind # "threads" \/ "backtrace" \notin bundle.include
           THEN bundle' = b
           ELSE IF ok /\ Alive # {}
           THEN \E s \in Backtraces : bundle' = [b EXCEPT !.plan = s \o @]
           ELSE bundle' = [b EXCEPT !.failed = @ \cup {Do("backtrace")}]
    /\ op' = NoOp
    /\ UNCHANGED <<sel, depth, rt, cache, noted>>

\* The manifest names the selection the runtime knows by then.
WriteManifest ==
    /\ Busy /\ bundle.plan = << >>
    /\ bundle' = [bundle EXCEPT !.pc = "returned", !.status = "success", !.manifest = rt]
    /\ UNCHANGED vars

\* An artifact that cannot be written ends the call; nothing catches the error.
WriteFails ==
    /\ Busy
    /\ bundle' = [bundle EXCEPT !.pc = "returned", !.status = "raised"]
    /\ UNCHANGED vars

Collect ==
    /\ bundle.pc = "returned"
    /\ bundle' = NoBundle
    /\ UNCHANGED vars

-----------------------------------------------------------------------------
\* A session takes one tool call at a time: nothing comes between the sections.
CaptureNext ==
    \/ \E r \in Requests : CaptureCall(r) \/ CaptureRefused(r)
    \/ NoteSelection \/ StartSection \/ SectionDone \/ WriteManifest \/ WriteFails \/ Collect
    \/ bundle.pc = "idle" /\ (Between \/ Answered) /\ UNCHANGED bundle
    \/ Step /\ UNCHANGED bundle

CaptureSpec == CaptureInit /\ [][CaptureNext]_captureVars

-----------------------------------------------------------------------------
(* Properties *)

\* The runtime knows the selection, at the start or from the backtraces.
PlaceIsKnown ==
    \/ bundle.told
    \/ /\ Do("threads") \notin bundle.failed /\ "backtrace" \in bundle.include
       /\ \E t \in Alive : [kind |-> "backtrace", thread |-> t] \notin bundle.failed

\* The sections of a bundle are about one place: the frame, the variables, the
\* registers and the expressions are all read in the thread and frame that was
\* selected when the capture began, and the manifest names no other.  It needs
\* the runtime to know the selection and no section to have lost it.  And
\* however many sections fail and wherever the capture breaks off, GDB's
\* selection is in the end what it was, unless a section said that it could not
\* restore it or had a switch of threads executed late.
BundleIsOfOnePlace ==
    /\ (bundle.pc = "returned" /\ ~bundle.lost) => sel = bundle.start
    /\ (bundle.status = "success" /\ ~bundle.lost /\ PlaceIsKnown) =>
           /\ bundle.seen \subseteq {bundle.start}
           /\ bundle.manifest.thread \in {None, bundle.start.thread}
           /\ bundle.manifest.frame \in {None, bundle.start.frame}
=============================================================================
