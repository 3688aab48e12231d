----------------------------- MODULE Inspection -----------------------------
(***************************************************************************)
(* Reading a stopped program: session/inspection/*.                        *)
(*                                                                         *)
(* GDB has one selected thread and frame, and every query is about them.   *)
(* A tool with a thread or frame override therefore captures the selection,*)
(* selects what it was asked for, queries, and restores the selection.     *)
(* Each of these is an MI command that may fail, or time out and still be  *)
(* executed: GDB reads commands in order, so a late command takes effect   *)
(* before the next one, and the model lets it take effect at once.         *)
(*                                                                         *)
(* The runtime keeps its own note of the selection (current_thread_id,     *)
(* current_frame), which some answers carry.  What is read is left out;    *)
(* kept is where it is read.  Locations given by function, address or file  *)
(* need no selection and are left out.                                     *)
(***************************************************************************)
EXTENDS Integers

CONSTANTS
    Threads,    \* thread ids of the program
    MaxDepth,   \* bound: frames on a stack
    Kinds,      \* the inspection tools in use
    Faults,     \* "late": a command that times out is executed nevertheless
    Features,   \* what this GDB supports, of "memory" and "disassemble"
    None

Selects  == {"select_thread", "select_frame"}
Inspects == {"threads", "memory", "backtrace", "frame", "variables", "registers",
             "evaluate", "disassemble", "source"}
Probing  == {"memory", "disassemble"}    \* tools with a feature to look for

Frames == 0..(MaxDepth - 1)

ASSUME InspectionAssumption ==
    /\ Threads \subseteq Nat \ {0} /\ Threads # {}
    /\ MaxDepth \in Nat \ {0}
    /\ Kinds \subseteq Selects \cup Inspects
    /\ Faults \subseteq {"late"}
    /\ Features \subseteq Probing
    /\ None \notin Nat

VARIABLES
    sel,      \* GDB's selection: a thread and a frame of it (external)
    depth,    \* per thread: the frames on its stack, 0 for no such thread
    rt,       \* runtime.current_thread_id and runtime.current_frame
    cache,    \* runtime.read_memory_bytes_supported, disassemble_a_supported
    op,       \* the tool call in progress
    noted     \* the runtime's note has been brought in line since the last
              \* change of the selection it was not told of

vars == <<sel, depth, rt, cache, op, noted>>

Selection == [thread : Threads \cup {None}, frame : Frames \cup {None}]
Nothing   == [thread |-> None, frame |-> None]

\* pc: where the call is.  thread, frame: its overrides.  saved: the captured
\* selection.  changed: selection_changed.  left: queries still to make.
\* label: the thread and frame its answer names.  The rest is for the
\* properties: the selection at the start, at the last query, and whether a
\* command of it that failed may have been executed.
Op == [kind : Selects \cup Inspects \cup {None},
       pc : {"idle", "c_thread", "c_frame", "s_thread", "s_frame", "probe", "query",
             "r_thread", "r_frame", "returned"},
       thread : Threads \cup {None}, frame : Frames \cup {None},
       saved : Selection, changed : BOOLEAN, left : 0..3,
       status : {"none", "success", "error", "raised", "restore_error"},
       label : Selection, before : Selection, read : Selection,
       told : BOOLEAN, late : BOOLEAN]

NoOp ==
    [kind |-> None, pc |-> "idle", thread |-> None, frame |-> None, saved |-> Nothing,
     changed |-> FALSE, left |-> 0, status |-> "none", label |-> Nothing,
     before |-> Nothing, read |-> Nothing, told |-> FALSE, late |-> FALSE]

TypeOK ==
    /\ sel \in Selection
    /\ depth \in [Threads -> 0..MaxDepth]
    /\ rt \in Selection
    /\ cache \in [Probing -> BOOLEAN \cup {None}]
    /\ op \in Op
    /\ noted \in BOOLEAN

\* A session whose program has not run yet.
Init ==
    /\ sel = Nothing
    /\ depth = [t \in Threads |-> 0]
    /\ rt = Nothing
    /\ cache = [k \in Probing |-> None]
    /\ noted = TRUE
    /\ op = NoOp

Idle == op.pc = "idle"

-----------------------------------------------------------------------------
(* GDB (external) *)

\* -thread-select of another thread goes to its innermost frame.
ThreadSelected(s, t) == IF s.thread = t THEN s ELSE [thread |-> t, frame |-> 0]
FrameSelected(s, f)  == [s EXCEPT !.frame = f]

ThreadExists(t) == depth[t] > 0
FrameExists(f)  == sel.thread # None /\ f < depth[sel.thread]

\* The program runs and stops again in the innermost frame of some thread.
\* The runtime takes the thread from the stop, and the frame if the stop
\* carries its level (session/command_runner.py).
Stops(t, newDepth, level) ==
    /\ Idle
    /\ newDepth[t] > 0
    /\ depth' = newDepth
    /\ sel' = [thread |-> t, frame |-> 0]
    /\ rt' = [thread |-> t, frame |-> IF level THEN 0 ELSE rt.frame]
    /\ noted' = level
    /\ UNCHANGED <<cache, op>>

Exits ==
    /\ Idle
    /\ sel' = Nothing
    /\ depth' = [t \in Threads |-> 0]
    /\ noted' = FALSE
    /\ UNCHANGED <<rt, cache, op>>

\* A raw command such as "up" or "thread 2" that the client sends itself.
RawSelect(t, f) ==
    /\ Idle
    /\ f < depth[t]
    /\ sel' = [thread |-> t, frame |-> f]
    /\ noted' = FALSE
    /\ UNCHANGED <<depth, rt, cache, op>>

-----------------------------------------------------------------------------
(* A tool call *)

\* The tools that capture the selection first.
Captures(kind, t, f) ==
    \/ kind = "variables"
    \/ kind = "backtrace" /\ t # None
    \/ kind \in {"frame", "registers", "evaluate", "disassemble", "source"}
          /\ (t # None \/ f # None)

\* The overrides a tool takes; the handler gives "variables" frame 0.
Shape(kind, t, f) ==
    /\ kind \in {"threads", "memory", "select_frame"} => t = None
    /\ kind \in {"threads", "memory", "select_thread", "backtrace"} => f = None
    /\ kind = "select_thread" => t # None
    /\ kind \in {"select_frame", "variables"} => f # None

\* _supports_read_memory_bytes and _supports_disassemble_a ask GDB once.
QueryStep(kind) == IF kind \in Probing /\ cache[kind] = None THEN "probe" ELSE "query"

\* Without -data-disassemble -a the range comes from a command of its own;
\* registers may need names before and after the values.
Queries(kind, c) ==
    CASE kind = "registers"   -> 1..3
      [] kind = "disassemble" -> IF c[kind] = FALSE THEN {2} ELSE {1}
      [] OTHER                -> {1}

Enter(kind, t, f) ==
    \E n \in Queries(kind, cache) :
        op' = [NoOp EXCEPT !.kind = kind, !.thread = t, !.frame = f, !.left = n,
                           !.pc = IF Captures(kind, t, f) THEN "c_thread" ELSE QueryStep(kind),
                           !.before = sel, !.told = noted]

Call(kind, t, f) ==
    /\ Idle /\ kind \in Kinds
    /\ Shape(kind, t, f)
    /\ Enter(kind, t, f)
    /\ UNCHANGED <<sel, depth, rt, cache, noted>>

Return(o, status) == op' = [o EXCEPT !.pc = "returned", !.status = status]

\* The caller takes the answer.
Answered ==
    /\ op.pc = "returned"
    /\ op' = NoOp
    /\ UNCHANGED <<sel, depth, rt, cache, noted>>

\* The outcomes of a selection command: done, refused, or executed too late.
Selecting(valid, selected, done, refused, late) ==
    \/ valid /\ sel' = selected /\ done
    \/ UNCHANGED sel /\ refused
    \/ "late" \in Faults /\ valid /\ sel' = selected /\ late

-----------------------------------------------------------------------------
(* InspectionContext.capture_selection *)

\* The step after the capture: only what differs from the captured selection
\* is selected.  get_backtrace takes no frame.
AfterThread(o) ==
    IF o.frame # None /\ o.saved.frame # o.frame THEN "s_frame" ELSE QueryStep(o.kind)

\* Broken variant for mutation: the frame is selected only after a switch
\* of threads.
AfterCaptureSameThread(o) ==
    IF o.thread # None /\ o.saved.thread # o.thread THEN "s_thread" ELSE QueryStep(o.kind)

AfterCapture(o) ==
    IF o.thread # None /\ o.saved.thread # o.thread THEN "s_thread" ELSE AfterThread(o)

CaptureThread ==
    /\ op.pc = "c_thread"
    /\ \/ op' = [op EXCEPT !.pc = "c_frame", !.saved.thread = sel.thread]
       \/ Return(op, "error")
    /\ UNCHANGED <<sel, depth, rt, cache, noted>>

\* Broken variant for mutation: the runtime is not told of the capture.
CaptureFrameSilent ==
    /\ op.pc = "c_frame"
    /\ LET o == [op EXCEPT !.saved.frame = sel.frame]
       IN  \/ /\ sel.thread # None
              /\ op' = [o EXCEPT !.pc = AfterCapture(o), !.told = TRUE]
              /\ noted' = TRUE
              /\ UNCHANGED rt
           \/ Return(op, "error") /\ UNCHANGED <<rt, noted>>
    /\ UNCHANGED <<sel, depth, cache>>

\* Both answers together tell the runtime.  Without a thread there is no
\* frame, and the command fails.
CaptureFrame ==
    /\ op.pc = "c_frame"
    /\ LET o == [op EXCEPT !.saved.frame = sel.frame]
       IN  \/ /\ sel.thread # None
              /\ op' = [o EXCEPT !.pc = AfterCapture(o), !.told = TRUE]
              /\ rt' = o.saved
              /\ noted' = TRUE
           \/ Return(op, "error") /\ UNCHANGED <<rt, noted>>
    /\ UNCHANGED <<sel, depth, cache>>

-----------------------------------------------------------------------------
(* select_for_inspection and, for backtraces, the switch of get_backtrace.
   A failure is followed by a restore, except in get_backtrace. *)

SelectionFailed(late) ==
    /\ noted' = (noted /\ ~late)
    /\ IF op.kind = "backtrace"
       THEN Return([op EXCEPT !.late = late], "error")
       ELSE op' = [op EXCEPT !.pc = "r_thread", !.status = "error", !.late = late]

SelectThread ==
    /\ op.pc = "s_thread"
    /\ Selecting(ThreadExists(op.thread), ThreadSelected(sel, op.thread),
                 op' = [op EXCEPT !.pc = AfterThread(op), !.changed = TRUE] /\ UNCHANGED noted,
                 SelectionFailed(FALSE), SelectionFailed(TRUE))
    /\ UNCHANGED <<depth, rt, cache>>

SelectFrame ==
    /\ op.pc = "s_frame"
    /\ Selecting(FrameExists(op.frame), FrameSelected(sel, op.frame),
                 op' = [op EXCEPT !.pc = QueryStep(op.kind), !.changed = TRUE] /\ UNCHANGED noted,
                 SelectionFailed(FALSE), SelectionFailed(TRUE))
    /\ UNCHANGED <<depth, rt, cache>>

-----------------------------------------------------------------------------
(* The queries *)

\* -list-features; if it fails, the feature counts as missing from now on.
Probe ==
    /\ op.pc = "probe"
    /\ \E supported \in {op.kind \in Features, FALSE} :
          /\ cache' = [cache EXCEPT ![op.kind] = supported]
          /\ \E n \in Queries(op.kind, cache') : op' = [op EXCEPT !.pc = "query", !.left = n]
    /\ UNCHANGED <<sel, depth, rt, noted>>

\* The thread and frame an answer names.
Label(o) ==
    CASE o.kind = "backtrace" ->
            [thread |-> IF o.thread # None THEN o.thread ELSE rt.thread, frame |-> None]
      [] o.kind = "variables" ->
            [thread |-> IF o.thread # None THEN o.thread ELSE o.saved.thread, frame |-> o.frame]
      [] o.kind \in {"disassemble", "source"} ->
            LET note == IF Captures(o.kind, o.thread, o.frame) THEN o.saved ELSE rt
            IN  [thread |-> IF o.thread # None THEN o.thread ELSE note.thread,
                 frame  |-> IF o.frame # None THEN o.frame
                            ELSE IF o.kind = "source" THEN sel.frame ELSE note.frame]
      [] OTHER -> Nothing

\* Broken variant for mutation: an error is returned without a restore.
RestoresAfterSuccessOnly(o, status) ==
    /\ Captures(o.kind, o.thread, o.frame)
    /\ status = "success" /\ o.changed

\* Whether the selection is restored: after an error get_frame_info,
\* disassemble and get_source_context restore in any case, the others only
\* what they changed.  (get_backtrace compares the threads, which comes to
\* the same.)
Restores(o, status) ==
    /\ Captures(o.kind, o.thread, o.frame)
    /\ o.changed \/ (status = "error" /\ o.kind \in {"frame", "disassemble", "source"})

Finish(o, status) ==
    IF Restores(o, status)
    THEN op' = [o EXCEPT !.pc = "r_thread", !.status = status]
    ELSE Return(o, status)

\* get_frame_info notes the level it has read.
QuerySucceeds ==
    /\ op.pc = "query" /\ op.kind \in Inspects
    /\ op.kind \in Inspects \ {"threads", "memory", "evaluate"} => sel.thread # None
    /\ IF op.left > 1
       THEN op' = [op EXCEPT !.left = @ - 1] /\ UNCHANGED rt
       ELSE /\ Finish([op EXCEPT !.left = 0, !.read = sel, !.label = Label(op)], "success")
            /\ rt' = IF op.kind = "frame" THEN [rt EXCEPT !.frame = sel.frame] ELSE rt
    /\ UNCHANGED <<sel, depth, cache, noted>>

QueryFails ==
    /\ op.pc = "query" /\ op.kind \in Inspects
    /\ Finish(op, "error")
    /\ UNCHANGED <<sel, depth, rt, cache, noted>>

\* The location is found, but reading the file raises (a directory, a file that
\* may not be read, text that does not decode): the exception passes by the
\* restore, the dispatcher makes an error of it, and a selection that was
\* switched stays switched without the runtime's knowledge.
SourceRaises ==
    /\ op.pc = "query" /\ op.kind = "source" /\ sel.thread # None
    /\ Return(op, "raised")
    /\ noted' = (noted /\ ~op.changed)
    /\ UNCHANGED <<sel, depth, rt, cache>>

ToolFailed(late) ==
    /\ noted' = (noted /\ ~late)
    /\ Return([op EXCEPT !.late = late], "error")
    /\ UNCHANGED rt

\* select_thread: the answer names the frame.
SelectThreadTool ==
    /\ op.pc = "query" /\ op.kind = "select_thread"
    /\ LET done == /\ rt' = ThreadSelected(sel, op.thread)
                   /\ noted' = TRUE
                   /\ Return(op, "success")
       IN  Selecting(ThreadExists(op.thread), ThreadSelected(sel, op.thread), done,
                     ToolFailed(FALSE), ToolFailed(TRUE))
    /\ UNCHANGED <<depth, cache>>

\* select_frame: the query that follows cannot fail the call.
SelectFrameTool ==
    /\ op.pc = "query" /\ op.kind = "select_frame"
    /\ LET done == /\ rt' = [rt EXCEPT !.frame = op.frame]
                   /\ UNCHANGED noted
                   /\ Return(op, "success")
       IN  Selecting(FrameExists(op.frame), FrameSelected(sel, op.frame), done,
                     ToolFailed(FALSE), ToolFailed(TRUE))
    /\ UNCHANGED <<depth, cache>>

-----------------------------------------------------------------------------
(* InspectionContext.restore_selection *)

RestoreFailed(late) ==
    /\ noted' = FALSE
    /\ Return([op EXCEPT !.late = late], "restore_error")
    /\ UNCHANGED rt

RestoreThread ==
    /\ op.pc = "r_thread"
    /\ Selecting(ThreadExists(op.saved.thread), ThreadSelected(sel, op.saved.thread),
                 op' = [op EXCEPT !.pc = "r_frame"] /\ UNCHANGED <<rt, noted>>,
                 RestoreFailed(FALSE), RestoreFailed(TRUE))
    /\ UNCHANGED <<depth, cache>>

RestoreFrame ==
    /\ op.pc = "r_frame"
    /\ Selecting(FrameExists(op.saved.frame), FrameSelected(sel, op.saved.frame),
                 rt' = op.saved /\ noted' = TRUE /\ Return(op, op.status),
                 RestoreFailed(FALSE), RestoreFailed(TRUE))
    /\ UNCHANGED <<depth, cache>>

-----------------------------------------------------------------------------
\* The client and the program between two calls.
Between ==
    \/ \E kind \in Kinds, t \in Threads \cup {None}, f \in Frames \cup {None} : Call(kind, t, f)
    \/ \E t \in Threads, d \in [Threads -> 0..MaxDepth], level \in BOOLEAN : Stops(t, d, level)
    \/ \E t \in Threads, f \in Frames : RawSelect(t, f)
    \/ Exits

Step ==
    \/ CaptureThread \/ CaptureFrame \/ SelectThread \/ SelectFrame
    \/ Probe \/ QuerySucceeds \/ QueryFails \/ SourceRaises
    \/ SelectThreadTool \/ SelectFrameTool \/ RestoreThread \/ RestoreFrame

Next == Between \/ Step \/ Answered

Spec == Init /\ [][Next]_vars

-----------------------------------------------------------------------------
(* Properties *)

Returned(status) == op.pc = "returned" /\ op.status = status /\ op.kind \in Inspects

\* Reading does not move the selection ("Read thread and frame state without
\* mutating selection"): a tool that returns leaves GDB's selection as it was,
\* whichever of its commands failed, unless it says that the restore failed.
\* Two errors are excepted, for the code restores after neither: a backtrace
\* whose switch was executed too late, and a source listing that has switched
\* and then raises on the file.
SelectionKept ==
    \/ Returned("success")
    \/ Returned("error") /\ ~(op.kind = "backtrace" /\ op.late)
    \/ Returned("raised") /\ ~op.changed
    => sel = op.before

\* A tool reads where it was told to, and its answer names the thread and the
\* frame it comes from (select_for_inspection: "Temporarily switch
\* thread/frame for one inspection call").
RightContext ==
    (Returned("success") /\ op.told) =>
        /\ op.thread # None => op.read.thread = op.thread
        /\ op.frame # None => op.read.frame = op.frame
        /\ op.label.thread # None => op.read.thread = op.label.thread
        /\ op.label.frame # None => op.read.frame = op.label.frame

\* The frame number of the captured selection is used in another thread: it
\* is the number asked for, or the one disassemble names for want of another.
BorrowedFrame ==
    /\ op.thread \notin {None, op.saved.thread}
    /\ op.frame = op.saved.frame \/ (op.kind = "disassemble" /\ op.frame = None)

\* RightContext holds but for that case, whatever the selection was and
\* however often the commands of earlier calls failed.
MostlyRightContext == ~BorrowedFrame => RightContext

\* Between two calls the runtime's note of the selection is GDB's selection,
\* unless GDB's has changed in a way that was not reported to the server.
NoteIsRight == (Idle /\ noted) => rt = sel
=============================================================================
