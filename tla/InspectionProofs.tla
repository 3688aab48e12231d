-------------------------- MODULE InspectionProofs --------------------------
(***************************************************************************)
(* Proofs about Inspection and Capture, for every set of threads, every    *)
(* depth of their stacks and every choice of tools, faults and features;   *)
(* and about Listings, for every file, request and memory.                 *)
(***************************************************************************)
EXTENDS Capture, Listings, FiniteSetTheorems, TLAPS

-----------------------------------------------------------------------------
(* The inductive invariant *)

CaptureSteps == {"c_thread", "c_frame"}
SelectSteps  == {"s_thread", "s_frame"}
QuerySteps   == {"probe", "query"}
RestoreSteps == {"r_thread", "r_frame"}

Capturing(o) == Captures(o.kind, o.thread, o.frame)

\* The override asks for another thread than the captured one.
Switches(o) == o.thread \notin {None, o.saved.thread}

\* GDB has nothing selected, or a frame of a thread that exists.
SelInv ==
    \/ sel = Nothing
    \/ /\ sel.thread \in Threads /\ sel.frame \in Frames
       /\ sel.frame < depth[sel.thread]

\* A call in progress is one of a tool; the steps around the query are taken by
\* the tools that capture the selection, and by those that read.  A thread that
\* was selected at its start had a frame selected too.
CallInv ==
    /\ op.before.thread # None => op.before.frame \in Frames
    /\ op.pc = "idle" => op = NoOp
    /\ op.pc # "idle" => op.kind \in Selects \cup Inspects /\ Shape(op.kind, op.thread, op.frame)
    /\ op.pc \in CaptureSteps \cup SelectSteps \cup RestoreSteps
          => op.kind \in Inspects /\ Capturing(op)

\* Up to the first selection nothing has moved, and the capture is exact.
CaptureInv ==
    /\ op.pc \in CaptureSteps \cup {"s_thread"} => sel = op.before
    /\ op.pc = "c_frame" => op.saved.thread = sel.thread
    /\ op.pc \in SelectSteps \cup QuerySteps /\ Capturing(op)
          => op.saved = op.before /\ op.saved.thread # None /\ rt = op.saved /\ noted
    /\ op.pc \in RestoreSteps => op.saved = op.before /\ op.saved.thread # None
    /\ op.pc \in CaptureSteps \cup SelectSteps \cup QuerySteps => ~op.late

\* Where GDB is between the selection and the query.
PlaceInv ==
    /\ op.pc \in CaptureSteps \cup {"s_thread"} => ~op.changed
    /\ op.pc \in {"s_frame"} \cup QuerySteps /\ ~op.changed => sel = op.before
    /\ op.pc = "s_thread" => Switches(op)
    /\ op.pc = "s_frame" => /\ op.frame \notin {None, op.saved.frame}
                            /\ op.thread # None => sel.thread = op.thread
                            /\ op.thread = None => sel.thread = op.saved.thread
    /\ op.pc \in QuerySteps /\ Capturing(op) =>
          /\ op.thread # None => sel.thread = op.thread
          /\ op.thread = None => sel.thread = op.saved.thread
          /\ op.frame # None /\ ~(Switches(op) /\ op.frame = op.saved.frame)
                => sel.frame = op.frame
          /\ op.frame = None /\ ~Switches(op) => sel = op.saved
    /\ op.pc \in QuerySteps /\ ~Capturing(op) => ~op.changed /\ (op.told => noted)
    /\ op.pc = "r_frame" => sel.thread = op.saved.thread

\* The runtime's note, while the selection is where the client left it.
NoteInv ==
    noted /\ (\/ op.pc \in {"idle", "s_thread", "returned"} \cup CaptureSteps
              \/ op.pc \in QuerySteps /\ ~op.changed)
        => rt = sel

\* What has been read, from the query to the return.
ReadInv ==
    /\ op.pc \in RestoreSteps => op.status \in {"success", "error"}
    /\ op.pc = "returned" => op.status # "none"
    /\ op.pc = "returned" /\ op.status = "raised" => op.kind = "source"
    /\ op.pc \in RestoreSteps \cup {"returned"} /\ op.kind \in Inspects
          /\ op.status = "success" /\ op.told /\ ~BorrowedFrame =>
          /\ op.thread # None => op.read.thread = op.thread
          /\ op.frame # None => op.read.frame = op.frame
          /\ op.label.thread # None => op.read.thread = op.label.thread
          /\ op.label.frame # None => op.read.frame = op.label.frame

\* What the runtime knew at the start of a call that reads, it knows at the end,
\* unless the call has said that it could not restore the selection, its switch
\* of threads was executed too late, or it has switched and then raised.
ToldInv ==
    op.pc # "idle" /\ op.kind \in Inspects /\ op.told =>
        \/ noted \/ op.pc \in RestoreSteps
        \/ op.pc = "returned" /\ op.status = "restore_error"
        \/ op.pc = "returned" /\ op.kind = "backtrace" /\ op.late
        \/ op.pc = "returned" /\ op.status = "raised" /\ op.changed

\* A call that asks for no other place reads where the selection was; and one
\* that has captured the selection has told the runtime of it.
SourceInv ==
    /\ op.pc \in SelectSteps \cup QuerySteps /\ Capturing(op) => op.told
    /\ op.pc \in RestoreSteps \cup {"returned"} /\ op.kind \in Inspects /\ op.status = "success" =>
          /\ (op.thread \in {None, op.before.thread} /\ op.frame \in {None, op.before.frame})
                => op.read = op.before
          /\ Capturing(op) => op.told /\ op.before.thread # None

IInv == /\ TypeOK /\ SelInv /\ CallInv /\ CaptureInv /\ PlaceInv /\ NoteInv /\ ReadInv
        /\ SelectionKept /\ ToldInv /\ SourceInv

-----------------------------------------------------------------------------
(* Facts about the constants and the helpers *)

\* None is neither a thread nor a frame.
LEMMA Domains ==
    /\ MaxDepth \in Nat \ {0} /\ None \notin Threads /\ None \notin Frames
    /\ \A f : f \in Frames <=> f \in Nat /\ f < MaxDepth
    /\ 0 \in Frames
<1>1. MaxDepth \in Nat \ {0} /\ Threads \subseteq Nat
  BY InspectionAssumption
<1>2. \A f : f \in Frames <=> f \in Nat /\ f < MaxDepth
  BY <1>1 DEF Frames
<1>3. None \notin Nat
  BY InspectionAssumption
<1>4. None \notin Threads /\ None \notin Frames
  BY <1>1, <1>2, <1>3, Zenon
<1> QED
  BY <1>1, <1>2, <1>4

\* A selection is its thread and its frame.
LEMMA SelectionIs ==
    /\ Nothing \in Selection /\ Nothing.thread = None /\ Nothing.frame = None
    /\ \A t \in Threads \cup {None}, f \in Frames \cup {None} :
          LET s == [thread |-> t, frame |-> f]
          IN  s \in Selection /\ s.thread = t /\ s.frame = f
    /\ \A s \in Selection, f \in Frames \cup {None} :
          LET r == [s EXCEPT !.frame = f]
          IN  r \in Selection /\ r.thread = s.thread /\ r.frame = f
    /\ \A s \in Selection : s.thread \in Threads \cup {None} /\ s.frame \in Frames \cup {None}
    /\ \A s, r \in Selection : s.thread = r.thread /\ s.frame = r.frame => s = r
BY DEF Selection, Nothing

\* A thread that exists is selected with one of its frames.
LEMMA ThreadSelectedIs ==
    ASSUME sel \in Selection, SelInv, depth \in [Threads -> 0..MaxDepth],
           NEW t \in Threads, ThreadExists(t)
    PROVE  LET s == ThreadSelected(sel, t)
           IN  /\ s \in Selection /\ s.thread = t /\ s.frame \in Frames /\ s.frame < depth[t]
               /\ sel.thread = t => s = sel
BY Domains, SelectionIs DEF ThreadSelected, ThreadExists, SelInv, Nothing

\* A frame that exists is selected in the thread that is.
LEMMA FrameSelectedIs ==
    ASSUME sel \in Selection, SelInv, depth \in [Threads -> 0..MaxDepth],
           NEW f \in Frames, FrameExists(f)
    PROVE  LET s == FrameSelected(sel, f)
           IN  /\ s \in Selection /\ s.thread = sel.thread /\ s.frame = f
               /\ sel.thread \in Threads /\ f < depth[sel.thread]
BY Domains, SelectionIs DEF FrameSelected, FrameExists

\* The fields of a call.
LEMMA OpIs ==
    ASSUME NEW o \in Op
    PROVE  /\ o.kind \in Selects \cup Inspects \cup {None}
           /\ o.thread \in Threads \cup {None} /\ o.frame \in Frames \cup {None}
           /\ o.saved \in Selection /\ o.changed \in BOOLEAN /\ o.left \in 0..3
           /\ o.before \in Selection /\ o.read \in Selection /\ o.label \in Selection
           /\ o.told \in BOOLEAN /\ o.late \in BOOLEAN
BY DEF Op

Pcs == {"idle", "c_thread", "c_frame", "s_thread", "s_frame", "probe", "query",
        "r_thread", "r_frame", "returned"}

\* What stays the same in the calls of every step but the first.
SameCall(o, q) ==
    /\ q.kind = o.kind /\ q.thread = o.thread /\ q.frame = o.frame
    /\ q.before = o.before /\ q.told = o.told
SameRead(o, q) == q.read = o.read /\ q.label = o.label

\* A call that has moved on.
WithPc(o, p) == [o EXCEPT !.pc = p]

\* Its fields.
LEMMA MoveIs ==
    ASSUME NEW o \in Op, NEW p \in Pcs
    PROVE  LET q == WithPc(o, p)
           IN  /\ q \in Op /\ SameCall(o, q) /\ SameRead(o, q) /\ q.pc = p
               /\ q.saved = o.saved /\ q.changed = o.changed /\ q.left = o.left
               /\ q.status = o.status /\ q.late = o.late
BY DEF WithPc, Op, Pcs, SameCall, SameRead

\* A call that has come to a result.
WithResult(o, p, st) == [o EXCEPT !.pc = p, !.status = st]

\* Its fields.
LEMMA ResultIs ==
    ASSUME NEW o \in Op, NEW p \in Pcs, NEW st \in {"success", "error", "raised", "restore_error"}
    PROVE  LET q == WithResult(o, p, st)
           IN  /\ q \in Op /\ SameCall(o, q) /\ SameRead(o, q)
               /\ q.pc = p /\ q.status = st
               /\ q.saved = o.saved /\ q.changed = o.changed /\ q.late = o.late
<1> DEFINE q == WithResult(o, p, st)
<1>1. q \in Op
  BY DEF WithResult, Op, Pcs
<1>2. SameCall(o, q) /\ SameRead(o, q)
  BY DEF WithResult, Op, SameCall, SameRead
<1>3. q.pc = p /\ q.status = st
  BY DEF WithResult, Op
<1>4. q.saved = o.saved /\ q.changed = o.changed /\ q.late = o.late
  BY DEF WithResult, Op
<1> QED
  BY <1>1, <1>2, <1>3, <1>4

\* A selection that has succeeded.
WithChange(o, p) == [o EXCEPT !.pc = p, !.changed = TRUE]

\* Its fields.
LEMMA ChangeIs ==
    ASSUME NEW o \in Op, NEW p \in Pcs
    PROVE  LET q == WithChange(o, p)
           IN  /\ q \in Op /\ SameCall(o, q) /\ SameRead(o, q)
               /\ q.pc = p /\ q.changed = TRUE
               /\ q.saved = o.saved /\ q.status = o.status /\ q.late = o.late
<1> DEFINE q == WithChange(o, p)
<1>1. q \in Op
  BY DEF WithChange, Op, Pcs
<1>2. SameCall(o, q) /\ SameRead(o, q)
  BY DEF WithChange, Op, SameCall, SameRead
<1>3. q.pc = p /\ q.changed = TRUE
  BY DEF WithChange, Op
<1>4. q.saved = o.saved /\ q.status = o.status /\ q.late = o.late
  BY DEF WithChange, Op
<1> QED
  BY <1>1, <1>2, <1>3, <1>4

\* The thread of a capture.
WithThread(o, t) == [o EXCEPT !.pc = "c_frame", !.saved.thread = t]

\* Its fields.
LEMMA ThreadCaptureIs ==
    ASSUME NEW o \in Op, NEW t \in Threads \cup {None}
    PROVE  LET q == WithThread(o, t)
           IN  /\ q \in Op /\ SameCall(o, q) /\ SameRead(o, q)
               /\ q.pc = "c_frame" /\ q.changed = o.changed /\ q.late = o.late
               /\ q.saved.thread = t
<1> DEFINE q == WithThread(o, t)
<1>1. q \in Op
  BY DEF WithThread, Op, Pcs, Selection
<1>2. SameCall(o, q) /\ SameRead(o, q)
  BY DEF WithThread, Op, SameCall, SameRead
<1>3. q.pc = "c_frame" /\ q.changed = o.changed /\ q.late = o.late
  BY DEF WithThread, Op
<1>4. q.saved.thread = t
  BY DEF WithThread, Op, Selection
<1> QED
  BY <1>1, <1>2, <1>3, <1>4

\* The frame of a capture.
WithFrame(o, f) == [o EXCEPT !.saved.frame = f]

\* Its fields.
LEMMA FrameCaptureIs ==
    ASSUME NEW o \in Op, NEW f \in Frames \cup {None}
    PROVE  LET q == WithFrame(o, f)
           IN  /\ q \in Op /\ SameCall(o, q) /\ SameRead(o, q)
               /\ q.pc = o.pc /\ q.changed = o.changed /\ q.late = o.late
               /\ q.saved.thread = o.saved.thread /\ q.saved.frame = f
<1> DEFINE q == WithFrame(o, f)
<1>1. q \in Op
  BY DEF WithFrame, Op, Pcs, Selection
<1>2. SameCall(o, q) /\ SameRead(o, q)
  BY DEF WithFrame, Op, SameCall, SameRead
<1>3. q.pc = o.pc /\ q.changed = o.changed /\ q.late = o.late
  BY DEF WithFrame, Op
<1>4. q.saved.thread = o.saved.thread /\ q.saved.frame = f
  BY DEF WithFrame, Op, Selection
<1> QED
  BY <1>1, <1>2, <1>3, <1>4

\* A capture that tells the runtime.
WithTold(o, p) == [o EXCEPT !.pc = p, !.told = TRUE]

\* Its fields.
LEMMA ToldIs ==
    ASSUME NEW o \in Op, NEW p \in Pcs
    PROVE  LET q == WithTold(o, p)
           IN  /\ q \in Op
               /\ q.pc = p /\ q.told = TRUE
               /\ q.kind = o.kind /\ q.thread = o.thread /\ q.frame = o.frame /\ q.before = o.before
               /\ q.saved = o.saved /\ q.changed = o.changed /\ q.late = o.late
<1> DEFINE q == WithTold(o, p)
<1>1. q \in Op
  BY DEF WithTold, Op, Pcs
<1>2. q.pc = p /\ q.told = TRUE
  BY DEF WithTold, Op
<1>3. q.kind = o.kind /\ q.thread = o.thread /\ q.frame = o.frame /\ q.before = o.before
  BY DEF WithTold, Op
<1>4. q.saved = o.saved /\ q.changed = o.changed /\ q.late = o.late
  BY DEF WithTold, Op
<1> QED
  BY <1>1, <1>2, <1>3, <1>4

\* A query that has been answered.
WithAnswer(o, s, l) == [o EXCEPT !.left = 0, !.read = s, !.label = l]

\* Its fields.
LEMMA AnswerIs ==
    ASSUME NEW o \in Op, NEW s \in Selection, NEW l \in Selection
    PROVE  LET q == WithAnswer(o, s, l)
           IN  /\ q \in Op /\ SameCall(o, q)
               /\ q.pc = o.pc /\ q.read = s /\ q.label = l
               /\ q.saved = o.saved /\ q.changed = o.changed /\ q.late = o.late
<1> DEFINE q == WithAnswer(o, s, l)
<1>1. q \in Op
  <2>1. PICK n \in 0..3 : n = 0
    OBVIOUS
  <2>2. [o EXCEPT !.left = n, !.read = s, !.label = l] \in Op
    BY DEF Op
  <2> QED
    BY <2>1, <2>2 DEF WithAnswer
<1>2. SameCall(o, q)
  BY DEF WithAnswer, Op, SameCall, SameRead
<1>3. q.pc = o.pc /\ q.read = s /\ q.label = l
  BY DEF WithAnswer, Op
<1>4. q.saved = o.saved /\ q.changed = o.changed /\ q.late = o.late
  BY DEF WithAnswer, Op
<1> QED
  BY <1>1, <1>2, <1>3, <1>4

\* The queries that are left, once the features are known.
WithQueries(o, n) == [o EXCEPT !.pc = "query", !.left = n]

\* Its fields.
LEMMA ProbedIs ==
    ASSUME NEW o \in Op, NEW n \in 0..3
    PROVE  LET q == WithQueries(o, n)
           IN  /\ q \in Op /\ SameCall(o, q) /\ SameRead(o, q)
               /\ q.pc = "query"
               /\ q.saved = o.saved /\ q.changed = o.changed /\ q.late = o.late
<1> DEFINE q == WithQueries(o, n)
<1>1. q \in Op
  BY DEF WithQueries, Op, Pcs
<1>2. SameCall(o, q) /\ SameRead(o, q)
  BY DEF WithQueries, Op, SameCall, SameRead
<1>3. q.pc = "query"
  BY DEF WithQueries, Op
<1>4. q.saved = o.saved /\ q.changed = o.changed /\ q.late = o.late
  BY DEF WithQueries, Op
<1> QED
  BY <1>1, <1>2, <1>3, <1>4

\* The queries that are left, after one of them.
WithLeft(o, n) == [o EXCEPT !.left = n]

\* Its fields.
LEMMA LeftIs ==
    ASSUME NEW o \in Op, NEW n \in 0..3
    PROVE  LET q == WithLeft(o, n)
           IN  /\ q \in Op /\ SameCall(o, q) /\ SameRead(o, q)
               /\ q.pc = o.pc
               /\ q.saved = o.saved /\ q.changed = o.changed /\ q.late = o.late
<1> DEFINE q == WithLeft(o, n)
<1>1. q \in Op
  BY DEF WithLeft, Op, Pcs
<1>2. SameCall(o, q) /\ SameRead(o, q)
  BY DEF WithLeft, Op, SameCall, SameRead
<1>3. q.pc = o.pc
  BY DEF WithLeft, Op
<1>4. q.saved = o.saved /\ q.changed = o.changed /\ q.late = o.late
  BY DEF WithLeft, Op
<1> QED
  BY <1>1, <1>2, <1>3, <1>4

\* No call.
LEMMA NoOpIs == NoOp \in Op /\ NoOp.pc = "idle" /\ NoOp.before.thread = None
BY SelectionIs DEF Op, NoOp

-----------------------------------------------------------------------------
(* What the client and the program do between two calls *)

\* A stop, an exit or a raw command moves the selection to a frame that exists
\* or to nothing; the note is right or counted as wrong.
LEMMA BetweenKeeps ==
    ASSUME IInv, Idle, NEW s \in Selection, sel' = s, op' = op, cache' = cache,
           rt' \in Selection, noted' \in BOOLEAN, depth' \in [Threads -> 0..MaxDepth],
           SelInv', noted' => (rt = sel)'
    PROVE  IInv'
<1> USE DEF Idle, CaptureSteps, SelectSteps, QuerySteps, RestoreSteps
<1>1. TypeOK'
  BY DEF IInv, TypeOK
<1>2. CallInv' /\ CaptureInv' /\ PlaceInv'
  BY DEF IInv, CallInv, CaptureInv, PlaceInv, Capturing, Switches
<1>3. NoteInv' /\ ReadInv' /\ SelectionKept' /\ ToldInv' /\ SourceInv'
  BY DEF IInv, NoteInv, ReadInv, SelectionKept, ToldInv, SourceInv, Returned
<1> QED
  BY <1>1, <1>2, <1>3 DEF IInv

\* The program runs and stops again.
LEMMA StopsKeeps ==
    ASSUME IInv, NEW t \in Threads, NEW d \in [Threads -> 0..MaxDepth], NEW level \in BOOLEAN,
           Stops(t, d, level)
    PROVE  IInv'
<1>1. /\ sel' \in Selection /\ sel'.thread = t /\ sel'.frame = 0
      /\ rt' \in Selection /\ rt'.thread = t /\ (level => rt'.frame = 0)
  BY SelectionIs, Domains DEF Stops, IInv, TypeOK
<1>2. SelInv' /\ (noted' => (rt = sel)')
  BY <1>1, Domains DEF Stops, SelInv
<1> QED
  BY <1>1, <1>2, BetweenKeeps DEF Stops, IInv, TypeOK

\* The program ends.
LEMMA ExitsKeeps ==
    ASSUME IInv, Exits
    PROVE  IInv'
<1>1. sel' \in Selection /\ depth' \in [Threads -> 0..MaxDepth] /\ SelInv'
  BY SelectionIs, Domains DEF Exits, SelInv
<1> QED
  BY <1>1, BetweenKeeps DEF Exits, IInv, TypeOK

\* The client selects a frame itself.
LEMMA RawSelectKeeps ==
    ASSUME IInv, NEW t \in Threads, NEW f \in Frames, RawSelect(t, f)
    PROVE  IInv'
<1>1. sel' \in Selection /\ sel'.thread = t /\ sel'.frame = f
  BY SelectionIs DEF RawSelect
<1>2. SelInv'
  BY <1>1 DEF RawSelect, SelInv
<1> QED
  BY <1>1, <1>2, BetweenKeeps DEF RawSelect, IInv, TypeOK

-----------------------------------------------------------------------------
(* The beginning and the end of a call *)

\* Every call asks for one to three answers.
LEMMA QueriesType ==
    ASSUME NEW kind, NEW c, NEW n \in Queries(kind, c)
    PROVE  n \in 0..3
BY DEF Queries

\* The call that begins.
LEMMA EnterIs ==
    ASSUME IInv, NEW kind \in Selects \cup Inspects, NEW t \in Threads \cup {None},
           NEW f \in Frames \cup {None}, Enter(kind, t, f)
    PROVE  /\ op' \in Op /\ op'.kind = kind /\ op'.thread = t /\ op'.frame = f
           /\ op'.pc = IF Captures(kind, t, f) THEN "c_thread" ELSE QueryStep(kind)
           /\ op'.before = sel /\ op'.told = noted /\ op'.saved = Nothing
           /\ op'.changed = FALSE /\ op'.late = FALSE /\ op'.status = "none"
<1> DEFINE p == IF Captures(kind, t, f) THEN "c_thread" ELSE QueryStep(kind)
<1>1. p \in Pcs
  BY DEF QueryStep, Pcs
<1>2. PICK n \in Queries(kind, cache) :
         op' = [NoOp EXCEPT !.kind = kind, !.thread = t, !.frame = f, !.left = n,
                            !.pc = p, !.before = sel, !.told = noted]
  BY DEF Enter
<1>3. n \in 0..3 /\ sel \in Selection /\ noted \in BOOLEAN
  BY QueriesType DEF IInv, TypeOK
<1>4. /\ NoOp \in Op /\ NoOp.saved = Nothing /\ NoOp.changed = FALSE
      /\ NoOp.late = FALSE /\ NoOp.status = "none"
  BY SelectionIs DEF Op, NoOp
<1> HIDE DEF p
<1>5. op' \in Op
  BY ZenonT(60), <1>1, <1>2, <1>3, <1>4 DEF Op, Pcs
<1>6. op'.kind = kind /\ op'.thread = t /\ op'.frame = f /\ op'.pc = p
  BY <1>2, <1>4 DEF Op
<1>7. op'.before = sel /\ op'.told = noted
  BY <1>2, <1>4 DEF Op
<1>8. /\ op'.saved = Nothing /\ op'.changed = FALSE /\ op'.late = FALSE
      /\ op'.status = "none"
  BY <1>2, <1>4 DEF Op
<1> QED
  BY <1>5, <1>6, <1>7, <1>8 DEF p

\* A call begins where the selection is.
LEMMA EnterKeeps ==
    ASSUME IInv, NEW kind \in Selects \cup Inspects, NEW t \in Threads \cup {None},
           NEW f \in Frames \cup {None}, Idle, Shape(kind, t, f), Enter(kind, t, f),
           UNCHANGED <<sel, depth, rt, cache, noted>>
    PROVE  IInv'
<1> USE DEF Idle, CaptureSteps, SelectSteps, QuerySteps, RestoreSteps
<1>2. /\ op' \in Op /\ op'.kind = kind /\ op'.thread = t /\ op'.frame = f
      /\ op'.pc = IF Captures(kind, t, f) THEN "c_thread" ELSE QueryStep(kind)
      /\ op'.before = sel /\ op'.told = noted /\ op'.saved = Nothing
      /\ op'.changed = FALSE /\ op'.late = FALSE /\ op'.status = "none"
  BY EnterIs
<1>3. /\ Captures(kind, t, f) => op'.pc = "c_thread"
      /\ ~Captures(kind, t, f) => op'.pc \in QuerySteps
  BY <1>2 DEF QueryStep
<1>4. kind \in Selects => ~Captures(kind, t, f)
  BY DEF Selects, Captures
<1>5. TypeOK' /\ SelInv'
  BY <1>2 DEF IInv, TypeOK, SelInv
<1>6. CallInv'
  <2>1. sel.thread # None => sel.frame \in Frames
    BY SelectionIs DEF IInv, SelInv
  <2> QED
    BY <1>2, <1>3, <1>4, <2>1 DEF CallInv, Capturing, Shape
<1>7. CaptureInv' /\ PlaceInv'
  BY <1>2, <1>3 DEF CaptureInv, PlaceInv, Capturing
<1>8. NoteInv' /\ ReadInv' /\ SelectionKept'
  BY <1>2, <1>3 DEF IInv, NoteInv, ReadInv, SelectionKept, Returned
<1>9. ToldInv' /\ SourceInv'
  BY <1>2, <1>3 DEF ToldInv, SourceInv, Capturing
<1> QED
  BY <1>5, <1>6, <1>7, <1>8, <1>9 DEF IInv

\* The caller takes the answer.
LEMMA AnsweredKeeps ==
    ASSUME IInv, Answered
    PROVE  IInv'
<1> USE NoOpIs DEF Answered, CaptureSteps, SelectSteps, QuerySteps, RestoreSteps
<1>1. TypeOK' /\ SelInv' /\ CallInv'
  BY DEF IInv, TypeOK, SelInv, CallInv
<1>2. CaptureInv' /\ PlaceInv' /\ NoteInv' /\ ReadInv' /\ SelectionKept' /\ ToldInv' /\ SourceInv'
  BY DEF IInv, CaptureInv, PlaceInv, NoteInv, ReadInv, SelectionKept, ToldInv, SourceInv, Returned
<1> QED
  BY <1>1, <1>2 DEF IInv

-----------------------------------------------------------------------------
(* The steps of a call *)

\* A call that returns an error where GDB is still where the client left it.
LEMMA ReturnKeeps ==
    ASSUME IInv, op.pc \in CaptureSteps \cup {"s_thread"} \cup QuerySteps, ~op.changed,
           op.kind \in Inspects, Return(op, "error"), UNCHANGED <<sel, depth, rt, cache, noted>>
    PROVE  IInv'
<1> USE DEF Return, CaptureSteps, SelectSteps, QuerySteps, RestoreSteps
<1>1. /\ op' \in Op /\ SameCall(op, op') /\ op'.pc = "returned" /\ op'.status = "error"
  <2>1. op \in Op /\ "returned" \in Pcs /\ op' = WithResult(op, "returned", "error")
    BY DEF IInv, TypeOK, Pcs, WithResult
  <2> QED
    BY <2>1, ResultIs
<1>2. TypeOK' /\ SelInv' /\ CallInv'
  BY <1>1 DEF IInv, TypeOK, SelInv, CallInv, SameCall
<1>3. CaptureInv' /\ PlaceInv' /\ ReadInv'
  BY <1>1 DEF CaptureInv, PlaceInv, ReadInv
<1>4. NoteInv'
  BY <1>1 DEF IInv, NoteInv
<1>5. SelectionKept' /\ ToldInv' /\ SourceInv'
  BY <1>1 DEF IInv, CaptureInv, PlaceInv, SelectionKept, ToldInv, SourceInv, Returned, SameCall
<1> QED
  BY <1>2, <1>3, <1>4, <1>5 DEF IInv

\* The captured thread is the selected one.
LEMMA CaptureThreadKeeps ==
    ASSUME IInv, CaptureThread
    PROVE  IInv'
<1> USE DEF CaptureThread, CaptureSteps, SelectSteps, QuerySteps, RestoreSteps
<1>1. CASE Return(op, "error")
  BY <1>1, ReturnKeeps DEF IInv, PlaceInv, CallInv
<1>2. CASE op' = [op EXCEPT !.pc = "c_frame", !.saved.thread = sel.thread]
  <2>1. /\ op' \in Op /\ SameCall(op, op') /\ op'.pc = "c_frame"
        /\ op'.changed = op.changed /\ op'.late = op.late /\ op'.saved.thread = sel.thread
    <3>1. op \in Op /\ sel.thread \in Threads \cup {None} /\ op' = WithThread(op, sel.thread)
      BY <1>2, SelectionIs DEF IInv, TypeOK, WithThread
    <3> QED
      BY <3>1, ThreadCaptureIs
  <2>2. TypeOK' /\ SelInv' /\ CallInv'
    BY <2>1 DEF IInv, TypeOK, SelInv, CallInv, SameCall, Capturing
  <2>3. CaptureInv' /\ PlaceInv' /\ NoteInv'
    BY <2>1 DEF IInv, CaptureInv, PlaceInv, NoteInv, SameCall
  <2>4. ReadInv' /\ SelectionKept' /\ ToldInv' /\ SourceInv'
    BY <2>1 DEF IInv, ReadInv, SelectionKept, ToldInv, SourceInv, Returned, SameCall
  <2> QED
    BY <2>2, <2>3, <2>4 DEF IInv
<1> QED
  BY <1>1, <1>2

\* The capture is complete, and the runtime is told of it.
LEMMA CaptureFrameKeeps ==
    ASSUME IInv, CaptureFrame
    PROVE  IInv'
<1> USE DEF CaptureFrame, CaptureSteps, SelectSteps, QuerySteps, RestoreSteps
<1> DEFINE o == WithFrame(op, sel.frame)
<1>0. op \in Op /\ sel \in Selection
  BY DEF IInv, TypeOK
<1>1. CASE Return(op, "error") /\ UNCHANGED <<rt, noted>>
  BY <1>1, ReturnKeeps DEF IInv, PlaceInv, CallInv
<1>2. CASE /\ sel.thread # None /\ op' = WithTold(o, AfterCapture(o))
           /\ rt' = o.saved /\ noted' = TRUE
  <2>1. /\ o \in Op /\ SameCall(op, o) /\ o.changed = op.changed /\ o.late = op.late
        /\ o.saved = sel
    <3>1. /\ o \in Op /\ SameCall(op, o) /\ o.changed = op.changed /\ o.late = op.late
          /\ o.saved.thread = op.saved.thread /\ o.saved.frame = sel.frame
      BY <1>0, FrameCaptureIs, SelectionIs
    <3>2. o.saved \in Selection /\ op.saved.thread = sel.thread
      BY <3>1, OpIs DEF IInv, CaptureInv
    <3> HIDE DEF o
    <3> QED
      BY <1>0, <3>1, <3>2, SelectionIs
  <2> HIDE DEF o
  <2>2. AfterCapture(o) \in SelectSteps \cup QuerySteps
    BY DEF AfterCapture, AfterThread, QueryStep
  <2>3. /\ op' \in Op /\ op'.pc = AfterCapture(o) /\ op'.told = TRUE /\ op'.before = op.before
        /\ op'.kind = op.kind /\ op'.thread = op.thread /\ op'.frame = op.frame
        /\ op'.saved = sel /\ op'.changed = op.changed /\ op'.late = op.late
    <3>1. AfterCapture(o) \in Pcs
      BY <2>2 DEF Pcs
    <3>2. /\ op' \in Op /\ op'.pc = AfterCapture(o) /\ op'.told = TRUE
          /\ op'.kind = o.kind /\ op'.thread = o.thread /\ op'.frame = o.frame
          /\ op'.before = o.before
          /\ op'.saved = o.saved /\ op'.changed = o.changed /\ op'.late = o.late
      BY <1>2, <2>1, <3>1, ToldIs
    <3> QED
      BY <2>1, <3>2 DEF SameCall
  <2>4. /\ sel = op.before /\ ~op.changed /\ ~op.late /\ op.kind \in Inspects /\ Capturing(op)
        /\ Shape(op.kind, op.thread, op.frame)
    BY DEF IInv, CaptureInv, PlaceInv, CallInv
  <2>5. /\ op'.pc = "s_thread" => op.thread \notin {None, sel.thread}
        /\ op'.pc = "s_frame" => op.frame \notin {None, sel.frame} /\ op.thread \in {None, sel.thread}
        /\ op'.pc \in QuerySteps => op.thread \in {None, sel.thread} /\ op.frame \in {None, sel.frame}
    BY <2>1, <2>3 DEF AfterCapture, AfterThread, QueryStep, SameCall
  <2>6. TypeOK' /\ SelInv' /\ CallInv'
    BY <1>0, <1>2, <2>1, <2>2, <2>3, <2>4 DEF IInv, TypeOK, SelInv, CallInv, Capturing
  <2>7. CaptureInv'
    BY <1>2, <2>1, <2>2, <2>3, <2>4 DEF CaptureInv, Capturing
  <2>8. PlaceInv'
    BY <1>2, <2>1, <2>2, <2>3, <2>4, <2>5 DEF PlaceInv, Capturing, Switches
  <2>9. NoteInv' /\ ReadInv' /\ SelectionKept' /\ ToldInv' /\ SourceInv'
    BY <1>2, <2>1, <2>2, <2>3 DEF NoteInv, ReadInv, SelectionKept, ToldInv, SourceInv, Returned
  <2> QED
    BY <2>6, <2>7, <2>8, <2>9 DEF IInv
<1> QED
  BY <1>1, <1>2 DEF WithFrame, WithTold

\* A selection that failed: a backtrace returns, the others restore.
LEMMA SelectionFailedIs ==
    ASSUME op \in Op, NEW late \in BOOLEAN, SelectionFailed(late)
    PROVE  /\ op' \in Op /\ SameCall(op, op') /\ SameRead(op, op') /\ op'.status = "error"
           /\ (op'.late <=> late) /\ op'.saved = op.saved /\ op'.changed = op.changed
           /\ op'.pc = IF op.kind = "backtrace" THEN "returned" ELSE "r_thread"
<1>1. CASE op.kind = "backtrace"
  <2>1. op' = [[op EXCEPT !.late = late] EXCEPT !.pc = "returned", !.status = "error"]
    BY <1>1 DEF SelectionFailed, Return
  <2>2. op' \in Op
    BY ZenonT(60), <2>1 DEF Op
  <2>3. SameCall(op, op') /\ SameRead(op, op')
    BY <2>1 DEF Op, SameCall, SameRead
  <2>4. op'.status = "error" /\ op'.pc = "returned" /\ (op'.late <=> late)
    BY <2>1 DEF Op
  <2>5. op'.saved = op.saved /\ op'.changed = op.changed
    BY <2>1 DEF Op
  <2> QED
    BY <1>1, <2>2, <2>3, <2>4, <2>5
<1>2. CASE op.kind # "backtrace"
  <2>1. op' = [op EXCEPT !.pc = "r_thread", !.status = "error", !.late = late]
    BY <1>2 DEF SelectionFailed
  <2>2. op' \in Op
    BY <2>1 DEF Op
  <2>3. SameCall(op, op') /\ SameRead(op, op')
    BY <2>1 DEF Op, SameCall, SameRead
  <2>4. op'.status = "error" /\ op'.pc = "r_thread" /\ (op'.late <=> late)
    BY <2>1 DEF Op
  <2>5. op'.saved = op.saved /\ op'.changed = op.changed
    BY <2>1 DEF Op
  <2> QED
    BY <1>2, <2>2, <2>3, <2>4, <2>5
<1> QED
  BY <1>1, <1>2

\* Either way the selection is kept or will be restored.
LEMMA SelectionFailedKeeps ==
    ASSUME IInv, op.pc \in SelectSteps, NEW late \in BOOLEAN, SelectionFailed(late),
           ~late => sel' = sel, sel' \in Selection, SelInv', UNCHANGED <<depth, rt, cache>>
    PROVE  IInv'
<1> USE DEF CaptureSteps, SelectSteps, QuerySteps, RestoreSteps
<1>1. op \in Op /\ noted \in BOOLEAN
  BY DEF IInv, TypeOK
<1>2. /\ op' \in Op /\ SameCall(op, op') /\ SameRead(op, op') /\ op'.status = "error"
      /\ (op'.late <=> late) /\ op'.saved = op.saved /\ op'.changed = op.changed
      /\ op'.pc = IF op.kind = "backtrace" THEN "returned" ELSE "r_thread"
  BY <1>1, SelectionFailedIs
<1>3. /\ op.saved = op.before /\ op.saved.thread # None /\ rt = op.saved /\ noted
      /\ op.kind \in Inspects /\ Capturing(op) /\ Shape(op.kind, op.thread, op.frame)
  BY DEF IInv, CaptureInv, CallInv
<1>4. op.kind = "backtrace" => sel = op.before
  BY <1>3 DEF IInv, CaptureInv, PlaceInv, Shape
<1>5. TypeOK' /\ SelInv' /\ CallInv'
  BY <1>1, <1>2, <1>3 DEF SelectionFailed, IInv, TypeOK, CallInv, SameCall, Capturing
<1>6. CaptureInv' /\ PlaceInv'
  BY <1>2, <1>3 DEF CaptureInv, PlaceInv, SameCall
<1>7. NoteInv'
  BY <1>2, <1>3, <1>4 DEF SelectionFailed, NoteInv
<1>8. ReadInv' /\ SelectionKept'
  BY <1>2, <1>4 DEF ReadInv, SelectionKept, Returned, SameCall
<1>9. ToldInv' /\ SourceInv'
  BY <1>1, <1>2, <1>3 DEF SelectionFailed, ToldInv, SourceInv, SameCall
<1> QED
  BY <1>5, <1>6, <1>7, <1>8, <1>9 DEF IInv

\* The thread that was asked for is selected, or the call has failed.
LEMMA SelectThreadKeeps ==
    ASSUME IInv, SelectThread
    PROVE  IInv'
<1> USE DEF CaptureSteps, SelectSteps, QuerySteps, RestoreSteps
<1>1. /\ op \in Op /\ sel \in Selection /\ depth \in [Threads -> 0..MaxDepth] /\ SelInv
      /\ op.pc = "s_thread" /\ op.thread \in Threads /\ sel = op.before /\ ~op.changed /\ ~op.late
      /\ op.saved = op.before /\ op.saved.thread # None /\ rt = op.saved /\ noted
      /\ op.kind \in Inspects /\ Capturing(op) /\ Shape(op.kind, op.thread, op.frame)
      /\ Switches(op)
  BY OpIs DEF SelectThread, IInv, TypeOK, CaptureInv, PlaceInv, CallInv, Switches
<1> DEFINE s == ThreadSelected(sel, op.thread)
<1>2. ThreadExists(op.thread) =>
          s \in Selection /\ s.thread = op.thread /\ s.frame \in Frames /\ s.frame < depth[s.thread]
  BY <1>1, ThreadSelectedIs
<1> HIDE DEF s
<1>3. CASE UNCHANGED sel /\ SelectionFailed(FALSE)
  BY <1>1, <1>3, SelectionFailedKeeps DEF SelectThread, SelInv
<1>4. CASE ThreadExists(op.thread) /\ sel' = s /\ SelectionFailed(TRUE)
  BY <1>1, <1>2, <1>4, SelectionFailedKeeps DEF SelectThread, SelInv
<1>5. CASE /\ ThreadExists(op.thread) /\ sel' = s /\ UNCHANGED noted
           /\ op' = WithChange(op, AfterThread(op))
  <2>1. AfterThread(op) \in {"s_frame"} \cup QuerySteps /\ AfterThread(op) \in Pcs
    BY DEF AfterThread, QueryStep, Pcs
  <2>2. /\ op' \in Op /\ SameCall(op, op') /\ op'.pc = AfterThread(op) /\ op'.changed = TRUE
        /\ op'.saved = op.saved /\ op'.late = op.late
    BY <1>1, <1>5, <2>1, ChangeIs
  <2>3. /\ op'.pc = "s_frame" => op.frame \notin {None, op.saved.frame}
        /\ op'.pc \in QuerySteps => op.frame \in {None, op.saved.frame}
    BY <2>2 DEF AfterThread, QueryStep
  <2>4. TypeOK' /\ SelInv' /\ CallInv'
    BY <1>1, <1>2, <1>5, <2>1, <2>2 DEF SelectThread, IInv, TypeOK, SelInv, CallInv, SameCall, Capturing
  <2>5. CaptureInv'
    BY <1>1, <1>5, <2>1, <2>2 DEF SelectThread, CaptureInv, SameCall
  <2>6. PlaceInv'
    BY <1>1, <1>2, <1>5, <2>1, <2>2, <2>3 DEF PlaceInv, SameCall, Switches, Capturing
  <2>7. NoteInv' /\ ReadInv' /\ SelectionKept'
    BY <2>1, <2>2 DEF NoteInv, ReadInv, SelectionKept, Returned
  <2>8. ToldInv' /\ SourceInv'
    BY <1>1, <1>5, <2>1, <2>2 DEF IInv, ToldInv, SourceInv, SameCall, Capturing
  <2> QED
    BY <2>4, <2>5, <2>6, <2>7, <2>8 DEF IInv
<1> QED
  BY <1>3, <1>4, <1>5 DEF SelectThread, Selecting, s, WithChange

\* The frame that was asked for is selected, or the call has failed.
LEMMA SelectFrameKeeps ==
    ASSUME IInv, SelectFrame
    PROVE  IInv'
<1> USE DEF CaptureSteps, SelectSteps, QuerySteps, RestoreSteps
<1>1. /\ op \in Op /\ sel \in Selection /\ depth \in [Threads -> 0..MaxDepth] /\ SelInv
      /\ op.pc = "s_frame" /\ op.frame \in Frames /\ ~op.late
      /\ op.saved = op.before /\ op.saved.thread # None /\ rt = op.saved /\ noted
      /\ op.kind \in Inspects /\ Capturing(op) /\ Shape(op.kind, op.thread, op.frame)
      /\ op.thread # None => sel.thread = op.thread
      /\ op.thread = None => sel.thread = op.saved.thread
  BY OpIs DEF SelectFrame, IInv, TypeOK, CaptureInv, PlaceInv, CallInv
<1> DEFINE s == FrameSelected(sel, op.frame)
<1>2. FrameExists(op.frame) =>
          /\ s \in Selection /\ s.thread = sel.thread /\ s.frame = op.frame
          /\ s.thread \in Threads /\ s.frame < depth[s.thread]
  BY <1>1, FrameSelectedIs
<1> HIDE DEF s
<1>3. CASE UNCHANGED sel /\ SelectionFailed(FALSE)
  BY <1>1, <1>3, SelectionFailedKeeps DEF SelectFrame, SelInv
<1>4. CASE FrameExists(op.frame) /\ sel' = s /\ SelectionFailed(TRUE)
  BY <1>1, <1>2, <1>4, SelectionFailedKeeps DEF SelectFrame, SelInv
<1>5. CASE /\ FrameExists(op.frame) /\ sel' = s /\ UNCHANGED noted
           /\ op' = WithChange(op, QueryStep(op.kind))
  <2>1. QueryStep(op.kind) \in QuerySteps /\ QueryStep(op.kind) \in Pcs
    BY DEF QueryStep, Pcs
  <2>2. /\ op' \in Op /\ SameCall(op, op') /\ op'.pc \in QuerySteps /\ op'.changed = TRUE
        /\ op'.saved = op.saved /\ op'.late = op.late
    BY <1>1, <1>5, <2>1, ChangeIs
  <2>3. TypeOK' /\ SelInv' /\ CallInv'
    BY <1>1, <1>2, <1>5, <2>2 DEF SelectFrame, IInv, TypeOK, SelInv, CallInv, SameCall, Capturing
  <2>4. CaptureInv'
    BY <1>1, <1>5, <2>2 DEF SelectFrame, CaptureInv, SameCall
  <2>5. PlaceInv'
    BY <1>1, <1>2, <1>5, <2>2, Domains DEF PlaceInv, SameCall, Switches, Capturing
  <2>6. NoteInv' /\ ReadInv' /\ SelectionKept'
    BY <2>2 DEF NoteInv, ReadInv, SelectionKept, Returned
  <2>7. ToldInv' /\ SourceInv'
    BY <1>1, <1>5, <2>2 DEF IInv, ToldInv, SourceInv, SameCall, Capturing
  <2> QED
    BY <2>3, <2>4, <2>5, <2>6, <2>7 DEF IInv
<1> QED
  BY <1>3, <1>4, <1>5 DEF SelectFrame, Selecting, s, WithChange

\* The answer to a question is a Boolean.
LEMMA BooleanIs ==
    ASSUME NEW k, NEW S, NEW b, b = (k \in S) \/ b = FALSE
    PROVE  b \in BOOLEAN
<1>1. CASE b = (k \in S)
  BY <1>1
<1>2. CASE b = FALSE
  BY <1>2
<1> QED
  BY <1>1, <1>2

\* Looking for a feature moves nothing.
LEMMA ProbeKeeps ==
    ASSUME IInv, Probe
    PROVE  IInv'
<1> USE DEF CaptureSteps, SelectSteps, QuerySteps, RestoreSteps
<1>1. op \in Op /\ op.pc = "probe"
  BY DEF IInv, TypeOK, Probe
<1>2. cache' \in [Probing -> BOOLEAN \cup {None}]
  <2>1. PICK b \in {op.kind \in Features, FALSE} : cache' = [cache EXCEPT ![op.kind] = b]
    BY Zenon DEF Probe
  <2>2. b = (op.kind \in Features) \/ b = FALSE
    BY <2>1
  <2> QED
    BY <2>1, <2>2, BooleanIs DEF IInv, TypeOK
<1>3. PICK n \in Queries(op.kind, cache') : op' = WithQueries(op, n)
  BY DEF Probe, WithQueries
<1>4. /\ op' \in Op /\ SameCall(op, op') /\ SameRead(op, op') /\ op'.pc = "query"
      /\ op'.saved = op.saved /\ op'.changed = op.changed /\ op'.late = op.late
  BY <1>1, <1>3, ProbedIs, QueriesType
<1>5. TypeOK' /\ SelInv' /\ CallInv'
  BY <1>1, <1>2, <1>4 DEF Probe, IInv, TypeOK, SelInv, CallInv, SameCall
<1>6. CaptureInv' /\ NoteInv' /\ ReadInv' /\ SelectionKept' /\ ToldInv' /\ SourceInv'
  BY <1>1, <1>4 DEF Probe, IInv, CaptureInv, NoteInv, ReadInv, SelectionKept, ToldInv, SourceInv, Returned, SameCall, Capturing
<1>7. PlaceInv'
  BY <1>1, <1>4 DEF Probe, IInv, PlaceInv, SameCall, Capturing, Switches
<1> QED
  BY <1>5, <1>6, <1>7 DEF IInv

\* The end of a query: the selection is restored, or the call returns where the
\* selection has not moved.
LEMMA FinishKeeps ==
    ASSUME IInv, op.pc = "query", op.kind \in Inspects, NEW o \in Op, SameCall(op, o),
           o.saved = op.saved, o.changed = op.changed, o.late = op.late,
           NEW st \in {"success", "error"}, Finish(o, st), UNCHANGED <<sel, depth, cache, noted>>,
           rt' \in Selection, (~op.changed /\ noted) => rt' = sel, st = "success" => o.read = sel,
           (st = "success" /\ op.told /\ ~BorrowedFrame) =>
               /\ op.thread # None => o.read.thread = op.thread
               /\ op.frame # None => o.read.frame = op.frame
               /\ o.label.thread # None => o.read.thread = o.label.thread
               /\ o.label.frame # None => o.read.frame = o.label.frame
    PROVE  IInv'
<1> USE DEF CaptureSteps, SelectSteps, QuerySteps, RestoreSteps
<1> DEFINE p == IF Restores(o, st) THEN "r_thread" ELSE "returned"
<1>1. /\ op' \in Op /\ SameCall(o, op') /\ SameRead(o, op') /\ op'.pc = p /\ op'.status = st
      /\ op'.saved = o.saved /\ op'.changed = o.changed /\ op'.late = o.late
  <2>1. op' = [o EXCEPT !.pc = p, !.status = st] /\ p \in Pcs
    BY DEF Finish, Return, Pcs
  <2> HIDE DEF p
  <2>2. op' \in Op
    BY <2>1 DEF Op, Pcs
  <2>3. SameCall(o, op') /\ SameRead(o, op')
    BY <2>1 DEF Op, SameCall, SameRead
  <2>4. op'.pc = p /\ op'.status = st
    BY <2>1 DEF Op
  <2>5. op'.saved = o.saved /\ op'.changed = o.changed /\ op'.late = o.late
    BY <2>1 DEF Op
  <2> QED
    BY <2>2, <2>3, <2>4, <2>5
<1>2. /\ op'.pc \in {"r_thread", "returned"}
      /\ op'.pc = "r_thread" => Capturing(op)
      /\ op'.pc = "returned" /\ Capturing(op) => ~op.changed
  BY <1>1 DEF Restores, Capturing, SameCall
<1>3. /\ op'.kind = op.kind /\ op'.thread = op.thread /\ op'.frame = op.frame
      /\ op'.before = op.before /\ op'.told = op.told /\ op'.saved = op.saved
      /\ op'.changed = op.changed /\ op'.late = op.late
      /\ op'.read = o.read /\ op'.label = o.label
  BY <1>1 DEF SameCall, SameRead
<1> HIDE DEF p
<1>4. op'.pc = "returned" => ~op.changed /\ sel = op.before
  BY <1>2 DEF IInv, PlaceInv
<1>5. TypeOK' /\ SelInv' /\ CallInv'
  BY <1>1, <1>2, <1>3 DEF IInv, TypeOK, SelInv, CallInv, Capturing
<1>6. CaptureInv' /\ PlaceInv'
  BY <1>2, <1>3 DEF IInv, CaptureInv, PlaceInv
<1>7. NoteInv' /\ SelectionKept'
  BY <1>2, <1>3, <1>4 DEF NoteInv, SelectionKept, Returned
<1>8. ReadInv'
  BY <1>1, <1>2, <1>3 DEF ReadInv, BorrowedFrame
<1>9. ToldInv'
  BY <1>2, <1>3 DEF IInv, ToldInv
<1>10. SourceInv'
  <2>1. /\ op.before \in Selection /\ sel \in Selection
        /\ Capturing(op) => /\ op.saved = op.before /\ op.saved.thread # None /\ op.told
    BY OpIs DEF IInv, TypeOK, CaptureInv, SourceInv
  <2>2. (op.thread \in {None, op.before.thread} /\ op.frame \in {None, op.before.frame})
            => sel = op.before
    <3>1. CASE Capturing(op)
      <4>1. /\ op.thread # None => sel.thread = op.thread
            /\ op.thread = None => sel.thread = op.saved.thread
            /\ op.frame # None /\ ~Switches(op) => sel.frame = op.frame
            /\ op.frame = None /\ ~Switches(op) => sel = op.saved
        BY <3>1 DEF IInv, PlaceInv
      <4> QED
        BY <2>1, <3>1, <4>1, SelectionIs DEF Switches
    <3>2. CASE ~Capturing(op)
      BY <3>2 DEF IInv, PlaceInv
    <3> QED
      BY <3>1, <3>2
  <2> QED
    BY <1>1, <1>2, <1>3, <2>1, <2>2 DEF SourceInv, Capturing
<1> QED
  BY <1>5, <1>6, <1>7, <1>8, <1>9, <1>10 DEF IInv

\* A query that fails.
LEMMA QueryFailsKeeps ==
    ASSUME IInv, QueryFails
    PROVE  IInv'
<1>1. op \in Op /\ rt \in Selection /\ op.pc = "query" /\ op.kind \in Inspects
  BY DEF IInv, TypeOK, QueryFails
<1>2. ~op.changed /\ noted => rt = sel
  BY <1>1 DEF IInv, NoteInv, QuerySteps
<1>3. SameCall(op, op)
  BY DEF SameCall
<1> QED
  BY <1>1, <1>2, <1>3, FinishKeeps DEF QueryFails

\* A source listing that raises on the file.
LEMMA SourceRaisesKeeps ==
    ASSUME IInv, SourceRaises
    PROVE  IInv'
<1> USE DEF CaptureSteps, SelectSteps, QuerySteps, RestoreSteps
<1>1. /\ op.pc = "query" /\ op.kind = "source" /\ op.kind \in Inspects
      /\ UNCHANGED <<sel, depth, rt, cache>>
  BY DEF SourceRaises, Inspects
<1>2. /\ op' \in Op /\ SameCall(op, op') /\ op'.pc = "returned" /\ op'.status = "raised"
      /\ op'.changed = op.changed
  <2>1. op \in Op /\ "returned" \in Pcs /\ op' = WithResult(op, "returned", "raised")
    BY DEF IInv, TypeOK, Pcs, WithResult, SourceRaises, Return
  <2>2. op'.changed = op.changed
    BY <2>1 DEF WithResult, Op
  <2> QED
    BY <2>1, <2>2, ResultIs
<1>3. noted \in BOOLEAN /\ op.changed \in BOOLEAN /\ noted' \in BOOLEAN /\ (noted' <=> noted /\ ~op.changed)
  BY Zenon, OpIs DEF IInv, TypeOK, SourceRaises, Op
<1>4. TypeOK' /\ SelInv' /\ CallInv'
  BY <1>1, <1>2, <1>3 DEF IInv, TypeOK, SelInv, CallInv, SameCall
<1>5. CaptureInv' /\ PlaceInv' /\ ReadInv'
  BY <1>1, <1>2 DEF CaptureInv, PlaceInv, ReadInv, SameCall
<1>6. NoteInv'
  BY <1>1, <1>2, <1>3 DEF IInv, NoteInv
<1>7. SelectionKept'
  BY <1>1, <1>2 DEF IInv, PlaceInv, SelectionKept, Returned, SameCall
<1>8. SourceInv'
  BY <1>2 DEF SourceInv
<1>9. ToldInv'
  BY <1>1, <1>2, <1>3 DEF IInv, ToldInv, SameCall
<1> QED
  BY <1>4, <1>5, <1>6, <1>7, <1>8, <1>9 DEF IInv

\* What an answer names is where GDB was when it answered.
LEMMA LabelIs ==
    ASSUME IInv, op.pc = "query", op.kind \in Inspects
    PROVE  /\ Label(op) \in Selection
           /\ (op.told /\ ~BorrowedFrame) =>
                 /\ op.thread # None => sel.thread = op.thread
                 /\ op.frame # None => sel.frame = op.frame
                 /\ Label(op).thread # None => sel.thread = Label(op).thread
                 /\ Label(op).frame # None => sel.frame = Label(op).frame
<1> USE DEF QuerySteps
<1>1. /\ op.thread \in Threads \cup {None} /\ op.frame \in Frames \cup {None}
      /\ op.saved \in Selection /\ rt \in Selection /\ sel \in Selection
  BY OpIs DEF IInv, TypeOK
<1>2. /\ op.thread \in Threads \cup {None} /\ op.frame \in Frames \cup {None}
      /\ op.saved.thread \in Threads \cup {None} /\ op.saved.frame \in Frames \cup {None}
      /\ rt.thread \in Threads \cup {None} /\ rt.frame \in Frames \cup {None}
      /\ sel.frame \in Frames \cup {None} /\ None \notin Threads /\ None \notin Frames
  BY <1>1, SelectionIs, Domains
<1>3. /\ op.kind \in {"variables"} => Capturing(op) /\ op.frame # None
      /\ op.thread # None \/ op.frame # None => Capturing(op)
  BY DEF IInv, CallInv, Shape, Capturing, Captures, Inspects
<1>4. Capturing(op) =>
          /\ op.thread # None => sel.thread = op.thread
          /\ op.thread = None => sel.thread = op.saved.thread
          /\ op.frame # None /\ ~(Switches(op) /\ op.frame = op.saved.frame) => sel.frame = op.frame
          /\ op.frame = None /\ ~Switches(op) => sel = op.saved
  BY DEF IInv, PlaceInv
<1>5. ~Capturing(op) /\ op.told => rt = sel
  BY DEF IInv, PlaceInv, NoteInv
<1>6. (op.told /\ ~BorrowedFrame) =>
          /\ op.thread # None => sel.thread = op.thread
          /\ op.frame # None => sel.frame = op.frame
  BY <1>3, <1>4 DEF BorrowedFrame, Switches
<1>7. CASE op.kind = "backtrace"
  <2> DEFINE l == [thread |-> IF op.thread # None THEN op.thread ELSE rt.thread, frame |-> None]
  <2>1. Label(op) = l
    BY <1>7 DEF Label
  <2>2. l \in Selection /\ l.thread = (IF op.thread # None THEN op.thread ELSE rt.thread)
        /\ l.frame = None
    BY <1>2, SelectionIs
  <2>3. op.thread = None => ~Capturing(op)
    BY <1>7 DEF Capturing, Captures
  <2> HIDE DEF l
  <2> QED
    BY <1>5, <1>6, <2>1, <2>2, <2>3
<1>8. CASE op.kind = "variables"
  <2> DEFINE l == [thread |-> IF op.thread # None THEN op.thread ELSE op.saved.thread,
                   frame |-> op.frame]
  <2>1. Label(op) = l
    BY <1>8 DEF Label
  <2>2. l \in Selection /\ l.thread = (IF op.thread # None THEN op.thread ELSE op.saved.thread)
        /\ l.frame = op.frame
    BY <1>2, SelectionIs
  <2> HIDE DEF l
  <2> QED
    BY <1>3, <1>4, <1>6, <1>8, <2>1, <2>2
<1>9. CASE op.kind \in {"disassemble", "source"}
  <2> DEFINE note == IF Captures(op.kind, op.thread, op.frame) THEN op.saved ELSE rt
             l == [thread |-> IF op.thread # None THEN op.thread ELSE note.thread,
                   frame  |-> IF op.frame # None THEN op.frame
                              ELSE IF op.kind = "source" THEN sel.frame ELSE note.frame]
  <2>1. Label(op) = l
    BY <1>9 DEF Label
  <2>2. /\ Capturing(op) => note = op.saved
        /\ ~Capturing(op) => note = rt
        /\ note.thread \in Threads \cup {None} /\ note.frame \in Frames \cup {None}
    BY <1>2 DEF Capturing
  <2> HIDE DEF note
  <2>3. /\ l \in Selection
        /\ l.thread = (IF op.thread # None THEN op.thread ELSE note.thread)
        /\ l.frame = (IF op.frame # None THEN op.frame
                      ELSE IF op.kind = "source" THEN sel.frame ELSE note.frame)
    BY <1>2, <2>2, SelectionIs
  <2> HIDE DEF l
  <2>4. CASE Capturing(op)
    BY <1>4, <1>6, <1>9, <2>1, <2>2, <2>3, <2>4 DEF BorrowedFrame, Switches
  <2>5. CASE ~Capturing(op)
    BY <1>3, <1>5, <1>6, <1>9, <2>1, <2>2, <2>3, <2>5
  <2> QED
    BY <2>4, <2>5
<1>10. CASE op.kind \notin {"backtrace", "variables", "disassemble", "source"}
  <2>1. Label(op) = Nothing
    BY <1>10 DEF Label
  <2> QED
    BY <1>6, <2>1, SelectionIs
<1> QED
  BY <1>7, <1>8, <1>9, <1>10

\* A query that is answered.
LEMMA QuerySucceedsKeeps ==
    ASSUME IInv, QuerySucceeds
    PROVE  IInv'
<1> USE DEF CaptureSteps, SelectSteps, QuerySteps, RestoreSteps
<1>1. /\ op \in Op /\ rt \in Selection /\ sel \in Selection /\ op.pc = "query"
      /\ op.kind \in Inspects /\ op.left \in 0..3
  BY OpIs DEF IInv, TypeOK, QuerySucceeds
<1>2. CASE op.left > 1
  <2>1. op' = WithLeft(op, op.left - 1) /\ op.left - 1 \in 0..3
    BY <1>1, <1>2 DEF QuerySucceeds, WithLeft
  <2>2. /\ op' \in Op /\ SameCall(op, op') /\ SameRead(op, op') /\ op'.pc = "query"
        /\ op'.saved = op.saved /\ op'.changed = op.changed /\ op'.late = op.late
    BY <1>1, <2>1, LeftIs
  <2>3. UNCHANGED <<sel, depth, cache, noted, rt>>
    BY <1>2 DEF QuerySucceeds
  <2>4. TypeOK' /\ SelInv' /\ CallInv'
    BY <1>1, <2>2, <2>3 DEF IInv, TypeOK, SelInv, CallInv, SameCall
  <2>5. CaptureInv' /\ NoteInv' /\ ReadInv' /\ SelectionKept' /\ ToldInv' /\ SourceInv'
    BY <1>1, <2>2, <2>3 DEF IInv, CaptureInv, NoteInv, ReadInv, SelectionKept, ToldInv, SourceInv, Returned, SameCall,
        Capturing
  <2>6. PlaceInv'
    BY <1>1, <2>2, <2>3 DEF IInv, PlaceInv, SameCall, Capturing, Switches
  <2> QED
    BY <2>4, <2>5, <2>6 DEF IInv
<1>3. CASE ~(op.left > 1)
  <2> DEFINE o == WithAnswer(op, sel, Label(op))
  <2>1. Label(op) \in Selection
    BY <1>1, LabelIs
  <2>2. /\ o \in Op /\ SameCall(op, o) /\ o.saved = op.saved /\ o.changed = op.changed
        /\ o.late = op.late /\ o.read = sel /\ o.label = Label(op)
    BY <1>1, <2>1, AnswerIs
  <2>3. Finish(o, "success") /\ UNCHANGED <<sel, depth, cache, noted>>
    BY <1>3 DEF QuerySucceeds, WithAnswer
  <2> HIDE DEF o
  <2>4. /\ rt' \in Selection
        /\ (~op.changed /\ noted) => rt' = sel
    <3>1. ~op.changed /\ noted => rt = sel
      BY <1>1 DEF IInv, NoteInv
    <3>2. rt' = IF op.kind = "frame" THEN [rt EXCEPT !.frame = sel.frame] ELSE rt
      BY <1>3 DEF QuerySucceeds
    <3>3. /\ rt' \in Selection /\ rt'.thread = rt.thread /\ rt'.frame \in {rt.frame, sel.frame}
      BY <1>1, <3>2, SelectionIs
    <3> QED
      BY <1>1, <3>1, <3>3, SelectionIs
  <2>5. (op.told /\ ~BorrowedFrame) =>
             /\ op.thread # None => o.read.thread = op.thread
             /\ op.frame # None => o.read.frame = op.frame
             /\ o.label.thread # None => o.read.thread = o.label.thread
             /\ o.label.frame # None => o.read.frame = o.label.frame
    BY <1>1, <2>2, LabelIs
  <2> QED
    BY <1>1, <2>2, <2>3, <2>4, <2>5, FinishKeeps
<1> QED
  BY <1>2, <1>3

-----------------------------------------------------------------------------
(* The tools that select, and the restore *)

\* A call that returns after a command that may be executed too late.
LEMMA LateReturnIs ==
    ASSUME op \in Op, NEW late \in BOOLEAN, NEW st \in {"error", "restore_error"},
           Return([op EXCEPT !.late = late], st)
    PROVE  /\ op' \in Op /\ SameCall(op, op') /\ SameRead(op, op')
           /\ op'.pc = "returned" /\ op'.status = st
<1>1. op' = [[op EXCEPT !.late = late] EXCEPT !.pc = "returned", !.status = st]
  BY DEF Return
<1>2. op' \in Op
  BY ZenonT(60), <1>1 DEF Op
<1>3. SameCall(op, op') /\ SameRead(op, op')
  BY <1>1 DEF Op, SameCall, SameRead
<1>4. op'.pc = "returned" /\ op'.status = st
  BY <1>1 DEF Op
<1> QED
  BY <1>2, <1>3, <1>4

\* A return of select_thread or select_frame, whose purpose is to move the
\* selection: only the note has to follow it.
LEMMA ToolReturnKeeps ==
    ASSUME IInv, op.pc = "query", op.kind \in Selects, op' \in Op, SameCall(op, op'),
           op'.pc = "returned", op'.status \notin {"none", "raised"}, sel' \in Selection, SelInv', rt' \in Selection,
           noted' \in BOOLEAN, noted' => rt' = sel', UNCHANGED <<depth, cache>>
    PROVE  IInv'
<1> USE DEF CaptureSteps, SelectSteps, QuerySteps, RestoreSteps
<1>1. op'.kind \in Selects /\ op'.kind \notin Inspects
  BY DEF SameCall, Selects, Inspects
<1>2. TypeOK' /\ CallInv'
  BY <1>1 DEF IInv, TypeOK, CallInv, SameCall
<1>3. CaptureInv' /\ PlaceInv' /\ NoteInv'
  BY DEF CaptureInv, PlaceInv, NoteInv
<1>4. ReadInv' /\ SelectionKept' /\ ToldInv' /\ SourceInv'
  BY <1>1 DEF ReadInv, SelectionKept, ToldInv, SourceInv, Returned
<1> QED
  BY <1>2, <1>3, <1>4 DEF IInv

\* Before such a tool selects, the note is right or counted as wrong.
LEMMA ToolNote ==
    ASSUME IInv, op.pc = "query", op.kind \in Selects
    PROVE  noted => rt = sel
<1>1. ~Capturing(op)
  BY DEF Capturing, Captures, Selects
<1> QED
  BY <1>1 DEF IInv, PlaceInv, NoteInv, QuerySteps

\* A command of such a tool fails, or is executed too late.
LEMMA ToolFailedKeeps ==
    ASSUME IInv, op.pc = "query", op.kind \in Selects, NEW late \in BOOLEAN, ToolFailed(late),
           ~late => sel' = sel, sel' \in Selection, SelInv', UNCHANGED <<depth, cache>>
    PROVE  IInv'
<1>1. op \in Op /\ noted \in BOOLEAN /\ rt \in Selection
  BY DEF IInv, TypeOK
<1>2. op' \in Op /\ SameCall(op, op') /\ op'.pc = "returned" /\ op'.status \notin {"none", "raised"}
  BY <1>1, LateReturnIs DEF ToolFailed
<1>3. rt' \in Selection /\ noted' \in BOOLEAN /\ (noted' => rt' = sel')
  BY <1>1, ToolNote DEF ToolFailed
<1> QED
  BY <1>2, <1>3, ToolReturnKeeps

\* select_thread.
LEMMA SelectThreadToolKeeps ==
    ASSUME IInv, SelectThreadTool
    PROVE  IInv'
<1>1. /\ op \in Op /\ sel \in Selection /\ depth \in [Threads -> 0..MaxDepth] /\ SelInv
      /\ op.pc = "query" /\ op.kind \in Selects /\ op.thread \in Threads
  BY OpIs DEF SelectThreadTool, IInv, TypeOK, CallInv, Shape, Selects
<1> DEFINE s == ThreadSelected(sel, op.thread)
<1>2. ThreadExists(op.thread) =>
          s \in Selection /\ s.thread = op.thread /\ s.frame \in Frames /\ s.frame < depth[s.thread]
  BY <1>1, ThreadSelectedIs
<1> HIDE DEF s
<1>3. CASE UNCHANGED sel /\ ToolFailed(FALSE)
  BY <1>1, <1>3, ToolFailedKeeps DEF SelectThreadTool, SelInv
<1>4. CASE ThreadExists(op.thread) /\ sel' = s /\ ToolFailed(TRUE)
  BY <1>1, <1>2, <1>4, ToolFailedKeeps DEF SelectThreadTool, SelInv
<1>5. CASE ThreadExists(op.thread) /\ sel' = s /\ rt' = s /\ noted' = TRUE /\ Return(op, "success")
  <2>1. "returned" \in Pcs /\ op' = WithResult(op, "returned", "success")
    BY <1>5 DEF Pcs, Return, WithResult
  <2>2. op' \in Op /\ SameCall(op, op') /\ op'.pc = "returned" /\ op'.status \notin {"none", "raised"}
    BY <1>1, <2>1, ResultIs
  <2>3. SelInv' /\ rt' = sel'
    BY <1>1, <1>2, <1>5 DEF SelectThreadTool, SelInv
  <2> QED
    BY <1>1, <1>2, <1>5, <2>2, <2>3, ToolReturnKeeps DEF SelectThreadTool
<1> QED
  BY <1>3, <1>4, <1>5 DEF SelectThreadTool, Selecting, s

\* select_frame.
LEMMA SelectFrameToolKeeps ==
    ASSUME IInv, SelectFrameTool
    PROVE  IInv'
<1>1. /\ op \in Op /\ sel \in Selection /\ depth \in [Threads -> 0..MaxDepth] /\ SelInv
      /\ op.pc = "query" /\ op.kind \in Selects /\ op.frame \in Frames
      /\ rt \in Selection /\ noted \in BOOLEAN
  BY OpIs DEF SelectFrameTool, IInv, TypeOK, CallInv, Shape, Selects
<1> DEFINE s == FrameSelected(sel, op.frame)
<1>2. FrameExists(op.frame) =>
          /\ s \in Selection /\ s.thread = sel.thread /\ s.frame = op.frame
          /\ s.thread \in Threads /\ s.frame < depth[s.thread]
  BY <1>1, FrameSelectedIs
<1> HIDE DEF s
<1>3. CASE UNCHANGED sel /\ ToolFailed(FALSE)
  BY <1>1, <1>3, ToolFailedKeeps DEF SelectFrameTool, SelInv
<1>4. CASE FrameExists(op.frame) /\ sel' = s /\ ToolFailed(TRUE)
  BY <1>1, <1>2, <1>4, ToolFailedKeeps DEF SelectFrameTool, SelInv
<1>5. CASE /\ FrameExists(op.frame) /\ sel' = s /\ rt' = [rt EXCEPT !.frame = op.frame]
           /\ UNCHANGED noted /\ Return(op, "success")
  <2>1. "returned" \in Pcs /\ op' = WithResult(op, "returned", "success")
    BY <1>5 DEF Pcs, Return, WithResult
  <2>2. op' \in Op /\ SameCall(op, op') /\ op'.pc = "returned" /\ op'.status \notin {"none", "raised"}
    BY <1>1, <2>1, ResultIs
  <2>3. rt' \in Selection /\ rt'.thread = rt.thread /\ rt'.frame = op.frame
    BY <1>1, <1>5, SelectionIs
  <2>4. SelInv'
    BY <1>1, <1>2, <1>5 DEF SelectFrameTool, SelInv
  <2>5. noted' => rt' = sel'
    <3>1. noted' => rt'.thread = s.thread
      BY <1>1, <1>2, <1>5, <2>3, ToolNote
    <3>2. rt'.frame = s.frame /\ rt' \in Selection /\ s \in Selection /\ sel' = s
      BY <1>2, <1>5, <2>3
    <3>3. \A x, y \in Selection : x.thread = y.thread /\ x.frame = y.frame => x = y
      BY SelectionIs
    <3> QED
      BY <3>1, <3>2, <3>3
  <2> QED
    BY <1>1, <1>2, <1>5, <2>2, <2>3, <2>4, <2>5, ToolReturnKeeps DEF SelectFrameTool
<1> QED
  BY <1>3, <1>4, <1>5 DEF SelectFrameTool, Selecting, s

\* A restore that fails says so, and the note counts as wrong.
LEMMA RestoreFailedKeeps ==
    ASSUME IInv, op.pc \in RestoreSteps, NEW late \in BOOLEAN, RestoreFailed(late),
           sel' \in Selection, SelInv', UNCHANGED <<depth, cache>>
    PROVE  IInv'
<1> USE DEF CaptureSteps, SelectSteps, QuerySteps, RestoreSteps
<1>1. op \in Op
  BY DEF IInv, TypeOK
<1>2. op' \in Op /\ SameCall(op, op') /\ op'.pc = "returned" /\ op'.status = "restore_error"
  BY <1>1, LateReturnIs DEF RestoreFailed
<1>3. TypeOK' /\ CallInv'
  BY <1>2 DEF RestoreFailed, IInv, TypeOK, CallInv, SameCall
<1>4. CaptureInv' /\ PlaceInv' /\ NoteInv'
  BY <1>2 DEF RestoreFailed, CaptureInv, PlaceInv, NoteInv
<1>5. ReadInv' /\ SelectionKept' /\ ToldInv' /\ SourceInv'
  BY <1>2 DEF ReadInv, SelectionKept, ToldInv, SourceInv, Returned
<1> QED
  BY <1>3, <1>4, <1>5 DEF IInv

\* The captured thread is selected again.
LEMMA RestoreThreadKeeps ==
    ASSUME IInv, RestoreThread
    PROVE  IInv'
<1> USE DEF CaptureSteps, SelectSteps, QuerySteps, RestoreSteps
<1>1. /\ op \in Op /\ sel \in Selection /\ depth \in [Threads -> 0..MaxDepth] /\ SelInv
      /\ op.pc = "r_thread" /\ op.saved \in Selection /\ op.saved.thread # None
  BY OpIs DEF RestoreThread, IInv, TypeOK, CaptureInv
<1>2. op.saved.thread \in Threads
  BY <1>1, SelectionIs
<1> DEFINE s == ThreadSelected(sel, op.saved.thread)
<1>3. ThreadExists(op.saved.thread) =>
          /\ s \in Selection /\ s.thread = op.saved.thread /\ s.frame \in Frames
          /\ s.frame < depth[s.thread]
  BY <1>1, <1>2, ThreadSelectedIs
<1> HIDE DEF s
<1>4. CASE UNCHANGED sel /\ RestoreFailed(FALSE)
  BY <1>1, <1>4, RestoreFailedKeeps DEF RestoreThread, SelInv
<1>5. CASE ThreadExists(op.saved.thread) /\ sel' = s /\ RestoreFailed(TRUE)
  BY <1>1, <1>2, <1>3, <1>5, RestoreFailedKeeps DEF RestoreThread, SelInv
<1>6. CASE /\ ThreadExists(op.saved.thread) /\ sel' = s /\ UNCHANGED <<rt, noted>>
           /\ op' = WithPc(op, "r_frame")
  <2>1. /\ op' \in Op /\ SameCall(op, op') /\ SameRead(op, op') /\ op'.pc = "r_frame"
        /\ op'.saved = op.saved /\ op'.status = op.status
    BY <1>1, <1>6, MoveIs DEF Pcs
  <2>2. TypeOK' /\ SelInv' /\ CallInv'
    BY <1>1, <1>2, <1>3, <1>6, <2>1 DEF RestoreThread, IInv, TypeOK, SelInv, CallInv, SameCall, Capturing
  <2>3. CaptureInv' /\ PlaceInv' /\ NoteInv'
    BY <1>1, <1>3, <1>6, <2>1 DEF IInv, CaptureInv, PlaceInv, NoteInv, SameCall
  <2>4. ReadInv' /\ SelectionKept'
    BY <1>1, <2>1 DEF IInv, ReadInv, SelectionKept, Returned, SameCall, SameRead, BorrowedFrame
  <2>5. ToldInv' /\ SourceInv'
    BY <1>1, <2>1 DEF IInv, ToldInv, SourceInv, SameCall, SameRead, Capturing
  <2> QED
    BY <2>2, <2>3, <2>4, <2>5 DEF IInv
<1> QED
  BY <1>4, <1>5, <1>6 DEF RestoreThread, Selecting, s, WithPc

\* The captured frame is selected again: GDB is where the client left it.
LEMMA RestoreFrameKeeps ==
    ASSUME IInv, RestoreFrame
    PROVE  IInv'
<1> USE DEF CaptureSteps, SelectSteps, QuerySteps, RestoreSteps
<1>1. /\ op \in Op /\ sel \in Selection /\ depth \in [Threads -> 0..MaxDepth] /\ SelInv
      /\ op.pc = "r_frame" /\ op.saved \in Selection /\ op.saved = op.before
      /\ op.saved.frame \in Frames /\ sel.thread = op.saved.thread
      /\ op.status \in {"success", "error"}
  BY OpIs DEF RestoreFrame, IInv, TypeOK, CallInv, CaptureInv, PlaceInv, ReadInv
<1> DEFINE s == FrameSelected(sel, op.saved.frame)
<1>2. FrameExists(op.saved.frame) =>
          /\ s \in Selection /\ s.thread = sel.thread /\ s.frame = op.saved.frame
          /\ s.thread \in Threads /\ s.frame < depth[s.thread]
  BY <1>1, FrameSelectedIs
<1>3. FrameExists(op.saved.frame) => s = op.saved
  BY <1>1, <1>2, SelectionIs
<1> HIDE DEF s
<1>4. CASE UNCHANGED sel /\ RestoreFailed(FALSE)
  BY <1>1, <1>4, RestoreFailedKeeps DEF RestoreFrame, SelInv
<1>5. CASE FrameExists(op.saved.frame) /\ sel' = s /\ RestoreFailed(TRUE)
  BY <1>1, <1>2, <1>5, RestoreFailedKeeps DEF RestoreFrame, SelInv
<1>6. CASE /\ FrameExists(op.saved.frame) /\ sel' = s /\ rt' = op.saved /\ noted' = TRUE
           /\ Return(op, op.status)
  <2>1. op' = WithResult(op, "returned", op.status) /\ "returned" \in Pcs
    BY <1>6 DEF Return, WithResult, Pcs
  <2>2. /\ op' \in Op /\ SameCall(op, op') /\ SameRead(op, op') /\ op'.pc = "returned"
        /\ op'.saved = op.saved /\ op'.status = op.status
    <3>1. op \in Op /\ op.status \in {"success", "error", "raised", "restore_error"}
      BY <1>1
    <3>2. op' \in Op /\ SameCall(op, op') /\ SameRead(op, op')
      BY <2>1, <3>1, ResultIs
    <3>3. op'.pc = "returned" /\ op'.status = op.status
      BY <2>1, <3>1 DEF WithResult, Op
    <3>4. op'.saved = op.saved
      BY <2>1, <3>1 DEF WithResult, Op
    <3> QED
      BY <3>2, <3>3, <3>4
  <2>3. TypeOK' /\ SelInv' /\ CallInv'
    BY <1>1, <1>2, <1>6, <2>2 DEF RestoreFrame, IInv, TypeOK, SelInv, CallInv, SameCall
  <2>4. CaptureInv' /\ PlaceInv' /\ NoteInv'
    BY <1>3, <1>6, <2>2 DEF CaptureInv, PlaceInv, NoteInv
  <2>5. ReadInv'
    BY <1>1, <2>2 DEF IInv, ReadInv, SameCall, SameRead, BorrowedFrame
  <2>6. SelectionKept'
    BY <1>1, <1>3, <1>6, <2>2 DEF SelectionKept, SameCall
  <2>7. ToldInv' /\ SourceInv'
    BY <1>1, <1>6, <2>2 DEF IInv, ToldInv, SourceInv, SameCall, SameRead, Capturing
  <2> QED
    BY <2>3, <2>4, <2>5, <2>6, <2>7 DEF IInv
<1> QED
  BY <1>4, <1>5, <1>6 DEF RestoreFrame, Selecting, s

-----------------------------------------------------------------------------
(* The theorems *)

\* A session whose program has not run yet.
LEMMA InitKeeps == Init => IInv
<1> SUFFICES ASSUME Init PROVE IInv
  OBVIOUS
<1> USE SelectionIs, NoOpIs, Domains
        DEF Init, CaptureSteps, SelectSteps, QuerySteps, RestoreSteps
<1>1. TypeOK
  <2>1. depth \in [Threads -> 0..MaxDepth]
    OBVIOUS
  <2>2. cache \in [Probing -> BOOLEAN \cup {None}]
    OBVIOUS
  <2> QED
    BY <2>1, <2>2 DEF TypeOK
<1>2. SelInv /\ CallInv /\ CaptureInv /\ PlaceInv
  BY DEF SelInv, CallInv, CaptureInv, PlaceInv
<1>3. NoteInv /\ ReadInv /\ SelectionKept /\ ToldInv /\ SourceInv
  BY DEF NoteInv, ReadInv, SelectionKept, ToldInv, SourceInv, Returned
<1> QED
  BY <1>1, <1>2, <1>3 DEF IInv

\* Every command of a call keeps the invariant, whether it succeeds, fails or
\* is executed too late.
LEMMA StepKeeps == IInv /\ Step => IInv'
BY CaptureThreadKeeps, CaptureFrameKeeps, SelectThreadKeeps, SelectFrameKeeps, ProbeKeeps,
   QuerySucceedsKeeps, QueryFailsKeeps, SourceRaisesKeeps, SelectThreadToolKeeps, SelectFrameToolKeeps,
   RestoreThreadKeeps, RestoreFrameKeeps DEF Step

\* So does what happens between two calls.
LEMMA ClientKeeps == IInv /\ Between => IInv'
<1> SUFFICES ASSUME IInv, Between PROVE IInv'
  OBVIOUS
<1>1. ASSUME NEW kind \in Kinds, NEW t \in Threads \cup {None}, NEW f \in Frames \cup {None},
             Call(kind, t, f)
      PROVE  IInv'
  <2>1. kind \in Selects \cup Inspects
    BY InspectionAssumption
  <2> QED
    BY <1>1, <2>1, EnterKeeps DEF Call
<1> QED
  BY <1>1, StopsKeeps, RawSelectKeeps, ExitsKeeps DEF Between

\* Nothing happens.
LEMMA QuietKeeps == IInv /\ UNCHANGED vars => IInv'
BY DEF vars, IInv, TypeOK, SelInv, CallInv, CaptureInv, PlaceInv, NoteInv, ReadInv, SelectionKept,
   ToldInv, SourceInv, Returned, Capturing, Switches, BorrowedFrame

\* IInv is inductive.
THEOREM InvariantHolds == Spec => []IInv
<1>1. IInv /\ [Next]_vars => IInv'
  BY QuietKeeps, StepKeeps, ClientKeeps, AnsweredKeeps DEF Next
<1> QED
  BY InitKeeps, <1>1, PTL DEF Spec

\* The selection, the runtime's note and the call in progress keep their types.
THEOREM InspectionTypeCorrect == Spec => []TypeOK
<1>1. IInv => TypeOK
  BY DEF IInv
<1> QED
  BY <1>1, InvariantHolds, PTL

\* A tool that reads leaves GDB's selection as it was, or says that the restore
\* failed, for every program and every pattern of failed and late commands
\* (InspectionContext.restore_selection), but for the two errors SelectionKept
\* names: a late switch of get_backtrace, and a file get_source_context cannot
\* read after its switch.
THEOREM ReadingKeepsSelection == Spec => []SelectionKept
<1>1. IInv => SelectionKept
  BY DEF IInv
<1> QED
  BY <1>1, InvariantHolds, PTL

\* What a tool reads, and the thread and frame its answer names, are the ones it
\* was asked for, but for a frame number borrowed from another thread
\* (InspectionContext.select_for_inspection).
THEOREM ToolsReadWhereAsked == Spec => []MostlyRightContext
<1>1. IInv => MostlyRightContext
  BY DEF IInv, ReadInv, MostlyRightContext, RightContext, Returned, RestoreSteps
<1> QED
  BY <1>1, InvariantHolds, PTL

\* Between two calls the runtime's note of the selection is GDB's selection,
\* unless GDB's has moved unreported (capture_selection, restore_selection,
\* select_thread, select_frame and get_frame_info all write the note).
THEOREM NoteStaysRight == Spec => []NoteIsRight
<1>1. IInv => NoteIsRight
  BY DEF IInv, NoteInv, NoteIsRight, Idle
<1> QED
  BY <1>1, InvariantHolds, PTL

-----------------------------------------------------------------------------
(* Capture bundles: the invariant *)

Early == {"threads", "backtrace"}

Backtrace(t) == [kind |-> "backtrace", thread |-> t]

\* What a plan has left to do.
Due(p, task) == \E i \in DOMAIN p : p[i] = task
NoteDue(p)   == \E i \in DOMAIN p : p[i].kind = "note"
EarlyDue(p)  == \E i \in DOMAIN p : p[i].kind \in Early

\* The note is read after the threads and the backtraces and before the rest;
\* only a backtrace names a thread.
Ordered(p) ==
    /\ \A i \in DOMAIN p : p[i].kind = "backtrace" \/ p[i] = Do(p[i].kind)
    /\ \A i, j \in DOMAIN p :
          i < j /\ p[j].kind \in Early \cup {"note"} => p[i].kind \in Early

\* The runtime knows the selection; during a call, it did at the start or has
\* been told of it since.
Known == IF Idle THEN noted ELSE op.told

\* The call in progress is the one at the head of the plan.
PlanInv ==
    /\ bundle.status = "success" => bundle.pc = "returned"
    /\ bundle.pc = "returned" => Idle
    /\ bundle.pc = "busy" =>
          /\ Ordered(bundle.plan)
          /\ ~NoteDue(bundle.plan) => ~EarlyDue(bundle.plan) /\ bundle.frame # None
          /\ ~Idle => /\ bundle.plan # << >>
                      /\ op.kind = Head(bundle.plan).kind /\ op.kind \in Sections \cup {"memory"}
                      /\ op.kind = "backtrace" => op.thread = Head(bundle.plan).thread

\* As long as no section has lost it, the selection is where it was.
StartInv ==
    /\ \/ bundle.start = Nothing
       \/ bundle.start.thread \in Threads /\ bundle.start.frame \in Frames
    /\ bundle.pc # "idle" /\ ~bundle.lost =>
          bundle.start = IF Idle THEN sel ELSE op.before

\* What the runtime knew at the start it still knows, and a backtrace that has
\* succeeded has told it.
LearnInv ==
    bundle.pc = "busy" /\ ~bundle.lost =>
        /\ bundle.told => Known
        /\ /\ "backtrace" \in bundle.include /\ Do("threads") \notin bundle.failed
           /\ ~Due(bundle.plan, Do("threads"))
           => \A t \in Alive : \/ Backtrace(t) \in bundle.failed
                               \/ Due(bundle.plan, Backtrace(t)) \/ Known

\* Once the note is read, the sections about the current frame ask for the place
\* where the capture began.
SeenInv ==
    bundle.pc = "busy" =>
        /\ NoteDue(bundle.plan) => bundle.seen = {}
        /\ ~NoteDue(bundle.plan) /\ ~bundle.lost /\ PlaceIsKnown =>
              /\ bundle.thread = bundle.start.thread
              /\ bundle.frame = IF bundle.start.frame = None THEN 0 ELSE bundle.start.frame
              /\ bundle.seen \subseteq {bundle.start}
              /\ ~Idle /\ op.kind \in Current =>
                    /\ op.thread \in {None, bundle.start.thread}
                    /\ \/ op.frame \in {None, bundle.start.frame}
                       \/ bundle.start.thread = None /\ op.kind = "variables"

BInv == /\ bundle \in Bundle /\ PlanInv /\ StartInv /\ LearnInv /\ SeenInv
        /\ BundleIsOfOnePlace

-----------------------------------------------------------------------------
(* Capture bundles: plans *)

\* The sections that come after the note.
Late(q) == \A i \in DOMAIN q : q[i].kind \notin Early \cup {"note"} /\ q[i] = Do(q[i].kind)

\* A plan is its head and its tail.
LEMMA TailIs ==
    ASSUME NEW p \in Seq(Task), p # << >>
    PROVE  /\ Tail(p) \in Seq(Task) /\ Head(p) \in Task /\ Head(p) = p[1] /\ 1 \in DOMAIN p
           /\ \A i \in DOMAIN Tail(p) : i \in Nat /\ i + 1 \in DOMAIN p /\ Tail(p)[i] = p[i + 1]
           /\ \A i \in DOMAIN p : i = 1 \/ (i - 1 \in DOMAIN Tail(p) /\ Tail(p)[i - 1] = p[i])
OBVIOUS

\* What is left once the head is done.
LEMMA TailPlan ==
    ASSUME NEW p \in Seq(Task), p # << >>
    PROVE  /\ Ordered(p) => Ordered(Tail(p))
           /\ \A x : Due(p, x) <=> Head(p) = x \/ Due(Tail(p), x)
           /\ NoteDue(p) <=> Head(p).kind = "note" \/ NoteDue(Tail(p))
           /\ EarlyDue(p) <=> Head(p).kind \in Early \/ EarlyDue(Tail(p))
<1> DEFINE q == Tail(p)
<1>1. /\ Head(p) = p[1] /\ 1 \in DOMAIN p
      /\ \A i \in DOMAIN q : i \in Nat /\ i + 1 \in DOMAIN p /\ q[i] = p[i + 1]
      /\ \A i \in DOMAIN p : i = 1 \/ (i - 1 \in DOMAIN q /\ q[i - 1] = p[i])
  BY TailIs
<1> HIDE DEF q
<1>2. Ordered(p) => Ordered(q)
  <2>1. \A i, j \in DOMAIN q : i < j => i + 1 < j + 1
    BY <1>1
  <2> QED
    BY <1>1, <2>1 DEF Ordered
<1>3. \A x : Due(p, x) <=> Head(p) = x \/ Due(q, x)
  BY <1>1 DEF Due
<1>4. NoteDue(p) <=> Head(p).kind = "note" \/ NoteDue(q)
  BY <1>1 DEF NoteDue
<1>5. EarlyDue(p) <=> Head(p).kind \in Early \/ EarlyDue(q)
  BY <1>1 DEF EarlyDue
<1> QED
  BY <1>2, <1>3, <1>4, <1>5 DEF q

\* The elements of two plans in a row.
LEMMA ConcatIs ==
    ASSUME NEW p \in Seq(Task), NEW q \in Seq(Task)
    PROVE  /\ p \o q \in Seq(Task)
           /\ \A i \in DOMAIN (p \o q) :
                 \/ i \in DOMAIN p /\ (p \o q)[i] = p[i]
                 \/ /\ i \in Nat /\ i > Len(p) /\ i - Len(p) \in DOMAIN q
                    /\ (p \o q)[i] = q[i - Len(p)]
           /\ \A i \in DOMAIN p : i \in Nat /\ i <= Len(p) /\ i \in DOMAIN (p \o q) /\ (p \o q)[i] = p[i]
           /\ \A i \in DOMAIN q : i + Len(p) \in DOMAIN (p \o q) /\ (p \o q)[i + Len(p)] = q[i]
OBVIOUS

\* What they have to do, and their order.
LEMMA ConcatPlan ==
    ASSUME NEW p \in Seq(Task), NEW q \in Seq(Task)
    PROVE  /\ p \o q \in Seq(Task)
           /\ \A x : Due(p \o q, x) <=> Due(p, x) \/ Due(q, x)
           /\ NoteDue(p \o q) <=> NoteDue(p) \/ NoteDue(q)
           /\ Ordered(p) /\ Late(q) => Ordered(p \o q)
           /\ Ordered(p) /\ Ordered(q) /\ (\A i \in DOMAIN p : p[i].kind \in Early) => Ordered(p \o q)
<1> DEFINE s == p \o q
           n == Len(p)
<1>1. /\ s \in Seq(Task) /\ n \in Nat
      /\ \A i \in DOMAIN s :
            \/ i \in DOMAIN p /\ s[i] = p[i]
            \/ i \in Nat /\ i > n /\ i - n \in DOMAIN q /\ s[i] = q[i - n]
      /\ \A i \in DOMAIN p : i \in Nat /\ i <= n /\ i \in DOMAIN s /\ s[i] = p[i]
      /\ \A i \in DOMAIN q : i + n \in DOMAIN s /\ s[i + n] = q[i]
  BY ConcatIs
<1> HIDE DEF s, n
<1>2. \A x : Due(s, x) <=> Due(p, x) \/ Due(q, x)
  BY <1>1 DEF Due
<1>3. NoteDue(s) <=> NoteDue(p) \/ NoteDue(q)
  BY <1>1 DEF NoteDue
<1>4. ASSUME Ordered(p), Late(q) PROVE Ordered(s)
  <2>1. \A i \in DOMAIN s : s[i].kind = "backtrace" \/ s[i] = Do(s[i].kind)
    BY <1>1, <1>4 DEF Ordered, Late
  <2>2. ASSUME NEW i \in DOMAIN s, NEW j \in DOMAIN s, i < j, s[j].kind \in Early \cup {"note"}
        PROVE  s[i].kind \in Early
    <3>1. j \in DOMAIN p /\ s[j] = p[j]
      BY <1>1, <1>4, <2>2 DEF Late
    <3>2. i \in DOMAIN p /\ s[i] = p[i]
      BY <1>1, <2>2, <3>1
    <3> QED
      BY <1>4, <2>2, <3>1, <3>2 DEF Ordered
  <2> QED
    BY <2>1, <2>2 DEF Ordered
<1>5. ASSUME Ordered(p), Ordered(q), \A i \in DOMAIN p : p[i].kind \in Early
      PROVE  Ordered(s)
  <2>1. \A i \in DOMAIN s : s[i].kind = "backtrace" \/ s[i] = Do(s[i].kind)
    BY <1>1, <1>5 DEF Ordered
  <2>2. ASSUME NEW i \in DOMAIN s, NEW j \in DOMAIN s, i < j, s[j].kind \in Early \cup {"note"}
        PROVE  s[i].kind \in Early
    <3>1. CASE i \in DOMAIN p /\ s[i] = p[i]
      BY <1>5, <3>1
    <3>2. CASE i \in Nat /\ i > n /\ i - n \in DOMAIN q /\ s[i] = q[i - n]
      <4>1. j \in Nat /\ j > n /\ j - n \in DOMAIN q /\ s[j] = q[j - n]
        BY <1>1, <2>2, <3>2
      <4>2. i - n < j - n
        BY <1>1, <2>2, <3>2, <4>1
      <4> QED
        BY <1>5, <2>2, <3>2, <4>1, <4>2 DEF Ordered
    <3> QED
      BY <1>1, <3>1, <3>2
  <2> QED
    BY <2>1, <2>2 DEF Ordered
<1> QED
  BY <1>1, <1>2, <1>3, <1>4, <1>5 DEF s

\* A plan of one entry, or of none.
LEMMA OneIs ==
    ASSUME NEW k \in Sections \cup {"note", "memory"}
    PROVE  /\ Do(k) \in Task /\ Do(k).kind = k /\ Do(k).thread = None
           /\ <<Do(k)>> \in Seq(Task) /\ << >> \in Seq(Task)
           /\ Ordered(<<Do(k)>>) /\ Ordered(<< >>) /\ Late(<< >>)
           /\ k \notin Early \cup {"note"} => Late(<<Do(k)>>)
           /\ Due(<<Do(k)>>, Do(k)) /\ (k = "note" => NoteDue(<<Do(k)>>))
<1>1. Do(k) \in Task /\ Do(k).kind = k /\ Do(k).thread = None
  BY DEF Do, Task
<1>2. <<Do(k)>> \in Seq(Task) /\ << >> \in Seq(Task)
  BY <1>1
<1>3. DOMAIN <<Do(k)>> = {1} /\ <<Do(k)>>[1] = Do(k) /\ DOMAIN << >> = {}
  OBVIOUS
<1>4. Ordered(<<Do(k)>>) /\ Ordered(<< >>) /\ Late(<< >>)
  BY <1>1, <1>3 DEF Ordered, Late
<1>5. k \notin Early \cup {"note"} => Late(<<Do(k)>>)
  BY <1>1, <1>3 DEF Late
<1>6. Due(<<Do(k)>>, Do(k)) /\ (k = "note" => NoteDue(<<Do(k)>>))
  BY <1>1, <1>3 DEF Due, NoteDue
<1> QED
  BY <1>1, <1>2, <1>4, <1>5, <1>6

\* A plan to begin with.
LEMMA PlanIs ==
    ASSUME NEW r \in Requests
    PROVE  /\ Plan(r) \in Seq(Task) /\ Ordered(Plan(r)) /\ NoteDue(Plan(r))
           /\ "backtrace" \in r.include => Due(Plan(r), Do("threads"))
<1> DEFINE asked(s) == IF s \in r.include THEN <<Do(s)>> ELSE << >>
           a == IF r.include \cap {"threads", "backtrace"} # {} THEN <<Do("threads")>> ELSE << >>
           m == [i \in DOMAIN r.ranges |-> Do("memory")]
           p0 == a \o <<Do("note")>>
           p1 == p0 \o asked("frame")
           p2 == p1 \o asked("variables")
           p3 == p2 \o asked("registers")
           p4 == p3 \o asked("evaluate")
<1>1. r.ranges \in Seq(MemoryRange)
  BY CaptureAssumption DEF IsRequest
<1>2. \A k \in Current : asked(k) \in Seq(Task) /\ Late(asked(k))
  BY OneIs DEF Current, Sections, Early
<1>3. m \in Seq(Task) /\ Late(m)
  <2>1. "memory" \in Sections \cup {"note", "memory"} /\ "memory" \notin Early \cup {"note"}
    BY DEF Sections, Current, Early
  <2>2. Do("memory") \in Task /\ Do("memory").kind = "memory"
    BY <2>1, OneIs
  <2>3. m \in Seq(Task)
    BY <1>1, <2>2
  <2>4. \A i \in DOMAIN m : m[i] = Do("memory")
    OBVIOUS
  <2> QED
    BY <2>1, <2>2, <2>3, <2>4 DEF Late
<1>4. /\ a \in Seq(Task) /\ Ordered(a) /\ \A i \in DOMAIN a : a[i].kind \in Early
      /\ "backtrace" \in r.include => Due(a, Do("threads"))
  <2>1. "threads" \in Sections \cup {"note", "memory"}
    BY DEF Sections
  <2>2. CASE r.include \cap {"threads", "backtrace"} # {}
    BY <2>1, <2>2, OneIs DEF Early
  <2>3. CASE r.include \cap {"threads", "backtrace"} = {}
    BY <2>1, <2>3, OneIs
  <2> QED
    BY <2>2, <2>3
<1> HIDE DEF a, m, asked
<1>5. /\ p0 \in Seq(Task) /\ Ordered(p0) /\ NoteDue(p0)
      /\ "backtrace" \in r.include => Due(p0, Do("threads"))
  BY <1>4, OneIs, ConcatPlan
<1> HIDE DEF p0
<1>6. /\ p1 \in Seq(Task) /\ Ordered(p1) /\ NoteDue(p1)
      /\ "backtrace" \in r.include => Due(p1, Do("threads"))
  BY <1>2, <1>5, ConcatPlan DEF Current
<1> HIDE DEF p1
<1>7. /\ p2 \in Seq(Task) /\ Ordered(p2) /\ NoteDue(p2)
      /\ "backtrace" \in r.include => Due(p2, Do("threads"))
  BY <1>2, <1>6, ConcatPlan DEF Current
<1> HIDE DEF p2
<1>8. /\ p3 \in Seq(Task) /\ Ordered(p3) /\ NoteDue(p3)
      /\ "backtrace" \in r.include => Due(p3, Do("threads"))
  BY <1>2, <1>7, ConcatPlan DEF Current
<1> HIDE DEF p3
<1>9. /\ p4 \in Seq(Task) /\ Ordered(p4) /\ NoteDue(p4)
      /\ "backtrace" \in r.include => Due(p4, Do("threads"))
  BY <1>2, <1>8, ConcatPlan DEF Current
<1> HIDE DEF p4
<1>10. Plan(r) = p4 \o m
  BY DEF Plan, p4, p3, p2, p1, p0, a, m, asked
<1> QED
  BY <1>3, <1>9, <1>10, ConcatPlan

\* The backtraces that join the plan: one for each thread.
LEMMA BacktracesIs ==
    ASSUME NEW s \in Backtraces, depth \in [Threads -> 0..MaxDepth]
    PROVE  /\ s \in Seq(Task) /\ Ordered(s) /\ ~NoteDue(s)
           /\ \A i \in DOMAIN s : s[i].kind \in Early
           /\ \A x : Due(s, x) => x # Do("threads")
           /\ \A t \in Alive : Due(s, Backtrace(t))
<1>1. PICK q \in Orders : s = [i \in DOMAIN q |-> [kind |-> "backtrace", thread |-> q[i]]]
  BY DEF Backtraces
<1>2. Alive \subseteq Threads /\ Cardinality(Alive) \in Nat
  <2>1. Alive \subseteq Threads /\ IsFiniteSet(Threads)
    BY CaptureAssumption DEF Alive
  <2> QED
    BY <2>1, FS_Subset, FS_CardinalityType
<1>3. /\ q \in [1..Cardinality(Alive) -> Alive]
      /\ \A t \in Alive : \E i \in DOMAIN q : q[i] = t
  BY DEF Orders
<1>4. DOMAIN s = 1..Cardinality(Alive) /\ \A i \in DOMAIN s : s[i] = Backtrace(q[i]) /\ q[i] \in Threads
  BY <1>1, <1>2, <1>3 DEF Backtrace
<1>5. \A t \in Threads : Backtrace(t) \in Task /\ Backtrace(t).kind = "backtrace"
  BY DEF Backtrace, Task, Sections
<1>6. s \in Seq(Task)
  BY <1>1, <1>2, <1>4, <1>5
<1>7. \A i \in DOMAIN s : s[i].kind = "backtrace"
  BY <1>4, <1>5
<1>8. Ordered(s) /\ ~NoteDue(s) /\ \A i \in DOMAIN s : s[i].kind \in Early
  BY <1>7 DEF Ordered, NoteDue, Early
<1>9. Do("threads").kind = "threads"
  BY DEF Do
<1>10. \A x : Due(s, x) => x # Do("threads")
  BY <1>7, <1>9 DEF Due
<1>11. \A t \in Alive : Due(s, Backtrace(t))
  BY <1>3, <1>4 DEF Due
<1> QED
  BY <1>6, <1>8, <1>10, <1>11

-----------------------------------------------------------------------------
(* Capture bundles: the actions *)

\* The steps of a call leave alone what the call was asked for, and do not make
\* the runtime forget.
LEMMA StepIs ==
    ASSUME IInv, Step
    PROVE  /\ ~Idle /\ op'.pc # "idle" /\ depth' = depth
           /\ op'.kind = op.kind /\ op'.thread = op.thread /\ op'.frame = op.frame
           /\ op'.before = op.before /\ (op.told => op'.told)
<1>0. op \in Op
  BY DEF IInv, TypeOK
<1> USE DEF Idle
<1>1. CASE CaptureThread
  BY ZenonT(60), <1>0, <1>1 DEF CaptureThread, Op, Return
<1>2. CASE CaptureFrame
  BY ZenonT(60), <1>0, <1>2 DEF CaptureFrame, Op, Return, AfterCapture, AfterThread, QueryStep
<1>3. CASE SelectThread
  BY ZenonT(60), <1>0, <1>3 DEF SelectThread, Selecting, SelectionFailed, Op, Return, AfterThread, QueryStep
<1>4. CASE SelectFrame
  BY ZenonT(60), <1>0, <1>4 DEF SelectFrame, Selecting, SelectionFailed, Op, Return, QueryStep
<1>5. CASE Probe
  BY ZenonT(60), <1>0, <1>5 DEF Probe, Op
<1>6. CASE QuerySucceeds
  BY ZenonT(60), <1>0, <1>6 DEF QuerySucceeds, Finish, Op, Return
<1>7. CASE QueryFails
  BY ZenonT(60), <1>0, <1>7 DEF QueryFails, Finish, Op, Return
<1>8. CASE SelectThreadTool
  BY ZenonT(60), <1>0, <1>8 DEF SelectThreadTool, Selecting, ToolFailed, Op, Return
<1>9. CASE SelectFrameTool
  BY ZenonT(60), <1>0, <1>9 DEF SelectFrameTool, Selecting, ToolFailed, Op, Return
<1>10. CASE RestoreThread
  BY ZenonT(60), <1>0, <1>10 DEF RestoreThread, Selecting, RestoreFailed, Op, Return
<1>11. CASE RestoreFrame
  BY ZenonT(60), <1>0, <1>11 DEF RestoreFrame, Selecting, RestoreFailed, Op, Return
<1>12. CASE SourceRaises
  BY ZenonT(60), <1>0, <1>12 DEF SourceRaises, Op, Return
<1> QED
  BY <1>1, <1>2, <1>3, <1>4, <1>5, <1>6, <1>7, <1>8, <1>9, <1>10, <1>11, <1>12 DEF Step

\* The fields of a bundle.
LEMMA BundleFields ==
    ASSUME NEW b \in Bundle
    PROVE  /\ b.include \subseteq Sections /\ b.plan \in Seq(Task) /\ b.failed \subseteq Task
           /\ b.thread \in Threads \cup {None} /\ b.frame \in Frames \cup {None}
           /\ b.manifest \in Selection /\ b.start \in Selection
           /\ b.told \in BOOLEAN /\ b.seen \subseteq Selection /\ b.lost \in BOOLEAN
BY DEF Bundle

\* No bundle.
LEMMA NoBundleIs ==
    /\ NoBundle \in Bundle /\ NoBundle.pc = "idle" /\ NoBundle.status = "none"
    /\ NoBundle.start = Nothing /\ NoBundle.seen = {} /\ NoBundle.lost = FALSE /\ NoBundle.failed = {}
<1>1. << >> \in Seq(Task)
  OBVIOUS
<1> QED
  BY <1>1, SelectionIs DEF NoBundle, Bundle

\* A command of the section in progress.
LEMMA SectionStepKeeps ==
    ASSUME IInv, BInv, Step, UNCHANGED bundle
    PROVE  BInv'
<1>1. /\ ~Idle /\ ~Idle' /\ depth' = depth
      /\ op'.kind = op.kind /\ op'.thread = op.thread /\ op'.frame = op.frame
      /\ op'.before = op.before /\ (op.told => op'.told)
  BY StepIs DEF Idle
<1>2. Alive' = Alive /\ (PlaceIsKnown' <=> PlaceIsKnown) /\ (Known => Known')
  BY <1>1 DEF Alive, PlaceIsKnown, Known
<1>3. PlanInv'
  BY <1>1 DEF BInv, PlanInv
<1>4. StartInv'
  BY <1>1 DEF BInv, StartInv
<1>5. LearnInv'
  BY <1>2 DEF BInv, LearnInv
<1>6. SeenInv'
  BY <1>1, <1>2 DEF BInv, SeenInv
<1>7. BundleIsOfOnePlace'
  BY <1>1 DEF BInv, PlanInv, BundleIsOfOnePlace
<1> QED
  BY <1>3, <1>4, <1>5, <1>6, <1>7 DEF BInv

\* What happens while there is no bundle.
LEMMA OutsideKeeps ==
    ASSUME IInv, BInv, bundle.pc = "idle", UNCHANGED bundle
    PROVE  BInv'
BY DEF BInv, PlanInv, StartInv, LearnInv, SeenInv, BundleIsOfOnePlace

\* A bundle without a plan: none, refused, or broken off.
LEMMA RestingKeeps ==
    ASSUME IInv, BInv, UNCHANGED vars, bundle' \in Bundle, bundle'.pc # "busy",
           bundle'.status # "success", bundle'.pc = "returned" => Idle,
           bundle'.start = Nothing \/ bundle'.start = bundle.start \/ bundle'.start = sel,
           bundle'.pc # "idle" /\ ~bundle'.lost => bundle'.start = sel
    PROVE  BInv'
<1>1. PlanInv' /\ LearnInv' /\ SeenInv'
  BY DEF PlanInv, LearnInv, SeenInv, Idle, vars
<1>2. StartInv'
  <2>1. \/ bundle'.start = Nothing
        \/ bundle'.start.thread \in Threads /\ bundle'.start.frame \in Frames
    BY DEF BInv, StartInv, IInv, SelInv
  <2>2. bundle'.pc # "idle" => Idle' /\ sel' = sel
    BY DEF Idle, vars, Bundle
  <2> QED
    BY <2>1, <2>2 DEF StartInv
<1>3. BundleIsOfOnePlace'
  BY DEF BundleIsOfOnePlace, vars
<1> QED
  BY <1>1, <1>2, <1>3 DEF BInv

\* The request is refused.
LEMMA RefusedKeeps ==
    ASSUME IInv, BInv, NEW r \in Requests, CaptureRefused(r)
    PROVE  BInv'
<1>1. sel \in Selection
  BY DEF IInv, TypeOK
<1>2. /\ bundle' \in Bundle /\ bundle'.pc = "returned" /\ bundle'.status = "error"
      /\ bundle'.start = sel
  BY <1>1, NoBundleIs DEF CaptureRefused, Bundle
<1> QED
  BY <1>2, RestingKeeps DEF CaptureRefused, Ready

\* An artifact cannot be written.
LEMMA WriteFailsKeeps ==
    ASSUME IInv, BInv, WriteFails
    PROVE  BInv'
<1>1. bundle \in Bundle
  BY DEF BInv
<1>2. /\ bundle' \in Bundle /\ bundle'.pc = "returned" /\ bundle'.status = "raised"
      /\ bundle'.start = bundle.start /\ bundle'.lost = bundle.lost
  BY <1>1 DEF WriteFails, Bundle
<1>3. ~bundle.lost => bundle.start = sel
  BY DEF WriteFails, Busy, BInv, StartInv
<1> QED
  BY <1>2, <1>3, RestingKeeps DEF WriteFails, Busy

\* The caller takes the answer.
LEMMA CollectKeeps ==
    ASSUME IInv, BInv, Collect
    PROVE  BInv'
BY NoBundleIs, RestingKeeps DEF Collect

\* A capture begins where the selection is, with nothing seen.
LEMMA CaptureCallKeeps ==
    ASSUME IInv, BInv, NEW r \in Requests, CaptureCall(r)
    PROVE  BInv'
<1>1. /\ sel \in Selection /\ noted \in BOOLEAN /\ Idle /\ UNCHANGED vars /\ r.include \subseteq Sections
  BY CaptureAssumption DEF IInv, TypeOK, CaptureCall, Ready, IsRequest
<1>2. /\ Plan(r) \in Seq(Task) /\ Ordered(Plan(r)) /\ NoteDue(Plan(r))
      /\ "backtrace" \in r.include => Due(Plan(r), Do("threads"))
  BY PlanIs
<1>3. bundle' = [NoBundle EXCEPT !.pc = "busy", !.include = r.include, !.plan = Plan(r),
                                 !.start = sel, !.told = noted]
  BY DEF CaptureCall
<1>4. bundle' \in Bundle
  BY <1>1, <1>2, <1>3, NoBundleIs DEF Bundle
<1>5. bundle'.pc = "busy" /\ bundle'.status = "none" /\ bundle'.include = r.include
  BY <1>3, NoBundleIs DEF Bundle
<1>6. bundle'.plan = Plan(r) /\ bundle'.start = sel /\ bundle'.told = noted /\ bundle'.seen = {}
  BY <1>3, NoBundleIs DEF Bundle
<1>7. PlanInv' /\ SeenInv' /\ BundleIsOfOnePlace'
  BY <1>1, <1>2, <1>5, <1>6 DEF PlanInv, SeenInv, BundleIsOfOnePlace, Idle, vars
<1>8. StartInv'
  BY <1>1, <1>5, <1>6 DEF StartInv, Idle, vars, IInv, SelInv
<1>9. LearnInv'
  BY <1>1, <1>2, <1>5, <1>6 DEF LearnInv, Known, Idle, vars
<1> QED
  BY <1>4, <1>7, <1>8, <1>9 DEF BInv

\* With the threads and the backtraces done, the runtime knows the place if it
\* ever will.
LEMMA KnownByThen ==
    ASSUME BInv, bundle.pc = "busy", ~bundle.lost, ~EarlyDue(bundle.plan), PlaceIsKnown
    PROVE  Known
<1>1. CASE bundle.told
  BY <1>1 DEF BInv, LearnInv
<1>2. CASE ~bundle.told
  <2>1. PICK t \in Alive : Backtrace(t) \notin bundle.failed
    BY <1>2 DEF PlaceIsKnown, Backtrace
  <2>2. /\ "backtrace" \in bundle.include /\ Do("threads") \notin bundle.failed
    BY <1>2 DEF PlaceIsKnown
  <2>3. Do("threads").kind \in Early /\ Backtrace(t).kind \in Early
    BY DEF Do, Backtrace, Early
  <2>4. ~Due(bundle.plan, Do("threads")) /\ ~Due(bundle.plan, Backtrace(t))
    BY <2>3 DEF EarlyDue, Due
  <2> QED
    BY <2>1, <2>2, <2>4 DEF BInv, LearnInv
<1> QED
  BY <1>1, <1>2

\* The head of a plan decides what may follow.
LEMMA HeadOrdered ==
    ASSUME NEW p \in Seq(Task), p # << >>, Ordered(p), Head(p).kind \notin Early
    PROVE  ~NoteDue(Tail(p)) /\ ~EarlyDue(Tail(p)) /\ ~EarlyDue(p)
<1>1. /\ Head(p) = p[1] /\ 1 \in DOMAIN p
      /\ \A i \in DOMAIN Tail(p) : i \in Nat /\ i + 1 \in DOMAIN p /\ Tail(p)[i] = p[i + 1]
  BY TailIs
<1>2. \A i \in DOMAIN Tail(p) : 1 < i + 1
  OBVIOUS
<1>3. \A i \in DOMAIN Tail(p) : Tail(p)[i].kind \notin Early \cup {"note"}
  BY <1>1, <1>2 DEF Ordered
<1>4. ~NoteDue(Tail(p)) /\ ~EarlyDue(Tail(p))
  BY <1>3 DEF NoteDue, EarlyDue
<1> QED
  BY <1>4, TailPlan

\* The runtime's note is read: with the backtraces done, it is where the
\* capture began, if the runtime knows the place at all.
LEMMA NoteSelectionKeeps ==
    ASSUME IInv, BInv, NoteSelection
    PROVE  BInv'
<1>1. /\ Idle /\ bundle.pc = "busy" /\ bundle.plan # << >> /\ Head(bundle.plan).kind = "note"
      /\ bundle \in Bundle /\ rt \in Selection /\ UNCHANGED vars
  BY DEF NoteSelection, Busy, BInv, IInv, TypeOK
<1> DEFINE p == bundle.plan
           q == Tail(p)
           f == IF rt.frame = None THEN 0 ELSE rt.frame
<1>2. p \in Seq(Task) /\ p # << >> /\ q \in Seq(Task)
  BY <1>1, BundleFields, TailIs
<1>3. f \in Frames /\ f # None /\ rt.thread \in Threads \cup {None}
  BY <1>1, SelectionIs, Domains
<1>4. bundle' = [bundle EXCEPT !.plan = q, !.thread = rt.thread, !.frame = f]
  BY DEF NoteSelection
<1>5. /\ Ordered(p) /\ ~NoteDue(q) /\ ~EarlyDue(q) /\ ~EarlyDue(p) /\ Ordered(q) /\ NoteDue(p)
      /\ \A x : Due(p, x) <=> Head(p) = x \/ Due(q, x)
  <2>1. Ordered(p) /\ Head(p).kind \notin Early
    BY <1>1 DEF BInv, PlanInv, Early
  <2> QED
    BY <1>1, <1>2, <2>1, HeadOrdered, TailPlan
<1>6. Head(p).kind = "note"
  BY <1>1
<1> HIDE DEF p, q, f
<1>7. bundle' \in Bundle
  BY <1>1, <1>2, <1>3, <1>4 DEF Bundle
<1>8. bundle'.plan = q /\ bundle'.thread = rt.thread /\ bundle'.frame = f
  BY <1>1, <1>4 DEF Bundle
<1>9. /\ bundle'.pc = bundle.pc /\ bundle'.status = bundle.status /\ bundle'.include = bundle.include
      /\ bundle'.failed = bundle.failed /\ bundle'.start = bundle.start
  BY <1>1, <1>4 DEF Bundle
<1>10. bundle'.told = bundle.told /\ bundle'.seen = bundle.seen /\ bundle'.lost = bundle.lost
  BY <1>1, <1>4 DEF Bundle
<1>11. /\ Idle' /\ sel' = sel /\ Alive' = Alive
       /\ (PlaceIsKnown' <=> PlaceIsKnown) /\ (Known' <=> Known)
  BY <1>1, <1>9, <1>10 DEF Idle, vars, Alive, PlaceIsKnown, Known
<1>12. PlanInv' /\ StartInv' /\ BundleIsOfOnePlace'
  BY <1>1, <1>3, <1>5, <1>8, <1>9, <1>10, <1>11 DEF BInv, PlanInv, StartInv, BundleIsOfOnePlace
<1>13. LearnInv'
  <2>1. Do("threads").kind # "note" /\ \A t : Backtrace(t).kind # "note"
    BY DEF Do, Backtrace
  <2>2. /\ Due(q, Do("threads")) <=> Due(p, Do("threads"))
        /\ \A t : Due(q, Backtrace(t)) <=> Due(p, Backtrace(t))
    BY <1>5, <1>6, <2>1
  <2> QED
    BY <1>8, <1>9, <1>10, <1>11, <2>2 DEF BInv, LearnInv, p
<1>14. SeenInv'
  <2>1. bundle.seen = {}
    BY <1>1, <1>5 DEF BInv, SeenInv, p
  <2>2. ~bundle.lost /\ PlaceIsKnown => rt = bundle.start
    <3>1. ~bundle.lost /\ PlaceIsKnown => noted
      BY <1>1, <1>5, KnownByThen DEF Known, p
    <3>2. noted => rt = sel
      BY <1>1 DEF IInv, NoteInv, Idle
    <3>3. ~bundle.lost => sel = bundle.start
      BY <1>1 DEF BInv, StartInv
    <3> QED
      BY <3>1, <3>2, <3>3
  <2> QED
    BY <1>5, <1>8, <1>9, <1>10, <1>11, <2>1, <2>2 DEF SeenInv, f
<1> QED
  BY <1>7, <1>12, <1>13, <1>14 DEF BInv

\* The call of a section: it may be made, and after the note the sections about
\* the current frame ask for the place where the capture began.
LEMMA StartSectionKeeps ==
    ASSUME IInv, BInv, StartSection
    PROVE  IInv' /\ BInv'
<1> DEFINE p == bundle.plan
           task == Head(p)
<1>1. /\ Idle /\ bundle.pc = "busy" /\ p # << >> /\ task.kind # "note"
      /\ bundle \in Bundle /\ rt \in Selection /\ UNCHANGED <<sel, depth, rt, cache, noted, bundle>>
  BY DEF StartSection, Busy, BInv, IInv, TypeOK
<1>2. /\ p \in Seq(Task) /\ bundle.thread \in Threads \cup {None}
      /\ bundle.frame \in Frames \cup {None} /\ rt.frame \in Frames \cup {None}
  BY <1>1, BundleFields, SelectionIs
<1>3. task \in Task /\ Ordered(p) /\ (task.kind = "backtrace" \/ task = Do(task.kind))
  BY <1>1, <1>2, TailIs DEF BInv, PlanInv, Ordered
<1>4. /\ task.kind \in Sections \cup {"memory"} /\ task.thread \in Threads \cup {None}
      /\ task.kind \in Inspects
  BY <1>1, <1>3 DEF Task, Sections, Current, Inspects
<1>5. task.kind # "backtrace" => task.thread = None
  BY <1>3 DEF Do
<1>6. task.kind \in Current => ~NoteDue(p) /\ ~EarlyDue(p) /\ bundle.frame # None
  <2>1. task.kind \in Current => task.kind \notin Early
    BY DEF Current, Early
  <2>2. task.kind \in Current => ~NoteDue(p) /\ ~EarlyDue(p)
    BY <1>1, <1>2, <1>3, <2>1, HeadOrdered, TailPlan
  <2> QED
    BY <1>1, <2>2 DEF BInv, PlanInv
<1> DEFINE t == IF task.kind \in {"variables", "registers", "evaluate"} THEN bundle.thread ELSE task.thread
           f == IF task.kind = "variables" THEN bundle.frame
                ELSE IF task.kind \in {"registers", "evaluate"} THEN rt.frame ELSE None
<1>7. Enter(task.kind, t, f) /\ t \in Threads \cup {None} /\ f \in Frames \cup {None}
  <2>1. t \in Threads \cup {None} /\ f \in Frames \cup {None}
    BY <1>2, <1>4
  <2>2. CASE task.kind = "variables"
    BY <2>1, <2>2 DEF StartSection
  <2>3. CASE task.kind \in {"registers", "evaluate"}
    BY <2>1, <2>3 DEF StartSection
  <2>4. CASE task.kind \notin {"variables", "registers", "evaluate"}
    BY <2>1, <2>4 DEF StartSection
  <2> QED
    BY <2>2, <2>3, <2>4
<1>8. Shape(task.kind, t, f)
  BY <1>4, <1>5, <1>6 DEF Shape, Sections, Current
<1>9. task.kind \in Current /\ ~bundle.lost /\ PlaceIsKnown =>
         /\ t \in {None, bundle.start.thread}
         /\ \/ f \in {None, bundle.start.frame}
            \/ bundle.start.thread = None /\ task.kind = "variables"
  <2> SUFFICES ASSUME task.kind \in Current, ~bundle.lost, PlaceIsKnown
               PROVE  /\ t \in {None, bundle.start.thread}
                      /\ \/ f \in {None, bundle.start.frame}
                         \/ bundle.start.thread = None /\ task.kind = "variables"
    OBVIOUS
  <2>1. rt = bundle.start
    <3>1. noted
      BY <1>1, <1>6, KnownByThen DEF Known
    <3>2. noted => rt = sel
      BY <1>1 DEF IInv, NoteInv, Idle
    <3>3. sel = bundle.start
      BY <1>1 DEF BInv, StartInv
    <3> QED
      BY <3>1, <3>2, <3>3
  <2>2. /\ bundle.thread = bundle.start.thread
        /\ bundle.frame = IF bundle.start.frame = None THEN 0 ELSE bundle.start.frame
    BY <1>1, <1>6 DEF BInv, SeenInv
  <2>3. bundle.start.frame = None => bundle.start.thread = None
    BY SelectionIs, Domains DEF BInv, StartInv
  <2> QED
    BY <1>5, <2>1, <2>2, <2>3 DEF Current
<1> HIDE DEF t, f
<1>10. /\ op'.kind = task.kind /\ op'.thread = t /\ op'.frame = f /\ op'.before = sel
       /\ op'.told = noted /\ op'.pc # "idle"
  BY <1>4, <1>7, EnterIs DEF QueryStep
<1>11. IInv'
  BY <1>1, <1>4, <1>7, <1>8, EnterKeeps
<1>12. task.kind = "backtrace" => t = task.thread
  BY DEF t
<1> HIDE DEF task
<1>13. ~Idle' /\ Alive' = Alive /\ (PlaceIsKnown' <=> PlaceIsKnown) /\ (Known' <=> Known)
  BY <1>1, <1>10 DEF Idle, Alive, PlaceIsKnown, Known
<1>14. PlanInv'
  BY <1>1, <1>4, <1>10, <1>12, <1>13 DEF BInv, PlanInv, task
<1>15. StartInv' /\ BundleIsOfOnePlace'
  BY <1>1, <1>10, <1>13 DEF BInv, PlanInv, StartInv, BundleIsOfOnePlace
<1>16. LearnInv'
  BY <1>1, <1>13 DEF BInv, LearnInv
<1>17. SeenInv'
  BY <1>1, <1>9, <1>10, <1>13 DEF BInv, SeenInv
<1> QED
  BY <1>1, <1>11, <1>14, <1>15, <1>16, <1>17 DEF BInv

\* The manifest is written with the plan done.
LEMMA WriteManifestKeeps ==
    ASSUME IInv, BInv, WriteManifest
    PROVE  BInv'
<1>1. /\ Idle /\ bundle.pc = "busy" /\ bundle.plan = << >> /\ bundle \in Bundle /\ rt \in Selection
      /\ UNCHANGED vars
  BY DEF WriteManifest, Busy, BInv, IInv, TypeOK
<1>2. ~NoteDue(bundle.plan) /\ ~EarlyDue(bundle.plan)
  BY <1>1 DEF NoteDue, EarlyDue
<1>3. bundle' = [bundle EXCEPT !.pc = "returned", !.status = "success", !.manifest = rt]
  BY DEF WriteManifest
<1>4. bundle' \in Bundle
  BY <1>1, <1>3 DEF Bundle
<1>5. bundle'.pc = "returned" /\ bundle'.status = "success" /\ bundle'.manifest = rt
  BY <1>1, <1>3 DEF Bundle
<1>6. /\ bundle'.include = bundle.include /\ bundle'.failed = bundle.failed /\ bundle'.start = bundle.start
      /\ bundle'.told = bundle.told /\ bundle'.seen = bundle.seen /\ bundle'.lost = bundle.lost
  BY <1>1, <1>3 DEF Bundle
<1>7. Idle' /\ sel' = sel /\ Alive' = Alive /\ (PlaceIsKnown' <=> PlaceIsKnown)
  BY <1>1, <1>6 DEF Idle, vars, Alive, PlaceIsKnown
<1>8. ~bundle.lost => sel = bundle.start
  BY <1>1 DEF BInv, StartInv
<1>9. ~bundle.lost /\ PlaceIsKnown => rt = bundle.start /\ bundle.seen \subseteq {bundle.start}
  <2>1. ~bundle.lost /\ PlaceIsKnown => noted
    BY <1>1, <1>2, KnownByThen DEF Known
  <2>2. noted => rt = sel
    BY <1>1 DEF IInv, NoteInv, Idle
  <2>3. ~bundle.lost /\ PlaceIsKnown => bundle.seen \subseteq {bundle.start}
    BY <1>1, <1>2 DEF BInv, SeenInv
  <2> QED
    BY <1>8, <2>1, <2>2, <2>3
<1>10. PlanInv' /\ LearnInv' /\ SeenInv'
  BY <1>5, <1>7 DEF PlanInv, LearnInv, SeenInv
<1>11. StartInv' /\ BundleIsOfOnePlace'
  BY <1>5, <1>6, <1>7, <1>8, <1>9 DEF BInv, StartInv, BundleIsOfOnePlace
<1> QED
  BY <1>4, <1>10, <1>11 DEF BInv

\* What a section that has returned leaves: unless it has lost the selection,
\* GDB is where the capture began and the runtime knows what it knew.
LEMMA ReturnedSection ==
    ASSUME IInv, BInv, bundle.pc = "busy", op.pc = "returned",
           ~bundle.lost, op.status # "restore_error", ~(op.kind = "backtrace" /\ op.late)
    PROVE  /\ sel = bundle.start
           /\ Known => noted
           /\ op.status = "success" /\ op.kind = "backtrace" /\ op.thread # None => noted
<1>1. /\ ~Idle /\ op.kind \in Inspects /\ op.before = bundle.start /\ op \in Op
  BY DEF BInv, PlanInv, StartInv, Idle, Sections, Current, Inspects, IInv, TypeOK
<1>2. op.status \in {"success", "error"}
  <2>1. op.kind # "source"
    BY DEF BInv, PlanInv, Idle, Sections, Current
  <2> QED
    BY <1>1, <2>1 DEF IInv, ReadInv, Op
<1>3. sel = bundle.start
  BY <1>1, <1>2 DEF IInv, SelectionKept, Returned
<1>4. op.told => noted
  BY <1>1, <1>2 DEF IInv, ToldInv, RestoreSteps
<1>5. op.status = "success" /\ op.kind = "backtrace" /\ op.thread # None => op.told
  BY <1>1 DEF IInv, SourceInv, Capturing, Captures
<1> QED
  BY <1>1, <1>3, <1>4, <1>5 DEF Known

\* Where a section about the current frame has read.
LEMMA SectionRead ==
    ASSUME IInv, BInv, bundle.pc = "busy", op.pc = "returned", op.status = "success",
           op.kind \in Current, ~bundle.lost, PlaceIsKnown, ~NoteDue(bundle.plan)
    PROVE  op.read = bundle.start
<1>1. /\ ~Idle /\ op.kind \in Inspects /\ op.before = bundle.start
  BY DEF BInv, StartInv, Idle, Current, Inspects
<1>2. /\ op.thread \in {None, bundle.start.thread}
      /\ \/ op.frame \in {None, bundle.start.frame}
         \/ bundle.start.thread = None /\ op.kind = "variables"
  BY <1>1 DEF BInv, SeenInv
<1>3. op.kind = "variables" => bundle.start.thread # None
  BY <1>1 DEF IInv, SourceInv, Capturing, Captures
<1> QED
  BY <1>1, <1>2, <1>3 DEF IInv, SourceInv

\* The answer of a section.
LEMMA SectionDoneKeeps ==
    ASSUME IInv, BInv, SectionDone
    PROVE  BInv'
<1> DEFINE p == bundle.plan
           task == Head(p)
           ok == op.status = "success"
           lost == \/ bundle.lost \/ op.status = "restore_error"
                   \/ (op.kind = "backtrace" /\ op.late)
           seen == IF ok /\ task.kind \in Current THEN bundle.seen \cup {op.read} ELSE bundle.seen
           failed == IF ok THEN bundle.failed ELSE bundle.failed \cup {task}
           joins == task.kind = "threads" /\ "backtrace" \in bundle.include
           b == [bundle EXCEPT !.plan = Tail(@), !.failed = IF ok THEN @ ELSE @ \cup {task},
                               !.seen = IF ok /\ task.kind \in Current THEN @ \cup {op.read} ELSE @,
                               !.lost = \/ @ \/ op.status = "restore_error"
                                        \/ (op.kind = "backtrace" /\ op.late)]
<1>1. /\ bundle.pc = "busy" /\ op.pc = "returned" /\ op \in Op /\ bundle \in Bundle /\ ~Idle
      /\ op' = NoOp /\ UNCHANGED <<sel, depth, rt, cache, noted>>
      /\ depth \in [Threads -> 0..MaxDepth]
  BY DEF SectionDone, BInv, IInv, TypeOK, Idle
<1>2. /\ p \in Seq(Task) /\ p # << >> /\ Ordered(p) /\ op.kind = task.kind
      /\ op.kind \in Sections \cup {"memory"}
      /\ op.kind = "backtrace" => op.thread = task.thread
  BY <1>1, BundleFields DEF BInv, PlanInv
<1>3. /\ Tail(p) \in Seq(Task) /\ task \in Task /\ Ordered(Tail(p))
      /\ (task.kind = "backtrace" \/ task = Do(task.kind)) /\ task.kind # "note"
      /\ \A x : Due(p, x) <=> task = x \/ Due(Tail(p), x)
      /\ NoteDue(p) <=> NoteDue(Tail(p))
      /\ EarlyDue(p) <=> task.kind \in Early \/ EarlyDue(Tail(p))
      /\ task.kind \notin Early => ~NoteDue(p)
  <2>1. task.kind # "note"
    BY <1>2 DEF Sections, Current
  <2>2. task.kind = "backtrace" \/ task = Do(task.kind)
    BY <1>2, TailIs DEF Ordered
  <2> HIDE DEF p
  <2> QED
    BY <1>2, <2>1, <2>2, TailIs, TailPlan, HeadOrdered
<1>4. lost \in BOOLEAN /\ seen \subseteq Selection /\ failed \subseteq Task
  BY <1>1, <1>3, BundleFields, OpIs
<1> HIDE DEF p
<1>5. PICK P \in Seq(Task), F \in SUBSET Task :
         /\ bundle' = [bundle EXCEPT !.plan = P, !.failed = F, !.seen = seen, !.lost = lost]
         /\ failed \subseteq F
         /\ ~joins => P = Tail(p)
         /\ joins /\ ok /\ Alive # {} => \E s \in Backtraces : P = s \o Tail(p)
         /\ joins /\ ~(ok /\ Alive # {}) => P = Tail(p)
  <2>1. b = [bundle EXCEPT !.plan = Tail(p), !.failed = failed, !.seen = seen, !.lost = lost]
    BY DEF p
  <2>2. CASE ~joins
    <3>1. bundle' = b
      BY <2>2 DEF SectionDone, p
    <3> HIDE DEF b, failed, seen, lost, ok, joins
    <3> QED
      BY <1>3, <1>4, <2>1, <2>2, <3>1
  <2>3. CASE joins /\ ok /\ Alive # {}
    <3>1. PICK s \in Backtraces : bundle' = [b EXCEPT !.plan = s \o Tail(p)]
      <4>1. b.plan = Tail(p)
        BY <1>1, <2>1 DEF Bundle
      <4>2. \E s \in Backtraces : bundle' = [b EXCEPT !.plan = s \o @]
        BY <2>3 DEF SectionDone, p
      <4> HIDE DEF b
      <4> QED
        BY <4>1, <4>2
    <3>2. s \o Tail(p) \in Seq(Task)
      BY <1>1, <1>3, BacktracesIs, ConcatPlan
    <3> HIDE DEF failed, seen, lost, ok, joins, b
    <3>3. bundle' = [bundle EXCEPT !.plan = s \o Tail(p), !.failed = failed, !.seen = seen, !.lost = lost]
      BY <1>1, <2>1, <3>1 DEF Bundle
    <3> QED
      BY <1>4, <2>3, <3>1, <3>2, <3>3
  <2>4. CASE joins /\ ~(ok /\ Alive # {})
    <3>1. bundle' = [b EXCEPT !.failed = failed \cup {Do("backtrace")}]
      <4>1. b.failed = failed
        BY <1>1, <2>1 DEF Bundle
      <4>2. bundle' = [b EXCEPT !.failed = @ \cup {Do("backtrace")}]
        BY <2>4 DEF SectionDone, p
      <4> HIDE DEF b
      <4> QED
        BY <4>1, <4>2
    <3>2. failed \cup {Do("backtrace")} \in SUBSET Task
      <4>1. "backtrace" \in Sections \cup {"note", "memory"}
        BY DEF Sections
      <4> QED
        BY <1>4, <4>1, OneIs
    <3> HIDE DEF failed, seen, lost, ok, joins, b
    <3>3. bundle' = [bundle EXCEPT !.plan = Tail(p), !.failed = failed \cup {Do("backtrace")},
                                   !.seen = seen, !.lost = lost]
      BY <1>1, <2>1, <3>1 DEF Bundle
    <3> QED
      BY <1>3, <1>4, <2>4, <3>2, <3>3
  <2> QED
    BY <2>2, <2>3, <2>4
<1>6. bundle' \in Bundle
  <2> HIDE DEF lost, seen
  <2> QED
    BY <1>1, <1>4, <1>5 DEF Bundle
<1>7. bundle'.plan = P /\ bundle'.failed = F /\ bundle'.seen = seen /\ bundle'.lost = lost
  <2> HIDE DEF lost, seen
  <2> QED
    BY <1>1, <1>5 DEF Bundle
<1>8. /\ bundle'.pc = "busy" /\ bundle'.status = bundle.status /\ bundle'.include = bundle.include
      /\ bundle'.thread = bundle.thread /\ bundle'.frame = bundle.frame
      /\ bundle'.start = bundle.start /\ bundle'.told = bundle.told
  <2> HIDE DEF lost, seen
  <2> QED
    BY <1>1, <1>5 DEF Bundle
<1>9. /\ Idle' /\ Alive' = Alive /\ sel' = sel /\ (Known' <=> noted)
      /\ bundle.failed \subseteq F /\ (~ok => task \in F)
      /\ PlaceIsKnown' => PlaceIsKnown
  BY <1>1, <1>5, <1>7, <1>8, NoOpIs DEF Idle, Alive, Known, PlaceIsKnown
<1>10. /\ Ordered(P) /\ (NoteDue(P) <=> NoteDue(p))
       /\ ~NoteDue(p) => P = Tail(p) /\ ~EarlyDue(P)
  <2>1. CASE P = Tail(p)
    BY <1>1, <1>3, <2>1 DEF BInv, PlanInv, p
  <2>2. CASE P # Tail(p)
    <3>1. joins
      BY <1>5, <2>2
    <3>2. PICK s \in Backtraces : P = s \o Tail(p)
      BY <1>5, <2>2
    <3>3. /\ s \in Seq(Task) /\ Ordered(s) /\ ~NoteDue(s)
          /\ \A i \in DOMAIN s : s[i].kind \in Early
      BY <1>1, BacktracesIs
    <3>4. Ordered(P) /\ (NoteDue(P) <=> NoteDue(Tail(p)))
      BY <1>3, <3>2, <3>3, ConcatPlan
    <3>5. NoteDue(p)
      BY <1>1, <1>3, <3>1 DEF BInv, PlanInv, p, Early
    <3> QED
      BY <1>3, <3>4, <3>5
  <2> QED
    BY <2>1, <2>2
<1>11. ~lost => /\ ~bundle.lost /\ sel = bundle.start /\ (Known => noted)
                /\ ok /\ op.kind = "backtrace" /\ op.thread # None => noted
  BY <1>1, ReturnedSection
<1> HIDE DEF lost
<1>12. PlanInv'
  BY <1>1, <1>7, <1>8, <1>9, <1>10 DEF BInv, PlanInv, p
<1>13. StartInv' /\ BundleIsOfOnePlace'
  BY <1>1, <1>7, <1>8, <1>9, <1>11 DEF BInv, PlanInv, StartInv, BundleIsOfOnePlace
<1>14. LearnInv'
  <2> SUFFICES ASSUME ~lost
               PROVE  /\ bundle.told => noted
                      /\ /\ "backtrace" \in bundle.include /\ Do("threads") \notin F
                         /\ ~Due(P, Do("threads"))
                         => \A t \in Alive : Backtrace(t) \in F \/ Due(P, Backtrace(t)) \/ noted
    BY <1>7, <1>8, <1>9 DEF LearnInv
  <2>1. bundle.told => noted
    BY <1>1, <1>11 DEF BInv, LearnInv
  <2>2. ASSUME "backtrace" \in bundle.include, Do("threads") \notin F, ~Due(P, Do("threads")),
               NEW t \in Alive
        PROVE  Backtrace(t) \in F \/ Due(P, Backtrace(t)) \/ noted
    <3>1. CASE task.kind = "threads"
      <4>1. task = Do("threads") /\ joins /\ ok /\ Alive # {}
        BY <1>3, <1>9, <2>2, <3>1
      <4>2. PICK s \in Backtraces : P = s \o Tail(p)
        BY <1>5, <4>1
      <4>3. s \in Seq(Task) /\ Due(s, Backtrace(t))
        BY <1>1, BacktracesIs
      <4> QED
        BY <1>3, <4>2, <4>3, ConcatPlan
    <3>2. CASE task.kind # "threads"
      <4>1. P = Tail(p)
        BY <1>5, <3>2
      <4>2. task # Do("threads")
        BY <3>2 DEF Do
      <4>3. ~Due(p, Do("threads")) /\ Do("threads") \notin bundle.failed
        BY <1>3, <1>9, <2>2, <4>1, <4>2
      <4>4. Backtrace(t) \in bundle.failed \/ Due(p, Backtrace(t)) \/ Known
        BY <1>1, <1>11, <2>2, <4>3 DEF BInv, LearnInv, p
      <4>5. CASE task = Backtrace(t)
        <5>1. task.kind = "backtrace" /\ task.thread = t /\ t # None
          BY <4>5, Domains DEF Backtrace, Alive
        <5> QED
          BY <1>2, <1>9, <1>11, <4>5, <5>1
      <4>6. CASE task # Backtrace(t)
        BY <1>3, <1>9, <1>11, <4>1, <4>4, <4>6
      <4> QED
        BY <4>5, <4>6
    <3> QED
      BY <3>1, <3>2
  <2> QED
    BY <2>1, <2>2
<1>15. SeenInv'
  <2>1. NoteDue(P) => seen = {}
    <3>1. NoteDue(P) => bundle.seen = {}
      BY <1>1, <1>10 DEF BInv, SeenInv, p
    <3>2. NoteDue(P) => task.kind \notin Current
      BY <1>3, <1>10 DEF Early, Current
    <3> QED
      BY <3>1, <3>2
  <2>2. ASSUME ~NoteDue(P), ~lost, PlaceIsKnown'
        PROVE  /\ bundle.thread = bundle.start.thread
               /\ bundle.frame = IF bundle.start.frame = None THEN 0 ELSE bundle.start.frame
               /\ seen \subseteq {bundle.start}
    <3>1. ~NoteDue(p) /\ ~bundle.lost /\ PlaceIsKnown
      BY <1>9, <1>10, <1>11, <2>2
    <3>2. /\ bundle.thread = bundle.start.thread
          /\ bundle.frame = IF bundle.start.frame = None THEN 0 ELSE bundle.start.frame
          /\ bundle.seen \subseteq {bundle.start}
      BY <1>1, <3>1 DEF BInv, SeenInv, p
    <3>3. ok /\ task.kind \in Current => op.read = bundle.start
      BY <1>1, <1>2, <3>1, SectionRead DEF p
    <3> QED
      BY <3>2, <3>3
  <2> QED
    BY <1>7, <1>8, <1>9, <2>1, <2>2 DEF SeenInv
<1> QED
  BY <1>6, <1>12, <1>13, <1>14, <1>15 DEF BInv

-----------------------------------------------------------------------------
(* Capture bundles: the theorems *)

\* Before the first capture.
LEMMA CaptureInitKeeps == CaptureInit => IInv /\ BInv
<1> SUFFICES ASSUME CaptureInit PROVE IInv /\ BInv
  OBVIOUS
<1>1. IInv
  BY InitKeeps DEF CaptureInit
<1>2. bundle = NoBundle
  BY DEF CaptureInit
<1>3. BInv
  BY <1>2, NoBundleIs DEF BInv, PlanInv, StartInv, LearnInv, SeenInv, BundleIsOfOnePlace
<1> QED
  BY <1>1, <1>3

\* Both invariants are kept by every step of a session that makes bundles.
THEOREM CaptureInvariantHolds == CaptureSpec => [](IInv /\ BInv)
<1>1. ASSUME IInv, BInv, [CaptureNext]_captureVars PROVE IInv' /\ BInv'
  <2>1. CASE UNCHANGED captureVars
    <3>1. UNCHANGED vars /\ UNCHANGED bundle
      BY <2>1 DEF captureVars
    <3>2. IInv'
      BY <1>1, <3>1, QuietKeeps
    <3>3. BInv'
      BY ZenonT(60), <1>1, <3>1 DEF vars, BInv, PlanInv, StartInv, LearnInv, SeenInv, BundleIsOfOnePlace, Idle,
         Known, Alive, PlaceIsKnown
    <3> QED
      BY <3>2, <3>3
  <2>2. ASSUME NEW r \in Requests, CaptureCall(r) \/ CaptureRefused(r) PROVE IInv' /\ BInv'
    BY <1>1, <2>2, QuietKeeps, CaptureCallKeeps, RefusedKeeps DEF CaptureCall, CaptureRefused
  <2>3. CASE NoteSelection \/ WriteManifest \/ WriteFails \/ Collect
    BY <1>1, <2>3, QuietKeeps, NoteSelectionKeeps, WriteManifestKeeps, WriteFailsKeeps, CollectKeeps
       DEF NoteSelection, WriteManifest, WriteFails, Collect
  <2>4. CASE StartSection
    BY <1>1, <2>4, StartSectionKeeps
  <2>5. CASE SectionDone
    <3>1. Answered
      BY <2>5 DEF SectionDone, Answered
    <3> QED
      BY <1>1, <2>5, <3>1, AnsweredKeeps, SectionDoneKeeps
  <2>6. CASE bundle.pc = "idle" /\ (Between \/ Answered) /\ UNCHANGED bundle
    BY <1>1, <2>6, ClientKeeps, AnsweredKeeps, OutsideKeeps
  <2>7. CASE Step /\ UNCHANGED bundle
    BY <1>1, <2>7, StepKeeps, SectionStepKeeps
  <2> QED
    BY <1>1, <2>1, <2>2, <2>3, <2>4, <2>5, <2>6, <2>7 DEF CaptureNext
<1> QED
  BY CaptureInitKeeps, <1>1, PTL DEF CaptureSpec

\* A bundle is of one place, whichever of its sections fail and wherever it
\* breaks off: what its sections about the current frame have read, and what the
\* manifest names, is the thread and frame that was selected at its start, which
\* is selected again at its end (CaptureService.capture in session/capture.py).
THEOREM BundlesAreOfOnePlace == CaptureSpec => []BundleIsOfOnePlace
<1>1. IInv /\ BInv => BundleIsOfOnePlace
  BY DEF BInv
<1> QED
  BY <1>1, CaptureInvariantHolds, PTL

\* What holds of the inspection tools between captures holds of those a capture
\* calls.
THEOREM CapturesReadAsTools == CaptureSpec => [](SelectionKept /\ MostlyRightContext /\ NoteIsRight)
<1>1. IInv => SelectionKept /\ MostlyRightContext /\ NoteIsRight
  BY DEF IInv, ReadInv, MostlyRightContext, RightContext, Returned, RestoreSteps, NoteInv, NoteIsRight, Idle
<1> QED
  BY <1>1, CaptureInvariantHolds, PTL
-----------------------------------------------------------------------------
(* Listings of source lines and memory *)

\* A request for source lines names a line and what to show around or after it.
SourceAsk == [range : BOOLEAN, line : (Nat \ {0}) \cup {NoLine}, before : Nat, after : Nat]

LEMMA MaxOfTwo ==
    ASSUME NEW a \in Int, NEW b \in Int
    PROVE  Max({a, b}) = IF a >= b THEN a ELSE b
<1> DEFINE m == IF a >= b THEN a ELSE b
<1>1. m \in {a, b} /\ \A y \in {a, b} : m >= y
  OBVIOUS
<1>2. \A x \in {a, b} : (\A y \in {a, b} : x >= y) => x = m
  OBVIOUS
<1> HIDE DEF m
<1> QED
  BY <1>1, <1>2 DEF Max

LEMMA MinOfTwo ==
    ASSUME NEW a \in Int, NEW b \in Int
    PROVE  Min({a, b}) = IF a <= b THEN a ELSE b
<1> DEFINE m == IF a <= b THEN a ELSE b
<1>1. m \in {a, b} /\ \A y \in {a, b} : m <= y
  OBVIOUS
<1>2. \A x \in {a, b} : (\A y \in {a, b} : x <= y) => x = m
  OBVIOUS
<1> HIDE DEF m
<1> QED
  BY <1>1, <1>2 DEF Min

\* Whatever the length of the file and the request, the lines that
\* _read_source_context (session/inspection/source.py) shows are those of the
\* file that were asked for, and it fails only if there are none.
THEOREM WindowsAreExact ==
    ASSUME NEW length \in Nat, NEW ask \in SourceAsk
    PROVE  ShowsExactly(SourceWindow(length, ask), LinesAsked(length, ask))
<1> DEFINE w == SourceWindow(length, ask)
           lines == LinesAsked(length, ask)
<1>1. ask.range \in BOOLEAN /\ ask.before \in Nat /\ ask.after \in Nat
      /\ ask.line \in (Nat \ {0}) \cup {NoLine}
  BY DEF SourceAsk
<1>2. CASE ask.line = NoLine
  BY <1>2 DEF SourceWindow, NoWindow, LinesAsked, ShowsExactly
<1>3. CASE ask.line # NoLine
  <2>1. ask.line \in Nat /\ ask.line >= 1
    BY <1>1, <1>3
  <2> DEFINE first == IF ask.range THEN ask.line ELSE ask.line - ask.before
             start == IF ask.range THEN ask.line ELSE Max({1, ask.line - ask.before})
             end == Min({ask.line + ask.after, length})
  <2>2. start = IF first >= 1 THEN first ELSE 1
    BY <1>1, <2>1, MaxOfTwo
  <2>3. end = IF ask.line + ask.after <= length THEN ask.line + ask.after ELSE length
    BY <1>1, <2>1, MinOfTwo
  <2>4. first \in Int /\ first <= ask.line
    BY <1>1, <2>1
  <2>5. w = IF start > length THEN NoWindow
            ELSE [start |-> start, end |-> end,
                  current |-> IF ask.range THEN NoLine ELSE ask.line, ok |-> TRUE]
    BY <1>3 DEF SourceWindow
  <2>6. lines = (first .. (ask.line + ask.after)) \cap 1 .. length
    BY <1>3 DEF LinesAsked
  <2> HIDE DEF first, start, end, w, lines
  <2>7. CASE start > length
    <3>1. w.ok = FALSE
      BY <2>5, <2>7 DEF NoWindow
    <3>2. lines = {}
      BY <1>1, <2>1, <2>2, <2>4, <2>6, <2>7
    <3> QED
      BY <3>1, <3>2 DEF ShowsExactly, w, lines
  <2>8. CASE ~(start > length)
    <3>1. w.ok = TRUE /\ w.start = start /\ w.end = end
      BY <2>5, <2>8
    <3>2. start .. end = lines
      BY <1>1, <2>1, <2>2, <2>3, <2>4, <2>6
    <3>3. start \in lines
      BY <1>1, <2>1, <2>2, <2>4, <2>6, <2>8
    <3> QED
      BY <3>1, <3>2, <3>3 DEF ShowsExactly, w, lines
  <2> QED
    BY <2>7, <2>8
<1> QED
  BY <1>2, <1>3

\* Whatever part of the memory is readable, and with either command, read_memory
\* (session/inspection/memory.py) warns just when a byte that was asked for is
\* missing (_read_memory_warnings).
THEOREM ShortReadsAreTold ==
    ASSUME NEW count \in Nat \ {0}, NEW readable \in SUBSET Int, NEW supportsBytes \in BOOLEAN
    PROVE  TellsShort(ReadMemory(count, readable, supportsBytes), count)
<1> DEFINE got == IF supportsBytes THEN readable \cap 0 .. (count - 1)
                                   ELSE ReadablePrefix(count, readable)
           all == 0 .. (count - 1)
           read == ReadMemory(count, readable, supportsBytes)
<1>1. IsFiniteSet(all) /\ Cardinality(all) = count
  BY FS_Interval
<1>2. got \in SUBSET all
  BY DEF ReadablePrefix
<1>3. /\ read.bytes = got
      /\ read.warnings = {} <=> ~(Cardinality(Runs(got)) > 1) /\ ~(Cardinality(got) < count)
  BY DEF ReadMemory
<1> HIDE DEF got, read
<1>4. /\ Cardinality(got) \in Nat /\ Cardinality(got) <= count
      /\ Cardinality(got) = count => got = all
  BY <1>1, <1>2, FS_Subset, FS_CardinalityType
<1>5. CASE got = all
  <2>1. Runs(all) = {0}
    BY DEF Runs
  <2>2. Cardinality(Runs(all)) = 1
    BY <2>1, FS_Singleton
  <2>3. ~(Cardinality(Runs(got)) > 1) /\ ~(Cardinality(got) < count)
    BY <1>1, <1>5, <2>2
  <2> QED
    BY <1>3, <1>5, <2>3 DEF TellsShort, read
<1>6. CASE got # all
  <2>1. Cardinality(got) < count
    BY <1>4, <1>6
  <2> QED
    BY <1>3, <1>6, <2>1 DEF TellsShort, read
<1> QED
  BY <1>5, <1>6
=============================================================================
