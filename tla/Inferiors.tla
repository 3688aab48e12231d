------------------------------ MODULE Inferiors ------------------------------
(***************************************************************************)
(* Inferiors: adding, removing, selecting and listing them, and following  *)
(* forks (session/execution.py, session/inspection/inferior_state.py,      *)
(* session/inferiors.py and the parts of session/command_runner.py that    *)
(* follow them).                                                           *)
(*                                                                         *)
(* GDB knows which inferiors there are and which is current; the runtime   *)
(* keeps a note of both, brought up to date by what a command was meant to *)
(* do, by notifications, and by reading "info inferiors".  Commands are    *)
(* executed in order; one that is given up is executed later.  Text and    *)
(* notifications carry no token: whoever waits next reads them.  What is   *)
(* unread is kept by what reading it will do, since it is read all at once. *)
(*                                                                         *)
(* Inferiors have one thread each, with their number.                      *)
(***************************************************************************)
EXTENDS RuntimeState

CONSTANTS
    MaxQueue,      \* bound: commands given up and not executed yet
    Usages         \* the sets of tools a client may use

AllTools == {"add", "remove", "select", "list", "follow", "detach"}

ASSUME InferiorsAssumption ==
    MaxQueue \in Nat /\ Usages \subseteq SUBSET AllTools /\ "stop" \in Reasons

VARIABLES
    tools,    \* the tools this client uses
    gdb,      \* inferiors, the current one, the fork settings (external)
    next,     \* the next number GDB gives (external)
    queue,    \* commands not executed; only the last may be waited for
    heard,    \* the runtime as the notifications not read yet will leave it
    news,     \* there are such notifications
    text,     \* the inventories printed and not read yet
    rt,       \* the runtime
    op,       \* the tool call in progress
    told,     \* the runtime was told of the last change of the current one
    strayed   \* the thread of the note may have been left without a word read of it

vars == <<tools, gdb, next, queue, heard, news, text, rt, op, told, strayed>>

Modes == {"parent", "child"}

Gdb == [ids : SUBSET Ids, current : Ids, follow : Modes, detach : BOOLEAN]

\* The inferiors on the lines of the text, and how many lines there are.
Text == [ids : SUBSET Ids, lines : Nat]
NoText == [ids |-> {}, lines |-> 0]

\* What a call asks for; an id may be that of no inferior.
Request == [tool : AllTools, id : Ids \cup {None}, executable : BOOLEAN, make_current : BOOLEAN,
            mode : Modes, enabled : BOOLEAN]
NoRequest == [tool |-> "list", id |-> None, executable |-> FALSE, make_current |-> FALSE,
              mode |-> "parent", enabled |-> TRUE]

Names == {"add", "remove", "inferior", "exec", "info", "follow", "detach"}
Command == [name : Names, id : Ids \cup {None}, mode : Modes, enabled : BOOLEAN, mine : BOOLEAN]

\* pc: the command waited for.  id: the inferior added.  previous: the note
\* of the current inferior.  count, current: of the answer.  For the
\* properties: GDB's current inferior at the start, whether the runtime was
\* right about it, and whether old text came with the inventory.
Op == [request : Request,
       pc : {"idle", "add", "select", "exec", "restore", "remove", "refresh", "set", "returned"},
       id : Ids \cup {None}, previous : Ids \cup {None},
       status : {"none", "success", "warning", "error"},
       count : Nat, current : Ids \cup {None},
       before : Ids \cup {None}, knew : BOOLEAN, noise : BOOLEAN]

NoOp == [request |-> NoRequest, pc |-> "idle", id |-> None, previous |-> None, status |-> "none",
         count |-> 0, current |-> None, before |-> None, knew |-> FALSE, noise |-> FALSE]

TypeOK ==
    /\ tools \in Usages
    /\ gdb \in Gdb /\ gdb.current \in gdb.ids
    /\ next \in Nat
    /\ queue \in Seq(Command)
    /\ heard \in Runtime /\ news \in BOOLEAN
    /\ text \in Text
    /\ rt \in Runtime
    /\ op \in Op
    /\ told \in BOOLEAN /\ strayed \in BOOLEAN

Init ==
    /\ tools \in Usages
    /\ gdb = [ids |-> {1}, current |-> 1, follow |-> "parent", detach |-> TRUE]
    /\ next = 2
    /\ queue = << >>
    /\ rt = MarkReady(MarkInferiorNotStarted(
                BeginStartup([InitialRuntime EXCEPT !.controller = TRUE]), 1))
    /\ heard = rt /\ news = FALSE /\ text = NoText
    /\ op = NoOp
    /\ told = TRUE /\ strayed = FALSE

Idle == op.pc = "idle"
Waiting == op.pc \notin {"idle", "returned"}

-----------------------------------------------------------------------------
(* Reading: update_runtime_after_command *)

\* All that was unread has been read.
AllRead == heard' = rt' /\ news' = FALSE /\ text' = NoText

\* The effect the server attributes to command c, answered or given up.
AfterCommand(r, c) ==
    CASE c.name = "inferior" -> MarkInferiorSelected(r, c.id)
      [] c.name = "follow" -> [r EXCEPT !.follow_fork_mode = c.mode]
      [] c.name = "detach" -> [r EXCEPT !.detach_on_fork = c.enabled]
      [] OTHER -> r

\* parse_inferiors_output on the lines of an inventory, behind older text.
Parsed(older, ids, current) ==
    [ids |-> older.ids \cup ids, current |-> current, count |-> older.lines + Cardinality(ids)]

\* Broken variant for mutation: inferiors that are gone stay.
RefreshedMerging(r, p) ==
    UpdateInferiorInventory(r, p.current, p.ids \cup Tracked(r))

\* update_inferior_inventory, with the number of lines as the count.
Refreshed(r, p) ==
    LET u == UpdateInferiorInventory(r, p.current, p.ids)
    IN  [u EXCEPT !.inferior_count = IF p.count > @ THEN p.count ELSE @]

-----------------------------------------------------------------------------
(* Between two calls *)

Events == UNCHANGED <<tools, op>> /\ Idle /\ queue = << >>

InfoInferiors ==
    [name |-> "info", id |-> None, mode |-> "parent", enabled |-> TRUE, mine |-> FALSE]

\* A stop in inferior i is read, the runtime being r by then.  If inferiors
\* have come or gone with it the server asks for the inventory first, which
\* may fail, or time out and be printed later.  The runtime notes the thread.
StopRead(r, i, changed) ==
    \E answer \in IF changed THEN {"done", "error", "timeout"} ELSE {"none"} :
        LET b == IF answer = "done" THEN Refreshed(r, Parsed(NoText, gdb'.ids, i)) ELSE r
        IN  /\ rt' = [MarkInferiorPaused(b, i, "stop") EXCEPT !.current_thread_id = i]
            /\ told' = (b.current_inferior_id = i)
            /\ strayed' = FALSE
            /\ queue' = IF answer = "timeout" THEN <<InfoInferiors>> ELSE << >>
            /\ AllRead

\* The program stops in inferior i, which GDB makes current.
Stops(i) ==
    /\ Events
    /\ i \in gdb.ids
    /\ gdb' = [gdb EXCEPT !.current = i]
    /\ StopRead(heard, i, news)
    /\ UNCHANGED next

\* The program stops after a fork that left GDB with a new inferior.
Forks ==
    /\ Events
    /\ next \in Ids
    /\ gdb.follow = "child" \/ ~gdb.detach
    /\ gdb' = [gdb EXCEPT !.ids = @ \cup {next},
                          !.current = IF gdb.follow = "child" THEN next ELSE @]
    /\ StopRead(MarkInferiorRunning(EnsureInferior(heard, next), next),
                gdb'.current, TRUE)
    /\ next' = next + 1

\* A raw "thread" command goes to a thread of another inferior.
RawThread(i) ==
    /\ Events
    /\ i \in gdb.ids \ {gdb.current}
    /\ gdb' = [gdb EXCEPT !.current = i]
    /\ rt' = heard /\ AllRead
    /\ told' = FALSE /\ strayed' = TRUE
    /\ UNCHANGED <<next, queue>>

-----------------------------------------------------------------------------
(* Sending and giving up *)

Cmd(name, r, id) ==
    [name |-> name, id |-> id, mode |-> r.mode, enabled |-> r.enabled, mine |-> TRUE]

Proceed(o, pc, name, id, rest) ==
    /\ op' = [o EXCEPT !.pc = pc]
    /\ queue' = Append(rest, Cmd(name, o.request, id))

Return(o, status, rest) ==
    /\ op' = [o EXCEPT !.pc = "returned", !.status = status]
    /\ queue' = rest

Call(r) ==
    /\ Idle /\ Len(queue) <= MaxQueue
    /\ LET o == [NoOp EXCEPT !.request = r, !.before = gdb.current,
                             !.knew = (queue = << >> /\ rt.current_inferior_id = gdb.current)]
       IN  \/ r.tool = "add" /\ Proceed(o, "add", "add", None, queue)
           \/ r.tool = "remove" /\ Proceed(o, "remove", "remove", r.id, queue)
           \/ r.tool = "select" /\ Proceed(o, "select", "inferior", r.id, queue)
           \/ r.tool = "list" /\ Proceed(o, "refresh", "info", None, queue)
           \/ r.tool \in {"follow", "detach"} /\ Proceed(o, "set", r.tool, None, queue)
    /\ UNCHANGED <<tools, gdb, next, heard, news, text, rt, told, strayed>>

Answered ==
    /\ op.pc = "returned"
    /\ op' = NoOp
    /\ UNCHANGED <<tools, gdb, next, queue, heard, news, text, rt, told, strayed>>

\* A failed inventory only costs select_inferior a warning.
Failed(o, rest) ==
    Return(o, IF o.pc = "refresh" /\ o.request.tool = "select" THEN "warning" ELSE "error", rest)

\* Broken variant for mutation: the selection is not restored.
AfterExecKeepsNew(o, rest) == Proceed(o, "refresh", "info", None, rest)

\* Once the new inferior has been given its program, or needs none.
AfterExec(o, rest) ==
    IF ~o.request.make_current /\ o.request.executable /\ o.previous \notin {None, o.id}
    THEN Proceed(o, "restore", "inferior", o.previous, rest)
    ELSE Proceed(o, "refresh", "info", None, rest)

AfterAdd(o, rest) ==
    IF o.request.executable \/ (o.request.make_current /\ o.previous # o.id)
    THEN Proceed(o, "select", "inferior", o.id, rest)
    ELSE AfterExec(o, rest)

\* The command has been answered without error; r is the runtime by then.
Succeeded(o, added, r, rest) ==
    \/ /\ o.pc = "add"
       /\ AfterAdd([o EXCEPT !.id = added, !.previous = r.current_inferior_id], rest)
       /\ rt' = EnsureInferior(r, added)
    \/ /\ o.pc = "select" /\ o.request.tool = "add"
       /\ IF o.request.executable THEN Proceed(o, "exec", "exec", None, rest)
                                  ELSE AfterExec(o, rest)
       /\ rt' = r
    \/ o.pc = "exec" /\ AfterExec(o, rest) /\ rt' = r
    \/ /\ o.pc \in {"restore", "remove"} \/ (o.pc = "select" /\ o.request.tool = "select")
       /\ Proceed(o, "refresh", "info", None, rest)
       /\ rt' = r
    \/ o.pc = "set" /\ Return(o, "success", rest) /\ rt' = r
    \/ /\ o.pc = "refresh"
       /\ LET p == Parsed(text, gdb.ids, gdb.current)
          IN  /\ Return([o EXCEPT !.count = p.count, !.current = p.current,
                                  !.noise = text # NoText], "success", rest)
              /\ rt' = Refreshed(r, p)

Abandon(q) == [i \in DOMAIN q |-> [q[i] EXCEPT !.mine = FALSE]]

\* Broken variant for mutation: a command given up has no effect.
AfterTimeoutNothing(r, c) == r

\* A command that times out is taken for executed.
AfterTimeout(r, c) == AfterCommand(r, c)

TimeOut ==
    /\ Waiting
    /\ LET c == queue[Len(queue)]
       IN  /\ rt' = AfterTimeout(heard, c)
           /\ told' = (told \/ c.name = "inferior")
           /\ strayed' = (strayed /\ c.name # "inferior")
    /\ AllRead
    /\ Failed(op, Abandon(queue))
    /\ UNCHANGED <<tools, gdb, next>>

-----------------------------------------------------------------------------
(* GDB executes the first command of the queue (external) *)

Refusable(c) ==
    \/ c.name = "inferior" /\ c.id \notin gdb.ids
    \/ c.name \in {"remove", "exec", "add"}

\* The answer to a refused command is not looked at any further: what was
\* read with it is lost, among it that the inferior of the note's thread is
\* gone.
Refuse ==
    /\ queue # << >> /\ Refusable(Head(queue))
    /\ UNCHANGED <<tools, gdb, next, rt>>
    /\ IF Head(queue).mine
       THEN /\ AllRead /\ Failed(op, Tail(queue))
            /\ strayed' = (strayed \/ heard.current_thread_id # rt.current_thread_id)
            /\ UNCHANGED told
       ELSE /\ queue' = Tail(queue)
            /\ told' = (told /\ Head(queue).name # "inferior")
            /\ UNCHANGED <<heard, news, text, op, strayed>>

\* What GDB may make of c.  It does not remove its last inferior; when the
\* current one is removed it goes to another of its own choice.
Effect(c) ==
    CASE c.name = "add" -> {[gdb EXCEPT !.ids = @ \cup {next}]}
      [] c.name = "remove" ->
            {[gdb EXCEPT !.ids = @ \ {c.id}, !.current = i] :
                i \in IF c.id = gdb.current THEN gdb.ids \ {c.id} ELSE {gdb.current}}
      [] c.name = "inferior" -> {[gdb EXCEPT !.current = c.id]}
      [] c.name = "follow" -> {[gdb EXCEPT !.follow = c.mode]}
      [] c.name = "detach" -> {[gdb EXCEPT !.detach = c.enabled]}
      [] c.name \in {"exec", "info"} -> {gdb}

\* The runtime once GDB's notifications have been read, those of c included.
Announced(c) ==
    CASE c.name = "add" -> EnsureInferior(heard, next)
      [] c.name = "remove" -> RemoveInferior(heard, c.id)
      [] OTHER -> heard

\* c takes away the inferior GDB is in.
RemovesCurrent(c) == c.name = "remove" /\ c.id = gdb.current

Execute ==
    /\ queue # << >>
    /\ UNCHANGED tools
    /\ LET c == Head(queue)
       IN  /\ c.name \in {"inferior", "remove"} => c.id \in gdb.ids
           /\ c.name = "add" => next \in Ids
           /\ gdb' \in Effect(c)
           /\ next' = IF c.name = "add" THEN next + 1 ELSE next
           /\ strayed' = IF RemovesCurrent(c)
                         THEN strayed \/ Announced(c).current_thread_id = c.id
                         ELSE strayed /\ ~(c.mine /\ c.name = "inferior")
           /\ IF c.mine
              THEN /\ Succeeded(op, next, AfterCommand(Announced(c), c), Tail(queue))
                   /\ AllRead
                   /\ told' = IF RemovesCurrent(c)
                              THEN rt'.current_inferior_id = gdb'.current
                              ELSE told \/ c.name \in {"inferior", "info"}
              ELSE /\ heard' = Announced(c)
                   /\ news' = (news \/ c.name \in {"add", "remove"})
                   /\ text' = IF c.name = "info"
                              THEN [ids |-> text.ids \cup gdb.ids,
                                    lines |-> text.lines + Cardinality(gdb.ids)]
                              ELSE text
                   /\ queue' = Tail(queue)
                   /\ told' = (told /\ ~RemovesCurrent(c))
                   /\ UNCHANGED <<rt, op>>

-----------------------------------------------------------------------------
Requests ==
    {r \in Request :
        /\ (r.id # None) = (r.tool \in {"remove", "select"})
        /\ (r.executable \/ r.make_current) => r.tool = "add"
        /\ r.mode = "child" => r.tool = "follow"
        /\ ~r.enabled => r.tool = "detach"}

Next ==
    \/ \E r \in Requests : r.tool \in tools /\ Call(r)
    \/ Answered \/ TimeOut \/ Execute \/ Refuse
    \/ \E i \in Ids : Stops(i) \/ RawThread(i)
    \/ Forks

Spec == Init /\ [][Next]_vars

-----------------------------------------------------------------------------
(* Properties *)

Quiet == Idle /\ queue = << >>

\* Whatever failed or was given up before: once GDB has executed its commands
\* the runtime's current inferior is GDB's, unless the program or a raw
\* command has moved GDB without a word, GDB has refused a selection that was
\* given up, or the current inferior was removed and nothing has said since
\* where GDB went: the runtime takes the least of those left, GDB the one it
\* likes, until an inventory, a selection or a stop tells.
CurrentIsKnown == (Quiet /\ told) => rt.current_inferior_id = gdb.current

\* The fork settings the status shows are GDB's, even after a command that
\* was given up: it is executed in the end.
ForkSettingsAreReal ==
    Quiet => rt.follow_fork_mode = gdb.follow /\ rt.detach_on_fork = gdb.detach

\* What the runtime recorded for a command (_update_runtime_after_command) is
\* what GDB did, also when the command was given up.
RuntimeKnowsGdb == CurrentIsKnown /\ ForkSettingsAreReal

\* A successful answer shows GDB's inferiors as they are, and so does the
\* runtime from then on, unless the text of an inventory given up earlier was
\* read with it.
InventoryIsTrue ==
    (op.status = "success" /\ op.request.tool \in {"add", "remove", "select", "list"} /\ ~op.noise)
        => /\ op.count = Cardinality(gdb.ids)
           /\ op.current = gdb.current
           /\ Tracked(rt) = gdb.ids
           /\ rt.inferior_count = op.count

\* "Whether to leave the new inferior selected after creation"
\* (mcp/schemas/inferior.py): a successful create with make_current ends in
\* the new inferior, one without in the inferior that was current before.
CreateKeepsSelection ==
    (op.request.tool = "add" /\ op.status = "success" /\ op.knew)
        => gdb.current = (IF op.request.make_current THEN op.id ELSE op.before)

\* The runtime's thread belongs to its inferior, unless a raw command has left
\* that thread, or its inferior was removed behind the runtime's back: the
\* notification was dropped with a refused command, or came while the runtime
\* took another inferior for the current one.
ThreadOfCurrent ==
    (Quiet /\ told /\ ~strayed) => rt.current_thread_id \in {None, rt.current_inferior_id}
=============================================================================
