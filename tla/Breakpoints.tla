----------------------------- MODULE Breakpoints -----------------------------
(***************************************************************************)
(* Breakpoints, watchpoints and catchpoints: session/breakpoints.py and    *)
(* mcp/handlers/breakpoint.py.                                             *)
(*                                                                         *)
(* GDB holds the table and the server keeps no copy: an operation is one   *)
(* to four commands, and what it answers is pieced together from their     *)
(* replies.  GDB reads its commands in order and, the program being in the *)
(* foreground, none while the program runs.  A command that is not answered*)
(* in time is given up but stays in the queue and is executed later.       *)
(* Replies carry the token of their command; console text does not, so the *)
(* wait for one command also collects what earlier ones have printed.      *)
(*                                                                         *)
(* Of the console text only the catchpoint number that the regular         *)
(* expression of the code finds first is kept.                             *)
(***************************************************************************)
EXTENDS Integers, Sequences, FiniteSets

CONSTANTS
    Locations,     \* code locations
    Uninsertable,  \* those where GDB cannot insert a breakpoint
    Expressions,   \* watch expressions
    Events,        \* events to catch
    Conditions,
    MaxNumber,     \* bound: breakpoints GDB creates
    MaxQueue,      \* bound: commands given up and not executed yet
    None

ASSUME BreakpointsAssumption ==
    /\ Uninsertable \subseteq Locations
    /\ MaxNumber \in Nat /\ MaxQueue \in Nat
    /\ None \notin Nat \cup Conditions \cup Locations \cup Expressions \cup Events

Creates == {"code", "watch", "catch"}
Tools   == Creates \cup {"list", "get", "delete", "enable", "disable", "update"}

Numbers == 1..MaxNumber
Places  == [code |-> Locations, watch |-> Expressions, catch |-> Events]
AllPlaces == Locations \cup Expressions \cup Events

Breakpoint == [kind : Creates, place : AllPlaces, condition : Conditions \cup {None},
               temporary : BOOLEAN, enabled : BOOLEAN]
Tables == UNION {[D -> Breakpoint] : D \in SUBSET Numbers}

\* What a call asks for.  A number may be that of no breakpoint.
Request == [tool : Tools, place : AllPlaces \cup {None}, condition : Conditions \cup {None},
            temporary : BOOLEAN, number : Numbers \cup {None}]
NoRequest == [tool |-> "list", place |-> None, condition |-> None, temporary |-> FALSE,
              number |-> None]

\* pc: the command waited for.  previous: the catchpoints before the call,
\* None if they could not be listed.  The answer: status, code, number and
\* breakpoint.  For the properties: the number GDB gave to a breakpoint made
\* by this call, and whether other text came with the reply.
Op == [request : Request,
       pc : {"idle", "before", "main", "after", "confirm", "attribute", "returned"},
       previous : (SUBSET Numbers) \cup {None}, blocked : SUBSET Numbers,
       status : {"none", "success", "error"},
       code : {"none", "error", "timeout", "not_found", "blocked", "unreported", "unconfirmed"},
       number : Numbers \cup {None}, breakpoint : Breakpoint \cup {None}, warned : BOOLEAN,
       made : Numbers \cup {None}, noise : BOOLEAN]

NoOp == [request |-> NoRequest, pc |-> "idle", previous |-> None, blocked |-> {},
         status |-> "none", code |-> "none", number |-> None, breakpoint |-> None,
         warned |-> FALSE, made |-> None, noise |-> FALSE]

VARIABLES
    table,     \* GDB's breakpoints by number (external)
    next,      \* the next number GDB gives (external)
    running,   \* the program runs (external)
    queue,     \* commands GDB has not executed; only the last may be waited for
    console,   \* the first catchpoint number in the text not read yet
    op         \* the tool call in progress

vars == <<table, next, running, queue, console, op>>

Command == [name : Tools, request : Request, mine : BOOLEAN]

TypeOK ==
    /\ table \in Tables
    /\ next \in 1..(MaxNumber + 1)
    /\ running \in BOOLEAN
    /\ queue \in Seq(Command)
    /\ console \in Numbers \cup {None}
    /\ op \in Op

Init ==
    /\ table = [n \in {} |-> None]
    /\ next = 1
    /\ running = FALSE
    /\ queue = << >>
    /\ console = None
    /\ op = NoOp

Idle == op.pc = "idle"
Waiting == op.pc \notin {"idle", "returned"}

First(a, b) == IF a # None THEN a ELSE b

-----------------------------------------------------------------------------
(* The program, and the client between two calls (external) *)

Resume ==
    /\ Idle /\ ~running /\ queue = << >>
    /\ running' = TRUE
    /\ UNCHANGED <<table, next, queue, console, op>>

Without(n) == [m \in DOMAIN table \ {n} |-> table[m]]

\* The program stops, at breakpoint n or for another reason.  A temporary
\* breakpoint is deleted, a catchpoint announces itself.
Stop(n) ==
    /\ running
    /\ n # None => n \in DOMAIN table /\ table[n].enabled
    /\ running' = FALSE
    /\ table' = IF n # None /\ table[n].temporary THEN Without(n) ELSE table
    /\ console' = IF n # None /\ table[n].kind = "catch" THEN First(console, n) ELSE console
    /\ UNCHANGED <<next, queue, op>>

\* Another tool call reads the text.
OtherReads ==
    /\ Idle /\ console # None
    /\ console' = None
    /\ UNCHANGED <<table, next, running, queue, op>>

-----------------------------------------------------------------------------
(* Sending and giving up a command *)

\* -break-list takes no arguments.
NewCommand(name, r) ==
    [name |-> name, request |-> IF name = "list" THEN NoRequest ELSE r, mine |-> TRUE]

Return(o, status, code) ==
    op' = [o EXCEPT !.pc = "returned", !.status = status, !.code = code]
Answer(o, n, rows) == Return([o EXCEPT !.number = n, !.breakpoint = rows[n]], "success", "none")

\* The next command of the call is sent with the reply to the one before.
Proceed(o, pc, name, rest) ==
    /\ op' = [o EXCEPT !.pc = pc]
    /\ queue' = Append(rest, NewCommand(name, o.request))
Done(rest) == queue' = rest

\* A catchpoint is preceded by an inventory; get is a search in the inventory.
Call(r) ==
    /\ Idle /\ Len(queue) <= MaxQueue
    /\ op' = [NoOp EXCEPT !.request = r, !.pc = IF r.tool = "catch" THEN "before" ELSE "main"]
    /\ queue' = Append(queue, NewCommand(IF r.tool \in {"catch", "get"} THEN "list" ELSE r.tool, r))
    /\ UNCHANGED <<table, next, running, console>>

Answered ==
    /\ op.pc = "returned"
    /\ op' = NoOp
    /\ UNCHANGED <<table, next, running, queue, console>>

-----------------------------------------------------------------------------
(* What the code makes of a reply.  `rows' is the table of a -break-list.  *)

Catchpoints(rows) == {n \in DOMAIN rows : rows[n].kind = "catch"}

Largest(s)  == IF s = {} THEN None ELSE CHOOSE n \in s : \A m \in s : m <= n
Smallest(s) == IF s = {} THEN None ELSE CHOOSE n \in s : \A m \in s : n <= m

\* Broken variant for mutation: the catchpoints of before the call count too.
InferAnyCatchpoint(previous, current) == Smallest(current)

\* _infer_new_catchpoint_number
InferNewCatchpoint(previous, current) ==
    IF previous = None THEN Largest(current) ELSE Largest(current \ previous)

\* _find_breakpoint_for_location: the first record with this location.
\* Catchpoints have none.
FindForLocation(rows, place) ==
    Smallest({n \in DOMAIN rows : rows[n].kind # "catch" /\ rows[n].place = place})

\* _attribute_insert_failure, once the inventory is there.
Attribute(o, rows) ==
    LET created == FindForLocation(rows, o.request.place)
    IN  IF created = None THEN Return(o, "error", "blocked")
        ELSE IF created \in o.blocked
        THEN Return([o EXCEPT !.number = created], "error", "blocked")
        ELSE Answer([o EXCEPT !.warned = TRUE], created, rows)

\* _breakpoint_info_for_number and get_breakpoint, likewise.
Confirm(o, n, rows, otherwise) ==
    IF n \in DOMAIN rows THEN Answer(o, n, rows)
                         ELSE Return([o EXCEPT !.number = n], "error", otherwise)

\* Every command but the inventories is answered by ok or an error, which
\* names the breakpoints that cannot be inserted.  `number' is that of a new
\* breakpoint, None if the reply does not give it.
MainReply(o, ok, number, blocked, rows, text, rest) ==
    LET r == o.request
    IN  CASE ~ok /\ r.tool = "code" /\ blocked # {} ->
                Proceed([o EXCEPT !.blocked = blocked], "attribute", "list", rest)
          [] ~ok /\ ~(r.tool = "code" /\ blocked # {}) -> Return(o, "error", "error") /\ Done(rest)
          [] ok /\ r.tool = "code" ->
                /\ IF number = None THEN Return(o, "error", "unreported") ELSE Answer(o, number, rows)
                /\ Done(rest)
          [] ok /\ r.tool = "watch" ->
                IF number = None THEN Return(o, "error", "unreported") /\ Done(rest)
                ELSE Proceed([o EXCEPT !.number = number], "confirm", "list", rest)
          [] ok /\ r.tool = "catch" ->
                IF text = None THEN Proceed(o, "after", "list", rest)
                ELSE Proceed([o EXCEPT !.number = text], "confirm", "list", rest)
          [] ok /\ r.tool = "update" ->
                Proceed([o EXCEPT !.number = r.number], "confirm", "list", rest)
          [] ok /\ r.tool = "get" -> Confirm(o, r.number, rows, "not_found") /\ Done(rest)
          [] ok /\ r.tool \in {"list", "delete", "enable", "disable"} ->
                Return(o, "success", "none") /\ Done(rest)

ListReply(o, rows, rest) ==
    CASE o.pc = "before" ->
            Proceed([o EXCEPT !.previous = Catchpoints(rows)], "main", "catch", rest)
      [] o.pc = "after" ->
            LET n == InferNewCatchpoint(o.previous, Catchpoints(rows))
            IN  IF n = None THEN Return(o, "error", "unreported") /\ Done(rest)
                ELSE Proceed([o EXCEPT !.number = n], "confirm", "list", rest)
      [] o.pc = "confirm" -> Confirm(o, o.number, rows, "unconfirmed") /\ Done(rest)
      [] o.pc = "attribute" -> Attribute(o, rows) /\ Done(rest)

\* The command is not answered in time.  Without an inventory a catchpoint is
\* made nevertheless, and a new one cannot be confirmed.
GiveUp(rest) ==
    CASE op.pc = "before" -> Proceed([op EXCEPT !.previous = None], "main", "catch", rest)
      [] op.pc = "main" -> Return(op, "error", "timeout") /\ Done(rest)
      [] op.pc = "after" -> Return(op, "error", "unreported") /\ Done(rest)
      [] op.pc = "confirm" -> Return(op, "error", "unconfirmed") /\ Done(rest)
      [] op.pc = "attribute" -> Return(op, "error", "blocked") /\ Done(rest)

\* Broken variant for mutation: a late reply is taken for the next one's.
AbandonTokenless(q) == q

\* The reply to a command given up bears an old token and is passed over.
Abandon(q) == [i \in DOMAIN q |-> [q[i] EXCEPT !.mine = FALSE]]

TimeOut ==
    /\ Waiting
    /\ GiveUp(Abandon(queue))
    /\ console' = None
    /\ UNCHANGED <<table, next, running>>

-----------------------------------------------------------------------------
(* GDB executes the first command of the queue (external) *)

NewBreakpoint(r) == [kind |-> r.tool, place |-> r.place, condition |-> r.condition,
                     temporary |-> r.temporary, enabled |-> TRUE]

With(n, b) == [m \in DOMAIN table \cup {n} |-> IF m = n THEN b ELSE table[m]]

Stuck(rows) == {n \in DOMAIN rows : rows[n].place \in Uninsertable /\ rows[n].enabled}

\* The command has left table t and console text `text' and is answered.
Reply(ok, number, blocked, t, text) ==
    LET c == Head(queue)
        heard == First(console, text)
        o == [op EXCEPT !.made = number, !.noise = console # None]
    IN  /\ table' = t
        /\ next' = IF number = None THEN next ELSE next + 1
        /\ UNCHANGED running
        /\ IF ~(c.mine /\ Waiting)
           THEN Done(Tail(queue)) /\ console' = heard /\ UNCHANGED op
           ELSE /\ console' = None
                /\ IF op.pc = "main"
                   THEN \E told \in {number, None} :
                           MainReply(o, ok, told, blocked, t, heard, Tail(queue))
                   ELSE ListReply(op, t, Tail(queue))

\* A creation: refused, done, or reported as failed because of breakpoints
\* that cannot be inserted, with or without the new one being kept.
ExecuteCreate(c) ==
    LET rows == With(next, NewBreakpoint(c.request))
    IN  \/ Reply(FALSE, None, {}, table, None)
        \/ Stuck(table) # {} /\ Reply(FALSE, None, Stuck(table), table, None)
        \/ /\ next <= MaxNumber
           /\ \E text \in IF c.name = "catch" THEN {next, None} ELSE {None} :
                 \/ Reply(TRUE, next, {}, rows, text)
                 \/ Stuck(rows) # {} /\ Reply(FALSE, next, Stuck(rows), rows, text)

\* A change, unless GDB refuses it.  Of a number it does not know only the
\* condition is an error: to delete, enable or disable it GDB prints a message
\* and answers ^done.
ExecuteChange(c) ==
    LET n == c.request.number
        changed == CASE c.name = "delete"  -> Without(n)
                     [] c.name = "enable"  -> With(n, [table[n] EXCEPT !.enabled = TRUE])
                     [] c.name = "disable" -> With(n, [table[n] EXCEPT !.enabled = FALSE])
                     [] c.name = "update"  ->
                           With(n, [table[n] EXCEPT !.condition = c.request.condition])
    IN  \/ n \in DOMAIN table /\ Reply(TRUE, None, {}, changed, None)
        \/ /\ n \notin DOMAIN table /\ c.name # "update"
           /\ Reply(TRUE, None, {}, table, None)
        \/ Reply(FALSE, None, {}, table, None)

Execute ==
    /\ queue # << >> /\ ~running
    /\ LET c == Head(queue)
       IN  CASE c.name \in Creates -> ExecuteCreate(c)
             [] c.name = "list" -> Reply(TRUE, None, {}, table, None)
             [] OTHER -> ExecuteChange(c)

-----------------------------------------------------------------------------
Requests ==
    {r \in Request :
        LET t == r.tool
        IN  /\ IF t \in Creates THEN r.place \in Places[t] ELSE r.place = None
            /\ t \notin {"code", "update"} => r.condition = None
            /\ t \notin {"code", "catch"} => ~r.temporary
            /\ (r.number = None) = (t \in Creates \cup {"list"})}

Next ==
    \/ \E r \in Requests : Call(r)
    \/ Answered \/ TimeOut \/ Execute
    \/ Resume \/ OtherReads
    \/ \E n \in DOMAIN table \cup {None} : Stop(n)

Spec == Init /\ [][Next]_vars

-----------------------------------------------------------------------------
(* Properties *)

Succeeded(tools) == op.status = "success" /\ op.request.tool \in tools

\* A successful create answers with a breakpoint that this very call has made,
\* never with one that was there before (TOOLS.md: "re-reads the inventory and,
\* if the new breakpoint was created, returns success").
CreateNamesItsOwn == Succeeded(Creates) => op.number = op.made

\* Another breakpoint has the location that was asked for.
Duplicate ==
    /\ op.warned
    /\ \E n \in DOMAIN table : n # op.made /\ table[n].place = op.request.place

\* CreateNamesItsOwn holds but for two cases: a second breakpoint at the
\* location when the answer is attributed after an insert failure, and text
\* about another catchpoint that is read with the reply.  In particular the
\* inventories before and after a catchpoint find it even if the first of
\* them was given up.
MostlyNamesItsOwn ==
    Duplicate \/ (op.noise /\ op.request.tool = "catch") \/ CreateNamesItsOwn

\* What a call reports as done is in GDB's table when it returns, whatever
\* earlier calls were given up before, and it stays: none of their commands
\* is still to be executed.  A breakpoint the answer shows is in the table as
\* shown.  A success of delete, enable or disable does not say that there was
\* a breakpoint with that number, for the code takes all but ^error for one;
\* if there is one, it is as asked.
SuccessIsFinal ==
    LET r == op.request
    IN  op.status = "success" =>
            /\ queue = << >>
            /\ op.number # None =>
                  op.number \in DOMAIN table /\ op.breakpoint = table[op.number]
            /\ r.tool = "delete" => r.number \notin DOMAIN table
            /\ r.tool = "enable" /\ r.number \in DOMAIN table => table[r.number].enabled
            /\ r.tool = "disable" /\ r.number \in DOMAIN table => ~table[r.number].enabled
            /\ r.tool = "update" =>
                  r.number \in DOMAIN table /\ table[r.number].condition = r.condition
            /\ r.tool \in Creates /\ op.number = op.made =>
                  op.breakpoint = NewBreakpoint(r)
=============================================================================
