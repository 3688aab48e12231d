-------------------------- MODULE BreakpointsProofs --------------------------
(***************************************************************************)
(* The theorems about Breakpoints: what a call reports as done is done and *)
(* stays done, and a create answers with the breakpoint it made, but for   *)
(* the two exceptions, for every number of breakpoints, of commands given  *)
(* up, of locations, expressions and events.                               *)
(*                                                                         *)
(* The argument is about the queue.  The command a call waits for is the   *)
(* last one, so its reply finds the queue empty, and whatever was given up *)
(* before has been executed.  From the reply to the main command on, the   *)
(* program is stopped and the queue holds nothing but the inventory of the *)
(* call: the breakpoint made has the highest number and is as asked.       *)
(***************************************************************************)
EXTENDS Breakpoints, WellFoundedInduction, TLAPS

-----------------------------------------------------------------------------
(* The inductive invariant *)

\* The steps of a call after its main command.
Late == {"after", "confirm", "attribute"}

\* The command a call waits for.
Awaited == NewCommand(IF op.pc = "main" /\ op.request.tool # "get" THEN op.request.tool ELSE "list",
                      op.request)

\* GDB numbers its breakpoints upwards.
NumberInv == \A n \in DOMAIN table : n < next

\* What is in the queue can be executed; only the last command is waited for.
QueueInv ==
    /\ op.request \in Requests
    /\ \A i \in DOMAIN queue :
          /\ queue[i].request \in Requests
          /\ queue[i].name # "get"
          /\ queue[i].name # "list" => queue[i].name = queue[i].request.tool
          /\ queue[i].mine => Waiting /\ i = Len(queue)
    /\ Waiting => queue # << >> /\ queue[Len(queue)] = Awaited
    /\ op.pc \in Late => Len(queue) = 1 /\ ~running

\* The breakpoint made by a call is the newest one, and as asked for.
MadeInv ==
    op.pc \in Late /\ op.made # None =>
        /\ op.made = next - 1
        /\ op.made \in DOMAIN table
        /\ table[op.made] = NewBreakpoint(op.request)

\* What a call knows at each of its steps.
CallInv ==
    /\ op.status # "none" => op.pc = "returned"
    /\ op.pc \in {"before", "main", "attribute", "after"} => op.number = None
    /\ op.pc \in {"before", "after"} => op.request.tool = "catch"
    /\ op.pc = "attribute" => op.request.tool = "code"
    /\ op.pc = "main" /\ op.previous # None => \A p \in op.previous : p < next
    /\ op.pc = "after" => op.made # None /\ (op.previous # None => op.made \notin op.previous)
    /\ op.pc = "confirm" =>
          /\ op.request.tool \in {"watch", "catch", "update"}
          /\ op.number # None
          /\ op.request.tool = "watch" => op.number = op.made
          /\ op.request.tool = "catch" => op.noise \/ op.number = op.made
          /\ op.request.tool = "update" =>
                /\ op.number = op.request.number
                /\ op.number \in DOMAIN table
                /\ table[op.number].condition = op.request.condition

\* A success is final because nothing is left to execute and the program,
\* which could delete a temporary breakpoint, is stopped.
DoneInv ==
    /\ SuccessIsFinal
    /\ MostlyNamesItsOwn
    /\ op.status = "success" => ~running

IInv == TypeOK /\ NumberInv /\ QueueInv /\ MadeInv /\ CallInv /\ DoneInv

-----------------------------------------------------------------------------
(* Tables, numbers and queues *)

\* A table is a function from some numbers to breakpoints.
LEMMA TableIs ==
    ASSUME NEW t
    PROVE  t \in Tables <=> t \in [DOMAIN t -> Breakpoint] /\ DOMAIN t \subseteq Numbers
BY DEF Tables

\* What deleting and writing a breakpoint leave.
LEMMA WithoutIs ==
    ASSUME NEW n, table \in Tables
    PROVE  /\ Without(n) \in Tables
           /\ DOMAIN Without(n) = DOMAIN table \ {n}
           /\ \A m \in DOMAIN table \ {n} : Without(n)[m] = table[m]
<1>1. table \in [DOMAIN table -> Breakpoint] /\ DOMAIN table \subseteq Numbers
  BY TableIs
<1>2. Without(n) \in [DOMAIN table \ {n} -> Breakpoint]
  BY <1>1 DEF Without
<1>3. DOMAIN Without(n) = DOMAIN table \ {n}
  BY DEF Without
<1>4. Without(n) \in Tables
  BY <1>1, <1>2, <1>3, TableIs
<1> QED
  BY <1>3, <1>4 DEF Without

LEMMA WithIs ==
    ASSUME NEW n \in Numbers, NEW b \in Breakpoint, table \in Tables
    PROVE  /\ With(n, b) \in Tables
           /\ DOMAIN With(n, b) = DOMAIN table \cup {n}
           /\ With(n, b)[n] = b
           /\ \A m \in DOMAIN table \ {n} : With(n, b)[m] = table[m]
<1>1. table \in [DOMAIN table -> Breakpoint] /\ DOMAIN table \subseteq Numbers
  BY TableIs
<1>2. With(n, b) \in [DOMAIN table \cup {n} -> Breakpoint]
  BY <1>1 DEF With
<1>3. DOMAIN With(n, b) = DOMAIN table \cup {n}
  BY DEF With
<1>4. With(n, b) \in Tables
  BY <1>1, <1>2, <1>3, TableIs
<1> QED
  BY <1>3, <1>4 DEF With

\* The largest of some numbers is the one that none exceeds.
LEMMA LargestIs ==
    ASSUME NEW s \in SUBSET Nat, NEW m \in s, \A k \in s : k <= m
    PROVE  Largest(s) = m
<1>1. \A n \in s : (\A k \in s : k <= n) => n = m
  OBVIOUS
<1>2. s # {}
  OBVIOUS
<1> QED
  BY <1>1, <1>2 DEF Largest

\* The smallest of some numbers is one of them.
LEMMA SmallestIs ==
    ASSUME NEW s \in SUBSET Nat, Smallest(s) # None
    PROVE  Smallest(s) \in s
<1>1. s # {}
  BY DEF Smallest
<1> DEFINE R == OpToRel(<, Nat)
<1>2. \A m, n \in Nat : m < n => <<m, n>> \in R
  BY DEF OpToRel
<1>3. IsWellFoundedOn(R, Nat)
  BY NatLessThanWellFounded
<1> HIDE DEF R
<1>4. PICK n \in s : \A m \in s : ~ (<<m, n>> \in R)
  BY <1>1, <1>3, WFMin
<1>5. ASSUME NEW m \in s PROVE n <= m
  <2>1. m \in Nat /\ n \in Nat
    OBVIOUS
  <2>2. ~ (m < n)
    BY <1>2, <1>4, <2>1, Zenon
  <2> QED
    BY <2>1, <2>2
<1> QED
  BY <1>1, <1>5 DEF Smallest

\* A command that is sent goes to the end of the queue.
LEMMA AppendIs ==
    ASSUME NEW S, NEW q \in Seq(S), NEW e \in S
    PROVE  /\ Append(q, e) \in Seq(S)
           /\ Len(Append(q, e)) = Len(q) + 1
           /\ Append(q, e) # << >>
           /\ Append(q, e)[Len(q) + 1] = e
           /\ DOMAIN Append(q, e) = DOMAIN q \cup {Len(q) + 1}
           /\ \A i \in DOMAIN q : Append(q, e)[i] = q[i] /\ i \in 1..Len(q)
OBVIOUS

\* A command that is executed leaves the queue.
LEMMA TailIs ==
    ASSUME NEW S, NEW q \in Seq(S), q # << >>
    PROVE  /\ Head(q) = q[1] /\ Head(q) \in S /\ 1 \in DOMAIN q
           /\ Tail(q) \in Seq(S)
           /\ Len(Tail(q)) = Len(q) - 1
           /\ \A i \in DOMAIN Tail(q) : i + 1 \in DOMAIN q /\ Tail(q)[i] = q[i + 1]
           /\ Len(q) = 1 => Tail(q) = << >>
<1>1. Len(q) \in Nat \ {0} /\ DOMAIN q = 1..Len(q) /\ q[1] \in S /\ Head(q) = q[1]
  OBVIOUS
<1>2. Tail(q) \in Seq(S) /\ Len(Tail(q)) = Len(q) - 1
  OBVIOUS
<1>3. \A i \in 1..(Len(q) - 1) : Tail(q)[i] = q[i + 1]
  BY <1>1
<1>4. DOMAIN Tail(q) = 1..(Len(q) - 1)
  BY <1>2
<1>5. Len(q) = 1 => Tail(q) = << >>
  <2>1. PICK t \in Seq(S) : t = Tail(q)
    BY <1>2
  <2>2. Len(t) = 0 => t = << >>
    OBVIOUS
  <2>3. Len(q) = 1 => Len(t) = 0
    BY <1>2, <2>1
  <2> QED
    BY <2>1, <2>2, <2>3, Zenon
<1> QED
  BY <1>1, <1>2, <1>3, <1>4, <1>5

\* A queue of commands that are no longer waited for.
LEMMA AbandonIs ==
    ASSUME NEW q \in Seq(Command)
    PROVE  /\ Abandon(q) \in Seq(Command)
           /\ Len(Abandon(q)) = Len(q)
           /\ DOMAIN Abandon(q) = DOMAIN q
           /\ \A i \in DOMAIN q : /\ Abandon(q)[i].name = q[i].name
                                  /\ Abandon(q)[i].request = q[i].request
                                  /\ ~Abandon(q)[i].mine
<1>1. \A i \in 1..Len(q) : q[i] \in Command
  OBVIOUS
<1>2. \A c \in Command : /\ [c EXCEPT !.mine = FALSE] \in Command
                         /\ [c EXCEPT !.mine = FALSE].name = c.name
                         /\ [c EXCEPT !.mine = FALSE].request = c.request
                         /\ [c EXCEPT !.mine = FALSE].mine = FALSE
  BY DEF Command
<1>3. DOMAIN q = 1..Len(q) /\ Len(q) \in Nat
  OBVIOUS
<1>4. Abandon(q) = [i \in 1..Len(q) |-> [q[i] EXCEPT !.mine = FALSE]]
  BY <1>3 DEF Abandon
<1>5. \A i \in 1..Len(q) : Abandon(q)[i] = [q[i] EXCEPT !.mine = FALSE]
  BY <1>4
<1>6. Abandon(q) \in Seq(Command)
  BY <1>1, <1>2, <1>3, <1>4
<1>7. Len(Abandon(q)) = Len(q) /\ DOMAIN Abandon(q) = DOMAIN q
  BY <1>3, <1>4
<1>8. ASSUME NEW i \in DOMAIN q
      PROVE  /\ Abandon(q)[i].name = q[i].name
             /\ Abandon(q)[i].request = q[i].request
             /\ ~Abandon(q)[i].mine
  <2>1. q[i] \in Command /\ Abandon(q)[i] = [q[i] EXCEPT !.mine = FALSE]
    BY <1>1, <1>3, <1>5
  <2> QED
    BY <1>2, <2>1
<1> QED
  BY <1>6, <1>7, <1>8

\* What is asked for: requests, and the commands made of them.
LEMMA RequestIs ==
    /\ NoRequest \in Requests
    /\ \A r \in Requests :
          /\ r \in Request
          /\ r.tool \in Creates => r.place \in AllPlaces /\ r.number = None
          /\ r.tool \in {"get", "delete", "enable", "disable", "update"} => r.number \in Numbers
<1>1. NoRequest \in Request
  BY DEF NoRequest, Request, Tools, Creates
<1>2. NoRequest \in Requests
  BY <1>1 DEF NoRequest, Requests, Creates
<1>3. ASSUME NEW r \in Requests
      PROVE  /\ r \in Request
             /\ r.tool \in Creates => r.place \in AllPlaces /\ r.number = None
             /\ r.tool \in {"get", "delete", "enable", "disable", "update"} => r.number \in Numbers
  BY DEF Requests, Request, Places, AllPlaces, Creates, Tools
<1> QED
  BY <1>2, <1>3

LEMMA CommandIs ==
    ASSUME NEW name \in Tools, NEW r \in Requests
    PROVE  /\ NewCommand(name, r) \in Command
           /\ NewCommand(name, r).name = name
           /\ NewCommand(name, r).mine
           /\ NewCommand(name, r).request \in Requests
           /\ name # "list" => NewCommand(name, r).request = r
BY RequestIs DEF NewCommand, Command

\* A new breakpoint is as asked for.
LEMMA NewIs ==
    ASSUME NEW r \in Requests, r.tool \in Creates
    PROVE  NewBreakpoint(r) \in Breakpoint
BY RequestIs DEF NewBreakpoint, Breakpoint, Request

-----------------------------------------------------------------------------
(* Steps of a call: what a return and a further command leave *)

Statuses == {"none", "success", "error"}
Codes == {"none", "error", "timeout", "not_found", "blocked", "unreported", "unconfirmed"}
Steps == {"idle", "before", "main", "after", "confirm", "attribute", "returned"}

\* What is noted of a reply, and what a return leaves of a call.
LEMMA HearIs ==
    ASSUME NEW o \in Op, NEW number \in Numbers \cup {None}, NEW noise \in BOOLEAN
    PROVE  [o EXCEPT !.made = number, !.noise = noise] \in Op
BY DEF Op

LEMMA ReturnIs ==
    ASSUME NEW o \in Op, NEW status \in Statuses, NEW code \in Codes, Return(o, status, code)
    PROVE  /\ op' \in Op /\ op'.pc = "returned" /\ op'.status = status
           /\ op'.request = o.request /\ op'.number = o.number /\ op'.made = o.made
           /\ op'.noise = o.noise /\ op'.breakpoint = o.breakpoint /\ op'.warned = o.warned
BY DEF Op, Return, Statuses, Codes

LEMMA AnswerIs ==
    ASSUME NEW o \in Op, NEW rows \in Tables, NEW n \in DOMAIN rows, Answer(o, n, rows)
    PROVE  /\ op' \in Op /\ op'.pc = "returned" /\ op'.status = "success"
           /\ op'.request = o.request /\ op'.number = n /\ op'.made = o.made
           /\ op'.noise = o.noise /\ op'.breakpoint = rows[n] /\ op'.warned = o.warned
<1> DEFINE e == [o EXCEPT !.number = n, !.breakpoint = rows[n]]
<1>1. n \in Numbers /\ rows[n] \in Breakpoint
  BY TableIs
<1>2. /\ e \in Op /\ e.request = o.request /\ e.number = n /\ e.made = o.made
      /\ e.noise = o.noise /\ e.breakpoint = rows[n] /\ e.warned = o.warned
  BY <1>1 DEF Op
<1>3. Return(e, "success", "none")
  BY DEF Answer
<1> HIDE DEF e
<1> QED
  BY <1>2, <1>3, ReturnIs DEF Statuses, Codes

LEMMA ProceedIs ==
    ASSUME NEW o \in Op, NEW pc \in Steps, NEW name, NEW rest, Proceed(o, pc, name, rest)
    PROVE  /\ op' \in Op /\ op'.pc = pc /\ op'.status = o.status
           /\ op'.request = o.request /\ op'.number = o.number /\ op'.made = o.made
           /\ op'.noise = o.noise /\ op'.previous = o.previous
           /\ queue' = Append(rest, NewCommand(name, o.request))
BY DEF Op, Proceed, Steps

\* Commands that nobody waits for.
GivenUp(q) ==
    /\ q \in Seq(Command)
    /\ \A i \in DOMAIN q : /\ q[i].request \in Requests
                           /\ q[i].name # "get"
                           /\ q[i].name # "list" => q[i].name = q[i].request.tool
                           /\ ~q[i].mine

LEMMA NothingGivenUp == GivenUp(<< >>)
BY DEF GivenUp

LEMMA AbandonGivesUp ==
    ASSUME TypeOK, QueueInv
    PROVE  GivenUp(Abandon(queue))
<1>1. queue \in Seq(Command)
  BY DEF TypeOK
<1> QED
  BY <1>1, AbandonIs DEF GivenUp, QueueInv

\* No command is waited for between calls.
LEMMA IdleGivesUp ==
    ASSUME TypeOK, QueueInv, ~Waiting
    PROVE  GivenUp(queue)
BY DEF GivenUp, QueueInv, TypeOK

\* A call that sends a command waits for it.
LEMMA SendKeepsQueue ==
    ASSUME NEW q, GivenUp(q), NEW name \in Tools, NEW r \in Requests,
           name # "get", name \in {"list", r.tool},
           queue' = Append(q, NewCommand(name, r)),
           op'.request = r, Waiting', NewCommand(name, r) = Awaited',
           op'.pc \in Late => q = << >> /\ ~running'
    PROVE  queue' \in Seq(Command) /\ QueueInv'
<1> DEFINE c == NewCommand(name, r)
<1>1. /\ c \in Command /\ c.name = name /\ c.mine /\ c.request \in Requests
      /\ name # "list" => c.request = r
  BY CommandIs
<1>2. q \in Seq(Command)
  BY DEF GivenUp
<1> HIDE DEF c
<1>3. queue' = Append(q, c)
  BY DEF c
<1>4. /\ queue' \in Seq(Command) /\ Len(queue') = Len(q) + 1 /\ queue' # << >>
      /\ queue'[Len(q) + 1] = c /\ DOMAIN queue' = DOMAIN q \cup {Len(q) + 1}
      /\ \A i \in DOMAIN q : queue'[i] = q[i] /\ i \in 1..Len(q)
  BY <1>1, <1>2, <1>3, AppendIs
<1>5. ASSUME NEW i \in DOMAIN queue'
      PROVE  /\ queue'[i].request \in Requests
             /\ queue'[i].name # "get"
             /\ queue'[i].name # "list" => queue'[i].name = queue'[i].request.tool
             /\ queue'[i].mine => Waiting' /\ i = Len(queue')
  <2>1. CASE i \in DOMAIN q
    BY <1>4, <2>1 DEF GivenUp
  <2>2. CASE i = Len(q) + 1
    BY <1>1, <1>4, <2>2
  <2> QED
    BY <1>4, <2>1, <2>2
<1>6. queue'[Len(queue')] = Awaited'
  BY <1>4 DEF c
<1>7. op'.pc \in Late => Len(queue') = 1 /\ ~running'
  <2>1. q = << >> => Len(q) = 0
    OBVIOUS
  <2> QED
    BY <1>4, <2>1
<1> QED
  BY <1>4, <1>5, <1>6, <1>7 DEF QueueInv

\* A call that has returned waits for nothing.
LEMMA ReturnKeepsQueue ==
    ASSUME GivenUp(queue'), op'.request \in Requests, ~Waiting', op'.pc \notin Late
    PROVE  queue' \in Seq(Command) /\ QueueInv'
BY DEF GivenUp, QueueInv

\* What GDB, the clock and the program leave of a state.
Around ==
    /\ table' \in Tables
    /\ next' \in 1..(MaxNumber + 1)
    /\ running' \in BOOLEAN
    /\ console' \in Numbers \cup {None}
    /\ NumberInv'

\* A call that returns an error ends with nothing to show.
LEMMA ErrorKeeps ==
    ASSUME Around, NEW o \in Op, o.request \in Requests, NEW code \in Codes,
           Return(o, "error", code), GivenUp(queue')
    PROVE  IInv'
<1>1. /\ op' \in Op /\ op'.pc = "returned" /\ op'.status = "error"
      /\ op'.request = o.request
  BY ReturnIs DEF Statuses
<1>2. ~Waiting' /\ op'.pc \notin Late
  BY <1>1 DEF Waiting, Late
<1>3. queue' \in Seq(Command) /\ QueueInv'
  BY <1>1, <1>2, ReturnKeepsQueue
<1>4. TypeOK' /\ NumberInv'
  BY <1>1, <1>3 DEF Around, TypeOK
<1>5. MadeInv' /\ CallInv'
  BY <1>1 DEF MadeInv, CallInv, Late
<1>6. DoneInv'
  BY <1>1 DEF DoneInv, SuccessIsFinal, MostlyNamesItsOwn, CreateNamesItsOwn, Succeeded
<1> QED
  BY <1>3, <1>4, <1>5, <1>6 DEF IInv

\* A call that returns with success.
LEMMA SuccessKeeps ==
    ASSUME Around, ~running', op' \in Op, op'.request \in Requests, op'.pc = "returned",
           queue' = << >>, SuccessIsFinal', MostlyNamesItsOwn'
    PROVE  IInv'
<1>2. ~Waiting' /\ op'.pc \notin Late
  BY DEF Waiting, Late
<1>3. queue' \in Seq(Command) /\ QueueInv'
  BY <1>2, NothingGivenUp, ReturnKeepsQueue
<1>4. TypeOK' /\ NumberInv'
  BY <1>3 DEF Around, TypeOK
<1>5. MadeInv' /\ CallInv'
  BY DEF MadeInv, CallInv, Late
<1>6. DoneInv'
  BY DEF DoneInv
<1> QED
  BY <1>3, <1>4, <1>5, <1>6 DEF IInv

\* A call that goes on with another command.
LEMMA ContinueKeeps ==
    ASSUME Around, NEW o \in Op, o.request \in Requests, o.status = "none",
           NEW pc \in {"before", "main"} \cup Late, NEW name \in Tools, NEW q, GivenUp(q),
           Proceed(o, pc, name, q),
           name = IF pc = "main" /\ o.request.tool # "get" THEN o.request.tool ELSE "list",
           pc \in Late => q = << >> /\ ~running',
           MadeInv', CallInv'
    PROVE  IInv'
<1>1. pc \in Steps
  BY DEF Late, Steps
<1>2. /\ op' \in Op /\ op'.pc = pc /\ op'.status = "none" /\ op'.request = o.request
      /\ queue' = Append(q, NewCommand(name, o.request))
  BY <1>1, ProceedIs
<1>3. Waiting'
  BY <1>2 DEF Waiting, Late
<1>4. NewCommand(name, o.request) = Awaited'
  BY <1>2 DEF Awaited
<1>5. name # "get" /\ name \in {"list", o.request.tool}
  OBVIOUS
<1>6. queue' \in Seq(Command) /\ QueueInv'
  BY <1>2, <1>3, <1>4, <1>5, SendKeepsQueue
<1>7. TypeOK' /\ NumberInv'
  BY <1>2, <1>6 DEF Around, TypeOK
<1>8. DoneInv'
  BY <1>2 DEF DoneInv, SuccessIsFinal, MostlyNamesItsOwn, CreateNamesItsOwn, Succeeded
<1> QED
  BY <1>6, <1>7, <1>8 DEF IInv

-----------------------------------------------------------------------------
(* The steps other than an execution *)

\* Between calls nothing is known.
LEMMA NoOpIs ==
    /\ NoOp \in Op /\ NoOp.pc = "idle" /\ NoOp.status = "none" /\ NoOp.request = NoRequest
    /\ NoOp.number = None /\ NoOp.previous = None
<1>1. NoRequest \in Request
  BY RequestIs
<1>2. /\ NoOp.pc = "idle" /\ NoOp.status = "none" /\ NoOp.request = NoRequest
      /\ NoOp.number = None /\ NoOp.previous = None
  BY DEF NoOp
<1>3. /\ {} \in SUBSET Numbers /\ None \in (SUBSET Numbers) \cup {None}
      /\ None \in Numbers \cup {None} /\ None \in Breakpoint \cup {None}
  OBVIOUS
<1>4. NoOp \in Op
  BY <1>1, <1>3 DEF NoOp, Op
<1> QED
  BY <1>2, <1>4

LEMMA InitKeeps == Init => IInv
<1> SUFFICES ASSUME Init PROVE IInv
  OBVIOUS
<1>1. op = NoOp /\ queue = << >> /\ op.pc = "idle" /\ op.status = "none" /\ op.request = NoRequest
  BY NoOpIs DEF Init
<1>2. op \in Op
  BY <1>1, NoOpIs
<1>3. TypeOK
  <2>1. table \in Tables
    <3>1. table \in [{} -> Breakpoint] /\ DOMAIN table = {}
      BY DEF Init
    <3> QED
      BY <3>1, TableIs
  <2>2. next \in 1..(MaxNumber + 1)
    BY BreakpointsAssumption DEF Init
  <2>3. running \in BOOLEAN /\ console \in Numbers \cup {None}
    BY DEF Init
  <2>4. queue \in Seq(Command)
    BY <1>1
  <2> QED
    BY <1>2, <2>1, <2>2, <2>3, <2>4 DEF TypeOK
<1>4. NumberInv
  BY DEF Init, NumberInv
<1>5. QueueInv
  BY <1>1, RequestIs DEF QueueInv, Waiting, Late
<1>6. MadeInv /\ CallInv
  BY <1>1 DEF MadeInv, CallInv, Late
<1>7. DoneInv
  BY <1>1 DEF DoneInv, SuccessIsFinal, MostlyNamesItsOwn, CreateNamesItsOwn, Succeeded
<1> QED
  BY <1>3, <1>4, <1>5, <1>6, <1>7 DEF IInv

LEMMA StutterKeeps == IInv /\ UNCHANGED vars => IInv'
BY DEF IInv, vars, TypeOK, NumberInv, QueueInv, MadeInv, CallInv, DoneInv, Waiting, Awaited,
       SuccessIsFinal, MostlyNamesItsOwn, CreateNamesItsOwn, Succeeded, Duplicate

\* Between calls the program is resumed, and the text is read by others.
LEMMA ResumeKeeps == IInv /\ Resume => IInv'
<1> SUFFICES ASSUME IInv, Resume PROVE IInv'
  OBVIOUS
<1>1. /\ UNCHANGED <<table, next, queue, console, op>> /\ running' = TRUE
      /\ op.pc = "idle"
  BY DEF Resume, Idle
<1>2. TypeOK' /\ NumberInv' /\ MadeInv'
  BY <1>1 DEF IInv, TypeOK, NumberInv, MadeInv
<1>3. QueueInv'
  BY <1>1 DEF IInv, QueueInv, Waiting, Awaited, Late
<1>4. CallInv'
  BY <1>1 DEF IInv, CallInv
<1>5. DoneInv'
  <2>1. op.status = "none"
    BY <1>1 DEF IInv, TypeOK, Op, CallInv
  <2> QED
    BY <1>1, <2>1 DEF DoneInv, SuccessIsFinal, MostlyNamesItsOwn, CreateNamesItsOwn, Succeeded
<1> QED
  BY <1>2, <1>3, <1>4, <1>5 DEF IInv

LEMMA OtherReadsKeeps == IInv /\ OtherReads => IInv'
<1> SUFFICES ASSUME IInv, OtherReads PROVE IInv'
  OBVIOUS
<1>1. UNCHANGED <<table, next, running, queue, op>> /\ console' = None
  BY DEF OtherReads
<1>2. TypeOK'
  BY <1>1 DEF IInv, TypeOK
<1> QED
  BY <1>1, <1>2 DEF IInv, NumberInv, QueueInv, MadeInv, CallInv, DoneInv, Waiting, Awaited,
       SuccessIsFinal, MostlyNamesItsOwn, CreateNamesItsOwn, Succeeded, Duplicate

\* A stop deletes a temporary breakpoint, but not while a call is between its
\* main command and its answer.
LEMMA StopKeeps ==
    ASSUME IInv, NEW n \in DOMAIN table \cup {None}, Stop(n)
    PROVE  IInv'
<1>1. /\ running /\ running' = FALSE /\ UNCHANGED <<next, queue, op>>
      /\ table' \in {Without(n), table}
      /\ console' \in {console, First(console, n)}
  BY DEF Stop
<1>2. table \in Tables /\ running \in BOOLEAN /\ console \in Numbers \cup {None}
  BY DEF IInv, TypeOK
<1>3. table' \in Tables /\ DOMAIN table' \subseteq DOMAIN table
  BY <1>1, <1>2, WithoutIs
<1>4. n \in Numbers \cup {None}
  BY <1>2, TableIs
<1>5. TypeOK'
  BY <1>1, <1>2, <1>3, <1>4 DEF IInv, TypeOK, First
<1>6. NumberInv'
  BY <1>1, <1>3 DEF IInv, NumberInv
<1>7. op.pc \notin Late /\ op.status # "success"
  BY <1>1 DEF IInv, QueueInv, DoneInv
<1>8. QueueInv'
  BY <1>1, <1>7 DEF IInv, QueueInv, Waiting, Awaited
<1>9. MadeInv' /\ CallInv'
  BY <1>1, <1>7 DEF IInv, MadeInv, CallInv, Late
<1>10. DoneInv'
  BY <1>1, <1>7 DEF DoneInv, SuccessIsFinal, MostlyNamesItsOwn, CreateNamesItsOwn, Succeeded
<1> QED
  BY <1>5, <1>6, <1>8, <1>9, <1>10 DEF IInv

LEMMA AroundSame ==
    ASSUME IInv, UNCHANGED <<table, next, running>>, console' \in {console, None}
    PROVE  Around
BY DEF IInv, TypeOK, NumberInv, Around

\* A call begins with nothing known.
LEMMA CallKeeps ==
    ASSUME IInv, NEW r \in Requests, Call(r)
    PROVE  IInv'
<1> DEFINE pc == IF r.tool = "catch" THEN "before" ELSE "main"
           name == IF r.tool \in {"catch", "get"} THEN "list" ELSE r.tool
           o == [NoOp EXCEPT !.request = r]
<1>1. r \in Request /\ r.tool \in Tools
  BY RequestIs DEF Request
<1>2. /\ o \in Op /\ o.request = r /\ o.status = "none" /\ o.number = None /\ o.previous = None
  <2>1. PICK e \in Op : e = NoOp
    BY NoOpIs
  <2>2. /\ [e EXCEPT !.request = r] \in Op /\ [e EXCEPT !.request = r].request = r
        /\ [e EXCEPT !.request = r].status = e.status /\ [e EXCEPT !.request = r].number = e.number
        /\ [e EXCEPT !.request = r].previous = e.previous
    BY <1>1 DEF Op
  <2> QED
    BY <2>1, <2>2, NoOpIs
<1>3. Proceed(o, pc, name, queue)
  BY DEF Call, Proceed, NoOp
<1>4. Around
  BY AroundSame DEF Call
<1>5. GivenUp(queue)
  BY IdleGivesUp DEF IInv, Call, Idle, Waiting
<1>6. pc \in {"before", "main"} /\ name \in Tools /\ pc \in Steps
  BY <1>1 DEF Tools, Creates, Steps
<1>7. name = IF pc = "main" /\ o.request.tool # "get" THEN o.request.tool ELSE "list"
  BY <1>2
<1>8. pc \notin Late
  BY DEF Late
<1>9. pc = "before" => r.tool = "catch"
  OBVIOUS
<1> HIDE DEF o, pc, name
<1>10. /\ op'.pc = pc /\ op'.status = "none" /\ op'.request = r /\ op'.number = None
       /\ op'.previous = None
  BY <1>2, <1>3, <1>6, ProceedIs
<1>11. MadeInv' /\ CallInv'
  BY <1>6, <1>8, <1>9, <1>10 DEF MadeInv, CallInv, Late
<1> QED
  BY <1>2, <1>3, <1>4, <1>5, <1>6, <1>7, <1>8, <1>11, ContinueKeeps

LEMMA AnsweredKeeps == IInv /\ Answered => IInv'
<1> SUFFICES ASSUME IInv, Answered PROVE IInv'
  OBVIOUS
<1>1. /\ op.pc = "returned" /\ op' = NoOp /\ UNCHANGED <<table, next, running, queue, console>>
  BY DEF Answered
<1>2. /\ NoOp \in Op /\ op'.pc = "idle" /\ op'.status = "none" /\ op'.request = NoRequest
  BY <1>1, NoOpIs
<1>3. TypeOK' /\ NumberInv'
  BY <1>1, <1>2 DEF IInv, TypeOK, NumberInv
<1>4. QueueInv'
  BY <1>1, <1>2, RequestIs DEF IInv, QueueInv, Waiting, Late
<1>5. MadeInv' /\ CallInv'
  BY <1>2 DEF MadeInv, CallInv, Late
<1>6. DoneInv'
  BY <1>2 DEF DoneInv, SuccessIsFinal, MostlyNamesItsOwn, CreateNamesItsOwn, Succeeded
<1> QED
  BY <1>3, <1>4, <1>5, <1>6 DEF IInv

\* A call that gives a command up fails, but for the first inventory of a
\* catchpoint, without which it goes on.
LEMMA TimeOutKeeps == IInv /\ TimeOut => IInv'
<1> SUFFICES ASSUME IInv, TimeOut PROVE IInv'
  OBVIOUS
<1>1. op \in Op /\ op.request \in Requests /\ Waiting
  BY DEF IInv, TypeOK, QueueInv, TimeOut
<1>2. Around
  BY AroundSame DEF TimeOut
<1> DEFINE q == Abandon(queue)
<1>3. GivenUp(q)
  BY AbandonGivesUp DEF IInv
<1>4. GiveUp(q)
  BY DEF TimeOut
<1> HIDE DEF q
<1>5. op.pc \in {"before", "main", "after", "confirm", "attribute"}
  BY <1>1 DEF Op, Waiting
<1>6. CASE op.pc = "before"
  <2> DEFINE o == [op EXCEPT !.previous = None]
  <2>1. /\ o \in Op /\ o.request = op.request /\ o.status = op.status /\ o.number = op.number
        /\ o.previous = None
    BY <1>1 DEF Op
  <2>2. Proceed(o, "main", "catch", q)
    BY <1>4, <1>6 DEF GiveUp
  <2>3. op.request.tool = "catch" /\ op.status = "none" /\ op.number = None
    BY <1>6 DEF IInv, CallInv
  <2> HIDE DEF o
  <2>4. /\ op'.pc = "main" /\ op'.status = "none" /\ op'.request = op.request
        /\ op'.number = None /\ op'.previous = None
    BY <2>1, <2>2, <2>3, ProceedIs DEF Steps
  <2>5. MadeInv' /\ CallInv'
    BY <2>4 DEF MadeInv, CallInv, Late
  <2>6. "main" \notin Late /\ "catch" \in Tools
    BY DEF Late, Tools, Creates
  <2> QED
    BY <1>1, <1>2, <1>3, <2>1, <2>2, <2>3, <2>5, <2>6, ContinueKeeps
<1>7. CASE op.pc # "before"
  <2>1. PICK code \in Codes : Return(op, "error", code) /\ queue' = q
    BY <1>4, <1>5, <1>7 DEF GiveUp, Done, Codes
  <2> QED
    BY <1>1, <1>2, <1>3, <2>1, ErrorKeeps
<1> QED
  BY <1>6, <1>7

-----------------------------------------------------------------------------
(* What GDB's execution of a command can do *)

\* The outcome of command c: table t, the number of a breakpoint made, the
\* breakpoints that cannot be inserted and the text.
Outcome(c, ok, number, blocked, t, text) ==
    /\ t \in Tables /\ blocked \in SUBSET Numbers
    /\ number \in {None, next} /\ text \in {None, number}
    /\ number = None => DOMAIN t \subseteq DOMAIN table
    /\ number # None =>
          /\ c.name \in Creates /\ next \in Numbers
          /\ DOMAIN t = DOMAIN table \cup {next}
          /\ t[next] = NewBreakpoint(c.request)
    /\ c.name = "list" => ok /\ t = table /\ number = None
    /\ text # None => c.name = "catch"
    /\ ok /\ c.name \in Creates => number # None
    /\ ok /\ c.name = "delete" => c.request.number \notin DOMAIN t
    /\ ok /\ c.name = "enable" /\ c.request.number \in DOMAIN t => t[c.request.number].enabled
    /\ ok /\ c.name = "disable" /\ c.request.number \in DOMAIN t => ~t[c.request.number].enabled
    /\ ok /\ c.name = "update" => /\ c.request.number \in DOMAIN t
                                 /\ t[c.request.number].condition = c.request.condition

\* The breakpoints that cannot be inserted are some of the table.
LEMMA StuckIs == ASSUME NEW t \in Tables PROVE Stuck(t) \in SUBSET Numbers
BY TableIs DEF Stuck

LEMMA CreateOutcome ==
    ASSUME IInv, queue # << >>, Head(queue).name \in Creates, ExecuteCreate(Head(queue))
    PROVE  \E ok \in BOOLEAN, number \in Numbers \cup {None}, blocked \in SUBSET Numbers,
              t \in Tables, text \in Numbers \cup {None} :
              /\ Outcome(Head(queue), ok, number, blocked, t, text)
              /\ Reply(ok, number, blocked, t, text)
<1> DEFINE c == Head(queue)
<1>1. c.name \in Creates /\ c.request \in Requests /\ c.request.tool = c.name
  BY TailIs DEF IInv, TypeOK, QueueInv, Creates
<1>2. table \in Tables /\ next \in 1..(MaxNumber + 1) /\ None \notin Nat
  BY BreakpointsAssumption DEF IInv, TypeOK
<1>3. c.name # "list" /\ c.name \notin {"delete", "enable", "disable", "update"}
  BY <1>1 DEF Creates
<1> DEFINE b == NewBreakpoint(c.request)
           rows == With(next, b)
<1>4. b \in Breakpoint
  BY <1>1, NewIs
<1>5. ExecuteCreate(c)
  OBVIOUS
<1>6. \/ Reply(FALSE, None, {}, table, None)
      \/ Reply(FALSE, None, Stuck(table), table, None)
      \/ /\ next <= MaxNumber
         /\ \E text \in {next, None} :
               /\ text # None => c.name = "catch"
               /\ \/ Reply(TRUE, next, {}, rows, text)
                  \/ Reply(FALSE, next, Stuck(rows), rows, text)
  <2>1. \A text : text \in (IF c.name = "catch" THEN {next, None} ELSE {None}) =>
                     text \in {next, None} /\ (text # None => c.name = "catch")
    OBVIOUS
  <2> QED
    BY <1>5, <2>1, Zenon DEF ExecuteCreate
<1> HIDE DEF c
<1>7. CASE Reply(FALSE, None, {}, table, None)
  <2>1. Outcome(c, FALSE, None, {}, table, None)
    BY <1>2, <1>3 DEF Outcome
  <2> QED
    BY <1>2, <1>7, <2>1 DEF c
<1>8. CASE Reply(FALSE, None, Stuck(table), table, None)
  <2>1. Outcome(c, FALSE, None, Stuck(table), table, None)
    BY <1>2, <1>3, StuckIs DEF Outcome
  <2> QED
    BY <1>2, <1>8, <2>1, StuckIs DEF c
<1>9. ASSUME next <= MaxNumber, NEW text \in {next, None}, text # None => c.name = "catch",
             \/ Reply(TRUE, next, {}, rows, text)
             \/ Reply(FALSE, next, Stuck(rows), rows, text)
      PROVE  \E ok \in BOOLEAN, number \in Numbers \cup {None}, blocked \in SUBSET Numbers,
                t \in Tables, x \in Numbers \cup {None} :
                Outcome(c, ok, number, blocked, t, x) /\ Reply(ok, number, blocked, t, x)
  <2>1. next \in Numbers /\ next # None
    BY <1>2, <1>9, BreakpointsAssumption DEF Numbers
  <2>2. rows \in Tables /\ DOMAIN rows = DOMAIN table \cup {next} /\ rows[next] = b
    BY <1>2, <1>4, <2>1, WithIs
  <2>3. Stuck(rows) \in SUBSET Numbers
    BY <2>2, StuckIs
  <2> DEFINE st == Stuck(rows)
  <2> HIDE DEF rows, b, st
  <2>4. Outcome(c, TRUE, next, {}, rows, text) /\ Outcome(c, FALSE, next, st, rows, text)
    BY <1>1, <1>3, <1>9, <2>1, <2>2, <2>3 DEF Outcome, b, st
  <2>5. CASE Reply(TRUE, next, {}, rows, text)
    BY <2>1, <2>2, <2>4, <2>5
  <2>6. CASE Reply(FALSE, next, Stuck(rows), rows, text)
    <3>1. Reply(FALSE, next, st, rows, text)
      BY <2>6 DEF st
    <3> QED
      BY <2>1, <2>2, <2>3, <2>4, <3>1 DEF st
  <2> QED
    BY <1>9, <2>5, <2>6
<1> QED
  BY <1>6, <1>7, <1>8, <1>9 DEF c

LEMMA ListOutcome ==
    ASSUME IInv, queue # << >>, Head(queue).name = "list", Reply(TRUE, None, {}, table, None)
    PROVE  \E ok \in BOOLEAN, number \in Numbers \cup {None}, blocked \in SUBSET Numbers,
              t \in Tables, text \in Numbers \cup {None} :
              /\ Outcome(Head(queue), ok, number, blocked, t, text)
              /\ Reply(ok, number, blocked, t, text)
<1>1. table \in Tables
  BY DEF IInv, TypeOK
<1>2. Outcome(Head(queue), TRUE, None, {}, table, None)
  BY <1>1 DEF Outcome, Creates
<1> QED
  BY <1>1, <1>2

LEMMA ChangeOutcome ==
    ASSUME IInv, queue # << >>, Head(queue).name \notin Creates \cup {"list"},
           ExecuteChange(Head(queue))
    PROVE  \E ok \in BOOLEAN, number \in Numbers \cup {None}, blocked \in SUBSET Numbers,
              t \in Tables, text \in Numbers \cup {None} :
              /\ Outcome(Head(queue), ok, number, blocked, t, text)
              /\ Reply(ok, number, blocked, t, text)
<1> DEFINE c == Head(queue)
           n == c.request.number
<1>1. /\ c.name \in {"delete", "enable", "disable", "update"} /\ c.request \in Requests
      /\ c.request.tool = c.name /\ c \in Command
  <2>1. queue \in Seq(Command)
    BY DEF IInv, TypeOK
  <2>2. c = queue[1] /\ c \in Command /\ 1 \in DOMAIN queue
    BY <2>1, TailIs
  <2>3. c.name \in Tools
    BY <2>2 DEF Command
  <2>4. c.name # "get" /\ c.request \in Requests /\ (c.name # "list" => c.name = c.request.tool)
    BY <2>2 DEF IInv, QueueInv
  <2> QED
    BY <2>2, <2>3, <2>4 DEF Creates, Tools
<1>2. table \in Tables /\ n \in Numbers /\ c.request \in Request
  BY <1>1, RequestIs DEF IInv, TypeOK
<1>3. c.name # "list" /\ c.name \notin Creates
  BY <1>1 DEF Creates
<1> DEFINE changed == CASE c.name = "delete"  -> Without(n)
                        [] c.name = "enable"  -> With(n, [table[n] EXCEPT !.enabled = TRUE])
                        [] c.name = "disable" -> With(n, [table[n] EXCEPT !.enabled = FALSE])
                        [] c.name = "update"  ->
                              With(n, [table[n] EXCEPT !.condition = c.request.condition])
<1>4. \/ n \in DOMAIN table /\ Reply(TRUE, None, {}, changed, None)
      \/ n \notin DOMAIN table /\ c.name # "update" /\ Reply(TRUE, None, {}, table, None)
      \/ Reply(FALSE, None, {}, table, None)
  BY DEF ExecuteChange
<1>5. c.request.condition \in Conditions \cup {None}
  BY <1>2 DEF Request
<1> HIDE DEF c
<1>6. ASSUME n \in DOMAIN table
      PROVE  /\ changed \in Tables /\ DOMAIN changed \subseteq DOMAIN table
             /\ c.name = "delete" => n \notin DOMAIN changed
             /\ c.name \in {"enable", "disable", "update"} => n \in DOMAIN changed
             /\ c.name = "enable" => changed[n].enabled
             /\ c.name = "disable" => ~changed[n].enabled
             /\ c.name = "update" => changed[n].condition = c.request.condition
  <2>1. table[n] \in Breakpoint
    BY <1>2, <1>6, TableIs
  <2>2. CASE c.name = "delete"
    BY <1>2, <2>2, WithoutIs
  <2> DEFINE e == [table[n] EXCEPT !.enabled = TRUE]
             d == [table[n] EXCEPT !.enabled = FALSE]
             u == [table[n] EXCEPT !.condition = c.request.condition]
  <2>3. /\ e \in Breakpoint /\ e.enabled /\ d \in Breakpoint /\ ~d.enabled
        /\ u \in Breakpoint /\ u.condition = c.request.condition
    BY <1>5, <2>1 DEF Breakpoint
  <2>4. /\ c.name = "enable" => changed = With(n, e)
        /\ c.name = "disable" => changed = With(n, d)
        /\ c.name = "update" => changed = With(n, u)
    OBVIOUS
  <2> HIDE DEF e, d, u, changed
  <2>5. CASE c.name = "enable"
    <3>1. /\ With(n, e) \in Tables /\ DOMAIN With(n, e) = DOMAIN table \cup {n}
          /\ With(n, e)[n] = e
      BY <1>2, <2>3, WithIs
    <3> QED
      BY <1>6, <2>3, <2>4, <2>5, <3>1
  <2>6. CASE c.name = "disable"
    <3>1. /\ With(n, d) \in Tables /\ DOMAIN With(n, d) = DOMAIN table \cup {n}
          /\ With(n, d)[n] = d
      BY <1>2, <2>3, WithIs
    <3> QED
      BY <1>6, <2>3, <2>4, <2>6, <3>1
  <2>7. CASE c.name = "update"
    <3>1. /\ With(n, u) \in Tables /\ DOMAIN With(n, u) = DOMAIN table \cup {n}
          /\ With(n, u)[n] = u
      BY <1>2, <2>3, WithIs
    <3> QED
      BY <1>6, <2>3, <2>4, <2>7, <3>1
  <2> QED
    BY <1>1, <2>2, <2>5, <2>6, <2>7 DEF c
<1> HIDE DEF changed
<1>7. CASE n \in DOMAIN table /\ Reply(TRUE, None, {}, changed, None)
  <2>1. Outcome(c, TRUE, None, {}, changed, None)
    BY <1>3, <1>6, <1>7 DEF Outcome
  <2> QED
    BY <1>6, <1>7, <2>1 DEF c
<1>8. CASE Reply(FALSE, None, {}, table, None)
  <2>1. Outcome(c, FALSE, None, {}, table, None)
    BY <1>2, <1>3 DEF Outcome
  <2> QED
    BY <1>2, <1>8, <2>1 DEF c
<1>9. CASE n \notin DOMAIN table /\ c.name # "update" /\ Reply(TRUE, None, {}, table, None)
  <2>1. Outcome(c, TRUE, None, {}, table, None)
    BY <1>2, <1>3, <1>9 DEF Outcome
  <2> QED
    BY <1>2, <1>9, <2>1 DEF c
<1> QED
  BY <1>4, <1>7, <1>8, <1>9

\* Whatever is executed, its reply is the reply to one of these outcomes.
LEMMA ExecuteOutcome ==
    ASSUME IInv, Execute
    PROVE  \E ok \in BOOLEAN, number \in Numbers \cup {None}, blocked \in SUBSET Numbers,
              t \in Tables, text \in Numbers \cup {None} :
              /\ Outcome(Head(queue), ok, number, blocked, t, text)
              /\ Reply(ok, number, blocked, t, text)
<1>1. queue # << >>
  BY DEF Execute
<1>2. CASE Head(queue).name \in Creates
  <2>1. ExecuteCreate(Head(queue))
    BY <1>2 DEF Execute, Creates
  <2> QED
    BY <1>1, <1>2, <2>1, CreateOutcome
<1>3. CASE Head(queue).name = "list"
  <2>1. Reply(TRUE, None, {}, table, None)
    BY <1>3 DEF Execute, Creates
  <2> QED
    BY <1>1, <1>3, <2>1, ListOutcome
<1>4. CASE Head(queue).name \notin Creates \cup {"list"}
  <2>1. ExecuteChange(Head(queue))
    BY <1>4 DEF Execute
  <2> QED
    BY <1>1, <1>4, <2>1, ChangeOutcome
<1> QED
  BY <1>2, <1>3, <1>4

-----------------------------------------------------------------------------
(* What the reply leaves *)

\* GDB's side of a reply.
LEMMA ReplyAround ==
    ASSUME IInv, NEW ok \in BOOLEAN, NEW number \in Numbers \cup {None},
           NEW blocked \in SUBSET Numbers, NEW t \in Tables, NEW text \in Numbers \cup {None},
           Outcome(Head(queue), ok, number, blocked, t, text),
           Reply(ok, number, blocked, t, text)
    PROVE  /\ Around /\ table' = t /\ UNCHANGED running
           /\ number = None => next' = next
           /\ number # None => number = next /\ next' = next + 1
           /\ next' >= next
<1>1. next \in 1..(MaxNumber + 1) /\ running \in BOOLEAN /\ console \in Numbers \cup {None}
  BY DEF IInv, TypeOK
<1>2. /\ table' = t /\ UNCHANGED running
      /\ next' = IF number = None THEN next ELSE next + 1
      /\ console' \in {None, First(console, text)}
  BY DEF Reply
<1>3. number # None => number = next /\ next \in 1..MaxNumber
  BY DEF Outcome, Numbers
<1>4. MaxNumber \in Nat
  BY BreakpointsAssumption
<1>5. next' \in 1..(MaxNumber + 1) /\ next' >= next
  BY <1>1, <1>2, <1>3, <1>4
<1>6. NumberInv'
  <2>1. \A n \in DOMAIN table : n < next
    BY DEF IInv, NumberInv
  <2>2. ASSUME NEW n \in DOMAIN t PROVE n < next'
    <3>1. n \in Nat /\ next \in Nat
      BY <1>1, TableIs DEF Numbers
    <3> QED
      BY <1>1, <1>2, <2>1, <3>1 DEF Outcome
  <2> QED
    BY <1>2, <2>2 DEF NumberInv
<1>7. console' \in Numbers \cup {None}
  BY <1>1, <1>2 DEF First
<1> QED
  BY <1>1, <1>2, <1>3, <1>5, <1>6, <1>7 DEF Around

\* The reply to a command given up: the call, if there is one, goes on
\* waiting for the last command of the queue, which is another.
LEMMA OtherReplyKeeps ==
    ASSUME IInv, queue # << >>, Around, next' >= next, UNCHANGED <<running, op>>,
           ~(Head(queue).mine /\ Waiting), queue' = Tail(queue)
    PROVE  IInv'
<1>1. queue \in Seq(Command) /\ Len(queue) \in Nat /\ DOMAIN queue = 1..Len(queue)
  BY DEF IInv, TypeOK
<1>2. /\ Head(queue) = queue[1] /\ queue' \in Seq(Command) /\ Len(queue') = Len(queue) - 1
      /\ \A i \in DOMAIN queue' : i + 1 \in DOMAIN queue /\ queue'[i] = queue[i + 1]
      /\ 1 \in DOMAIN queue
  BY <1>1, TailIs
<1>3. Waiting => Len(queue) > 1
  <2> SUFFICES ASSUME Waiting PROVE Len(queue) # 1
    BY <1>1, <1>2
  <2>1. queue[Len(queue)] = Awaited
    BY DEF IInv, QueueInv
  <2>2. Awaited.mine
    BY DEF Awaited, NewCommand
  <2> QED
    BY <1>2, <2>1, <2>2
<1>4. op.pc \notin Late
  BY <1>3 DEF IInv, QueueInv, Waiting, Late
<1>5. op.status # "success"
  BY DEF IInv, DoneInv, SuccessIsFinal
<1>6. TypeOK' /\ NumberInv'
  BY <1>2 DEF IInv, TypeOK, Around
<1>7. QueueInv'
  <2>1. DOMAIN queue' = 1..Len(queue') /\ Len(queue') \in Nat
    BY <1>2
  <2>2. Waiting' <=> Waiting
    BY DEF Waiting
  <2>3. ASSUME NEW i \in DOMAIN queue'
        PROVE  /\ queue'[i].request \in Requests
               /\ queue'[i].name # "get"
               /\ queue'[i].name # "list" => queue'[i].name = queue'[i].request.tool
               /\ queue'[i].mine => Waiting' /\ i = Len(queue')
    <3>1. i + 1 \in DOMAIN queue /\ queue'[i] = queue[i + 1] /\ i \in Nat
      BY <1>2, <2>1
    <3>2. queue[i + 1].mine => Waiting /\ i + 1 = Len(queue)
      BY <3>1 DEF IInv, QueueInv
    <3>3. queue'[i].mine => Waiting' /\ i = Len(queue')
      BY <1>1, <1>2, <2>2, <3>1, <3>2
    <3> QED
      BY <3>1, <3>3 DEF IInv, QueueInv
  <2>4. ASSUME Waiting PROVE queue' # << >> /\ queue'[Len(queue')] = Awaited'
    <3>1. Len(queue') \in DOMAIN queue'
      BY <1>1, <1>2, <1>3, <2>1, <2>4
    <3>2. queue'[Len(queue')] = queue[Len(queue') + 1] /\ Len(queue') + 1 = Len(queue)
      BY <1>1, <1>2, <3>1
    <3>3. queue'[Len(queue')] = Awaited
      BY <3>2, <2>4 DEF IInv, QueueInv
    <3>4. Awaited' = Awaited
      BY DEF Awaited
    <3>5. queue' # << >>
      <4>1. Len(queue') # 0
        BY <1>1, <1>2, <1>3, <2>4
      <4>2. \A q : q = << >> => Len(q) = 0
        OBVIOUS
      <4> QED
        BY <4>1, <4>2, Zenon
    <3> QED
      BY <3>3, <3>4, <3>5
  <2>5. op'.request \in Requests
    BY DEF IInv, QueueInv
  <2>6. op'.pc \notin Late
    BY <1>4
  <2> QED
    BY <2>2, <2>3, <2>4, <2>5, <2>6 DEF QueueInv
<1>8. MadeInv'
  BY <1>4 DEF MadeInv
<1>9. CallInv'
  <2>1. next \in Nat /\ next' \in Nat
    BY BreakpointsAssumption DEF IInv, TypeOK, Around
  <2>2. op'.pc = "main" /\ op'.previous # None => \A p \in op'.previous : p < next'
    <3> SUFFICES ASSUME op.pc = "main", op.previous # None, NEW p \in op.previous
                 PROVE  p < next'
      OBVIOUS
    <3>1. p \in Nat
      BY DEF IInv, TypeOK, Op, Numbers
    <3>2. p < next
      BY DEF IInv, CallInv
    <3> QED
      BY <2>1, <3>1, <3>2
  <2> QED
    BY <1>4, <2>2 DEF IInv, CallInv, Late
<1>10. DoneInv'
  BY <1>5 DEF DoneInv, SuccessIsFinal, MostlyNamesItsOwn, CreateNamesItsOwn, Succeeded
<1> QED
  BY <1>6, <1>7, <1>8, <1>9, <1>10 DEF IInv

\* The command waited for is the last one: nothing else is left.
LEMMA AwaitedIs ==
    ASSUME IInv, queue # << >>, Head(queue).mine
    PROVE  /\ Waiting /\ Head(queue) = Awaited /\ Tail(queue) = << >>
<1>1. queue \in Seq(Command)
  BY DEF IInv, TypeOK
<1>2. Head(queue) = queue[1] /\ 1 \in DOMAIN queue
  BY <1>1, TailIs
<1>3. Waiting /\ 1 = Len(queue)
  BY <1>2 DEF IInv, QueueInv
<1>4. queue[1] = Awaited
  BY <1>3 DEF IInv, QueueInv
<1> QED
  BY <1>1, <1>2, <1>3, <1>4, TailIs

\* The call once its main command is answered.
Hearing(number) == [op EXCEPT !.made = number, !.noise = console # None]

\* The reply to the main command of a create: the breakpoint made is the
\* newest of GDB's table.
LEMMA MainReplyKeeps ==
    ASSUME IInv, ~running, queue # << >>, Head(queue).mine, op.pc = "main",
           NEW ok \in BOOLEAN, NEW number \in Numbers \cup {None},
           NEW blocked \in SUBSET Numbers, NEW t \in Tables, NEW text \in Numbers \cup {None},
           Outcome(Head(queue), ok, number, blocked, t, text),
           Reply(ok, number, blocked, t, text),
           NEW told \in {number, None},
           MainReply(Hearing(number), ok, told, blocked, t, First(console, text), Tail(queue))
    PROVE  IInv'
<1> DEFINE c == Head(queue)
           r == op.request
           heard == First(console, text)
           noise == console # None
           o == [op EXCEPT !.made = number, !.noise = noise]
<1>1. Waiting /\ c = Awaited /\ Tail(queue) = << >>
  BY AwaitedIs
<1>2. /\ Around /\ table' = t /\ ~running'
      /\ number = None => next' = next
      /\ number # None => number = next /\ next' = next + 1
  BY ReplyAround
<1>3. op \in Op /\ r \in Requests /\ r \in Request
  BY RequestIs DEF IInv, TypeOK, QueueInv
<1>4. op.status = "none" /\ op.number = None /\ noise \in BOOLEAN
  BY DEF IInv, CallInv
<1> HIDE DEF noise
<1>5. /\ o \in Op /\ o.request = r /\ o.number = None /\ o.previous = op.previous
      /\ o.status = "none" /\ o.made = number /\ o.noise = noise
  <2>1. o \in Op
    BY <1>3, <1>4, HearIs
  <2>2. o.request = r /\ o.number = op.number /\ o.previous = op.previous /\ o.status = op.status
    BY <1>3 DEF Op
  <2>3. o.made = number /\ o.noise = noise
    BY <1>3 DEF Op
  <2> QED
    BY <1>4, <2>1, <2>2, <2>3
<1>6. c = NewCommand(IF r.tool # "get" THEN r.tool ELSE "list", r)
  BY <1>1 DEF Awaited
<1>7. /\ c.name = (IF r.tool # "get" THEN r.tool ELSE "list")
      /\ c.name # "list" => c.request = r
  BY <1>6 DEF NewCommand
<1>8. r.tool \in {"code", "watch", "catch", "list", "get", "delete", "enable", "disable", "update"}
  BY <1>3 DEF Request, Tools, Creates
<1>9. GivenUp(<< >>)
  BY NothingGivenUp
<1>10. MainReply(o, ok, told, blocked, t, heard, << >>)
  BY <1>1 DEF noise, Hearing
<1>11. heard \in Numbers \cup {None} /\ told \in Numbers \cup {None} /\ None \notin Nat
  BY BreakpointsAssumption DEF IInv, TypeOK, First
<1>12. number # None => /\ number = next' - 1 /\ number \in DOMAIN t
                        /\ t[number] = NewBreakpoint(r) /\ r.tool \in Creates
  <2> SUFFICES ASSUME number # None
               PROVE  /\ number = next' - 1 /\ number \in DOMAIN t
                      /\ t[number] = NewBreakpoint(r) /\ r.tool \in Creates
    OBVIOUS
  <2>1. number = next /\ c.name \in Creates /\ number \in DOMAIN t
        /\ t[number] = NewBreakpoint(c.request)
    BY DEF Outcome
  <2>2. c.name # "list" /\ r.tool = c.name /\ c.request = r
    BY <1>7, <2>1 DEF Creates
  <2>3. next \in Nat
    BY BreakpointsAssumption DEF IInv, TypeOK
  <2> QED
    BY <1>2, <2>1, <2>2, <2>3
<1>13. op.previous # None => \A p \in op.previous : p < next
  BY DEF IInv, CallInv
<1>14. ok /\ r.tool \in Creates => number # None
  BY <1>7 DEF Outcome, Creates
<1>15. heard # None => noise \/ heard = number
  BY DEF First, Outcome, noise
<1>16. op.previous # None /\ number # None => number \notin op.previous
  <2>1. op.previous # None => op.previous \subseteq Nat
    BY <1>3 DEF Op, Numbers
  <2>2. number # None => number = next /\ next \in Nat
    BY <1>2, BreakpointsAssumption DEF IInv, TypeOK
  <2> QED
    BY <1>13, <2>1, <2>2
<1> HIDE DEF o, heard, noise, c, r
<1>17. CASE ~ok /\ r.tool = "code" /\ blocked # {}
  <2> DEFINE e == [o EXCEPT !.blocked = blocked]
  <2>1. /\ e \in Op /\ e.request = r /\ e.number = None /\ e.status = "none"
        /\ e.made = number
    BY <1>5 DEF Op
  <2>2. Proceed(e, "attribute", "list", << >>)
    BY <1>5, <1>10, <1>17 DEF MainReply
  <2> HIDE DEF e
  <2>3. /\ op'.pc = "attribute" /\ op'.status = "none" /\ op'.request = r /\ op'.number = None
        /\ op'.made = number
    BY <2>1, <2>2, ProceedIs DEF Steps
  <2>4. MadeInv'
    BY <1>2, <1>12, <2>3 DEF MadeInv
  <2>5. CallInv'
    BY <1>17, <2>3 DEF CallInv
  <2>6. "attribute" \in Late /\ "list" \in Tools
    BY DEF Late, Tools
  <2> QED
    BY <1>2, <1>3, <1>9, <2>1, <2>2, <2>4, <2>5, <2>6, ContinueKeeps DEF r
<1>18. CASE ~ok /\ ~(r.tool = "code" /\ blocked # {})
  <2>1. Return(o, "error", "error") /\ queue' = << >>
    BY <1>5, <1>10, <1>18 DEF MainReply, Done
  <2> QED
    BY <1>2, <1>3, <1>5, <1>9, <2>1, ErrorKeeps DEF Codes, r
<1>19. CASE ok /\ r.tool = "code"
  <2>1. queue' = << >> /\ IF told = None THEN Return(o, "error", "unreported") ELSE Answer(o, told, t)
    BY <1>5, <1>10, <1>19 DEF MainReply, Done
  <2>2. CASE told = None
    BY <1>2, <1>3, <1>5, <1>9, <2>1, <2>2, ErrorKeeps DEF Codes, r
  <2>3. CASE told # None
    <3>1. told = number /\ number # None /\ number \in DOMAIN t /\ t[number] = NewBreakpoint(r)
      BY <1>12, <2>3
    <3>2. /\ op' \in Op /\ op'.pc = "returned" /\ op'.status = "success"
          /\ op'.request = r /\ op'.number = number /\ op'.made = number
          /\ op'.breakpoint = t[number]
      BY <1>5, <2>1, <2>3, <3>1, AnswerIs
    <3>3. SuccessIsFinal'
      BY <1>2, <1>19, <2>1, <3>1, <3>2 DEF SuccessIsFinal, NewBreakpoint
    <3>4. MostlyNamesItsOwn'
      BY <3>2 DEF MostlyNamesItsOwn, CreateNamesItsOwn
    <3> QED
      BY <1>2, <1>3, <2>1, <3>2, <3>3, <3>4, SuccessKeeps DEF r
  <2> QED
    BY <2>2, <2>3
<1>20. CASE ok /\ r.tool = "watch"
  <2>1. IF told = None THEN Return(o, "error", "unreported") /\ queue' = << >>
        ELSE Proceed([o EXCEPT !.number = told], "confirm", "list", << >>)
    BY <1>5, <1>10, <1>20 DEF MainReply, Done
  <2>2. CASE told = None
    BY <1>2, <1>3, <1>5, <1>9, <2>1, <2>2, ErrorKeeps DEF Codes, r
  <2>3. CASE told # None
    <3> DEFINE e == [o EXCEPT !.number = told]
    <3>1. /\ e \in Op /\ e.request = r /\ e.number = told /\ e.status = "none"
          /\ e.made = number /\ told = number
      BY <1>5, <1>11, <2>3 DEF Op
    <3>2. Proceed(e, "confirm", "list", << >>)
      BY <2>1, <2>3
    <3> HIDE DEF e
    <3>3. /\ op'.pc = "confirm" /\ op'.status = "none" /\ op'.request = r /\ op'.number = number
          /\ op'.made = number
      BY <3>1, <3>2, ProceedIs DEF Steps
    <3>4. MadeInv'
      BY <1>2, <1>12, <3>3 DEF MadeInv
    <3>5. CallInv'
      BY <1>20, <2>3, <3>1, <3>3 DEF CallInv
    <3>6. "confirm" \in Late /\ "list" \in Tools
      BY DEF Late, Tools
    <3> QED
      BY <1>2, <1>3, <1>9, <3>1, <3>2, <3>4, <3>5, <3>6, ContinueKeeps DEF r
  <2> QED
    BY <2>2, <2>3
<1>21. CASE ok /\ r.tool = "catch"
  <2>1. IF heard = None THEN Proceed(o, "after", "list", << >>)
        ELSE Proceed([o EXCEPT !.number = heard], "confirm", "list", << >>)
    BY <1>5, <1>10, <1>21 DEF MainReply
  <2>2. number # None
    BY <1>14, <1>21 DEF Creates
  <2>3. CASE heard = None
    <3>1. Proceed(o, "after", "list", << >>)
      BY <2>1, <2>3
    <3>2. /\ op'.pc = "after" /\ op'.status = "none" /\ op'.request = r /\ op'.number = None
          /\ op'.made = number /\ op'.previous = op.previous
      BY <1>5, <3>1, ProceedIs DEF Steps
    <3>3. MadeInv'
      BY <1>2, <1>12, <3>2 DEF MadeInv
    <3>4. CallInv'
      BY <1>16, <1>21, <2>2, <3>2 DEF CallInv
    <3>5. "after" \in Late /\ "list" \in Tools
      BY DEF Late, Tools
    <3> QED
      BY <1>2, <1>3, <1>5, <1>9, <3>1, <3>3, <3>4, <3>5, ContinueKeeps DEF r
  <2>4. CASE heard # None
    <3> DEFINE e == [o EXCEPT !.number = heard]
    <3>1. /\ e \in Op /\ e.request = r /\ e.number = heard /\ e.status = "none"
          /\ e.made = number /\ e.noise = noise
      BY <1>5, <1>11 DEF Op
    <3>2. Proceed(e, "confirm", "list", << >>)
      BY <2>1, <2>4
    <3> HIDE DEF e
    <3>3. /\ op'.pc = "confirm" /\ op'.status = "none" /\ op'.request = r /\ op'.number = heard
          /\ op'.made = number /\ op'.noise = noise
      BY <3>1, <3>2, ProceedIs DEF Steps
    <3>4. MadeInv'
      BY <1>2, <1>12, <3>3 DEF MadeInv
    <3>5. CallInv'
      BY <1>15, <1>21, <2>4, <3>3 DEF CallInv
    <3>6. "confirm" \in Late /\ "list" \in Tools
      BY DEF Late, Tools
    <3> QED
      BY <1>2, <1>3, <1>9, <3>1, <3>2, <3>4, <3>5, <3>6, ContinueKeeps DEF r
  <2> QED
    BY <2>3, <2>4
<1>22. CASE ok /\ r.tool = "update"
  <2> DEFINE e == [o EXCEPT !.number = r.number]
  <2>1. r.number \in Numbers /\ r.number # None
    BY <1>3, <1>22, RequestIs, <1>11 DEF r, Numbers
  <2>2. /\ e \in Op /\ e.request = r /\ e.number = r.number /\ e.status = "none"
        /\ e.made = number
    BY <1>5, <2>1 DEF Op
  <2>3. Proceed(e, "confirm", "list", << >>)
    BY <1>5, <1>10, <1>22 DEF MainReply
  <2> HIDE DEF e
  <2>4. /\ op'.pc = "confirm" /\ op'.status = "none" /\ op'.request = r /\ op'.number = r.number
        /\ op'.made = number
    BY <2>2, <2>3, ProceedIs DEF Steps
  <2>5. r.number \in DOMAIN t /\ t[r.number].condition = r.condition
    BY <1>7, <1>22 DEF Outcome, c
  <2>6. MadeInv'
    BY <1>2, <1>12, <2>4 DEF MadeInv
  <2>7. CallInv'
    BY <1>2, <1>22, <2>1, <2>4, <2>5 DEF CallInv
  <2>8. "confirm" \in Late /\ "list" \in Tools
    BY DEF Late, Tools
  <2> QED
    BY <1>2, <1>3, <1>9, <2>2, <2>3, <2>6, <2>7, <2>8, ContinueKeeps DEF r
<1>23. CASE ok /\ r.tool = "get"
  <2>1. queue' = << >> /\ Confirm(o, r.number, t, "not_found")
    BY <1>5, <1>10, <1>23 DEF MainReply, Done
  <2>2. CASE r.number \in DOMAIN t
    <3>1. Answer(o, r.number, t)
      BY <2>1, <2>2 DEF Confirm
    <3>2. /\ op' \in Op /\ op'.pc = "returned" /\ op'.status = "success"
          /\ op'.request = r /\ op'.number = r.number /\ op'.breakpoint = t[r.number]
      BY <1>5, <2>2, <3>1, AnswerIs
    <3>3. SuccessIsFinal'
      BY <1>2, <1>23, <2>1, <2>2, <3>2 DEF SuccessIsFinal, Creates
    <3>4. MostlyNamesItsOwn'
      BY <1>23, <3>2 DEF MostlyNamesItsOwn, CreateNamesItsOwn, Succeeded, Creates
    <3> QED
      BY <1>2, <1>3, <2>1, <3>2, <3>3, <3>4, SuccessKeeps DEF r
  <2>3. CASE r.number \notin DOMAIN t
    <3> DEFINE e == [o EXCEPT !.number = r.number]
    <3>1. r.number \in Numbers
      BY <1>3, <1>23, RequestIs DEF r
    <3>2. e \in Op /\ e.request = r
      BY <1>5, <3>1 DEF Op
    <3>3. Return(e, "error", "not_found")
      BY <2>1, <2>3 DEF Confirm
    <3> HIDE DEF e
    <3> QED
      BY <1>2, <1>3, <1>9, <2>1, <3>2, <3>3, ErrorKeeps DEF Codes, r
  <2> QED
    BY <2>2, <2>3
<1>24. CASE ok /\ r.tool \in {"list", "delete", "enable", "disable"}
  <2>1. queue' = << >> /\ Return(o, "success", "none")
    BY <1>5, <1>10, <1>24 DEF MainReply, Done
  <2>2. /\ op' \in Op /\ op'.pc = "returned" /\ op'.status = "success"
        /\ op'.request = r /\ op'.number = None
    BY <1>5, <2>1, ReturnIs DEF Statuses, Codes
  <2>3. /\ r.tool = "delete" => r.number \notin DOMAIN t
        /\ r.tool = "enable" /\ r.number \in DOMAIN t => t[r.number].enabled
        /\ r.tool = "disable" /\ r.number \in DOMAIN t => ~t[r.number].enabled
    BY <1>7, <1>24 DEF Outcome, c
  <2>4. SuccessIsFinal'
    BY <1>2, <1>24, <2>1, <2>2, <2>3 DEF SuccessIsFinal, Creates
  <2>5. MostlyNamesItsOwn'
    BY <1>24, <2>2 DEF MostlyNamesItsOwn, CreateNamesItsOwn, Succeeded, Creates
  <2> QED
    BY <1>2, <1>3, <2>1, <2>2, <2>4, <2>5, SuccessKeeps DEF r
<1> QED
  BY <1>8, <1>17, <1>18, <1>19, <1>20, <1>21, <1>22, <1>23, <1>24 DEF r

\* The reply to an inventory: nothing has changed since the main command, so
\* the new catchpoint is the largest of those that were not there before.
LEMMA ListReplyKeeps ==
    ASSUME IInv, ~running, queue # << >>, Head(queue).mine, op.pc # "main",
           Around, ~running', UNCHANGED <<table, next>>,
           ListReply(op, table, << >>)
    PROVE  IInv'
<1> DEFINE r == op.request
<1>1. op.pc \in {"before", "after", "confirm", "attribute"}
  BY AwaitedIs DEF IInv, TypeOK, Op, Waiting
<1>2. op \in Op /\ r \in Requests /\ r \in Request /\ table \in Tables
  BY RequestIs DEF IInv, TypeOK, QueueInv
<1>3. op.status = "none"
  BY <1>1 DEF IInv, CallInv
<1>4. GivenUp(<< >>)
  BY NothingGivenUp
<1>5. DOMAIN table \subseteq Numbers /\ Numbers \subseteq Nat /\ None \notin Nat /\ next \in Nat
  BY <1>2, TableIs, BreakpointsAssumption DEF Numbers, IInv, TypeOK
<1>6. \A n \in DOMAIN table : n < next
  BY DEF IInv, NumberInv
<1>7. "list" \in Tools /\ "catch" \in Tools /\ "confirm" \in Late /\ "main" \notin Late
  BY DEF Tools, Creates, Late
<1>8. CASE op.pc = "before"
  <2> DEFINE p == Catchpoints(table)
             e == [op EXCEPT !.previous = p]
  <2>1. p \in SUBSET Numbers /\ p \subseteq DOMAIN table
    BY <1>5 DEF Catchpoints
  <2>2. Proceed(e, "main", "catch", << >>)
    BY <1>8 DEF ListReply
  <2>3. r.tool = "catch" /\ op.number = None
    BY <1>8 DEF IInv, CallInv
  <2> HIDE DEF p
  <2>4. /\ e \in Op /\ e.request = r /\ e.number = None /\ e.status = "none" /\ e.previous = p
    BY <1>2, <1>3, <2>1, <2>3 DEF Op
  <2> HIDE DEF e
  <2>5. /\ op'.pc = "main" /\ op'.status = "none" /\ op'.request = r /\ op'.number = None
        /\ op'.previous = p
    BY <2>2, <2>4, ProceedIs DEF Steps
  <2>6. MadeInv'
    BY <2>5 DEF MadeInv, Late
  <2>7. CallInv'
    BY <1>6, <2>1, <2>3, <2>5 DEF CallInv
  <2> QED
    BY <1>2, <1>4, <1>7, <2>2, <2>3, <2>4, <2>6, <2>7, ContinueKeeps
<1>9. CASE op.pc = "after"
  <2> DEFINE current == Catchpoints(table)
             n == InferNewCatchpoint(op.previous, current)
  <2>1. /\ r.tool = "catch" /\ op.made # None /\ op.number = None
        /\ op.previous # None => op.made \notin op.previous
    BY <1>9 DEF IInv, CallInv
  <2>2. op.made = next - 1 /\ op.made \in DOMAIN table /\ table[op.made] = NewBreakpoint(r)
    BY <1>9, <2>1 DEF IInv, MadeInv, Late
  <2>3. op.made \in current /\ current \subseteq DOMAIN table
    BY <2>1, <2>2 DEF Catchpoints, NewBreakpoint
  <2>4. \A k \in current : k <= op.made
    BY <1>5, <1>6, <2>2, <2>3
  <2> HIDE DEF current
  <2>5. n = op.made
    <3>1. CASE op.previous = None
      <4>1. Largest(current) = op.made
        BY <1>5, <2>3, <2>4, LargestIs
      <4> QED
        BY <3>1, <4>1 DEF InferNewCatchpoint
    <3>2. CASE op.previous # None
      <4> DEFINE s == current \ op.previous
      <4>1. s \in SUBSET Nat /\ op.made \in s /\ \A k \in s : k <= op.made
        BY <1>5, <2>1, <2>3, <2>4, <3>2
      <4> HIDE DEF s
      <4>2. Largest(s) = op.made
        BY <4>1, LargestIs
      <4> QED
        BY <3>2, <4>2 DEF InferNewCatchpoint, s
    <3> QED
      BY <3>1, <3>2
  <2>6. IF n = None THEN Return(op, "error", "unreported") /\ Done(<< >>)
        ELSE Proceed([op EXCEPT !.number = n], "confirm", "list", << >>)
    BY <1>9 DEF ListReply, current
  <2> DEFINE e == [op EXCEPT !.number = op.made]
  <2>7. Proceed(e, "confirm", "list", << >>)
    BY <2>1, <2>5, <2>6
  <2>8. /\ e \in Op /\ e.request = r /\ e.number = op.made /\ e.status = "none" /\ e.made = op.made
    BY <1>2, <1>3 DEF Op
  <2> HIDE DEF e, n
  <2>9. /\ op'.pc = "confirm" /\ op'.status = "none" /\ op'.request = r /\ op'.number = op.made
        /\ op'.made = op.made
    BY <2>7, <2>8, ProceedIs DEF Steps
  <2>10. MadeInv'
    BY <2>2, <2>9 DEF MadeInv
  <2>11. CallInv'
    BY <2>1, <2>9 DEF CallInv
  <2> QED
    BY <1>2, <1>4, <1>7, <2>7, <2>8, <2>10, <2>11, ContinueKeeps
<1>10. CASE op.pc = "confirm"
  <2>1. queue' = << >> /\ Confirm(op, op.number, table, "unconfirmed")
    BY <1>10 DEF ListReply, Done
  <2>2. /\ r.tool \in {"watch", "catch", "update"} /\ op.number # None
        /\ r.tool = "watch" => op.number = op.made
        /\ r.tool = "catch" => op.noise \/ op.number = op.made
        /\ r.tool = "update" => /\ op.number = r.number
                                /\ op.number \in DOMAIN table
                                /\ table[op.number].condition = r.condition
    BY <1>10 DEF IInv, CallInv
  <2>3. CASE op.number \in DOMAIN table
    <3>1. Answer(op, op.number, table)
      BY <2>1, <2>3 DEF Confirm
    <3>2. /\ op' \in Op /\ op'.pc = "returned" /\ op'.status = "success"
          /\ op'.request = r /\ op'.number = op.number /\ op'.breakpoint = table[op.number]
          /\ op'.made = op.made /\ op'.noise = op.noise
      BY <1>2, <2>3, <3>1, AnswerIs
    <3>3. op.number = op.made => table[op.number] = NewBreakpoint(r)
      BY <1>10, <2>2 DEF IInv, MadeInv, Late
    <3>4. SuccessIsFinal'
      BY <2>1, <2>2, <2>3, <3>2, <3>3 DEF SuccessIsFinal, NewBreakpoint
    <3>5. MostlyNamesItsOwn'
      BY <2>2, <3>2 DEF MostlyNamesItsOwn, CreateNamesItsOwn, Succeeded, Creates
    <3> QED
      BY <1>2, <2>1, <3>2, <3>4, <3>5, SuccessKeeps
  <2>4. CASE op.number \notin DOMAIN table
    <3> DEFINE e == [op EXCEPT !.number = op.number]
    <3>1. e \in Op /\ e.request = r
      BY <1>2 DEF Op
    <3>2. Return(e, "error", "unconfirmed")
      BY <2>1, <2>4 DEF Confirm
    <3> HIDE DEF e
    <3> QED
      BY <1>2, <1>4, <2>1, <3>1, <3>2, ErrorKeeps DEF Codes
  <2> QED
    BY <2>3, <2>4
<1>11. CASE op.pc = "attribute"
  <2> DEFINE s == {n \in DOMAIN table : table[n].kind # "catch" /\ table[n].place = r.place}
             created == Smallest(s)
  <2>1. queue' = << >> /\ Attribute(op, table)
    BY <1>11 DEF ListReply, Done
  <2>2. created = FindForLocation(table, op.request.place)
    BY DEF FindForLocation
  <2>3. s \in SUBSET Nat /\ s \subseteq DOMAIN table
    BY <1>5
  <2>4. created # None => created \in s
    <3> HIDE DEF s
    <3> QED
      BY <2>3, SmallestIs
  <2>5. \A n \in s : table[n].place = r.place
    OBVIOUS
  <2> HIDE DEF created, s
  <2>6. CASE created = None
    <3>1. Return(op, "error", "blocked")
      BY <2>1, <2>2, <2>6 DEF Attribute
    <3> QED
      BY <1>2, <1>4, <2>1, <3>1, ErrorKeeps DEF Codes
  <2>7. CASE created # None /\ created \in op.blocked
    <3> DEFINE e == [op EXCEPT !.number = created]
    <3>1. e \in Op /\ e.request = r
      BY <1>2, <1>5, <2>3, <2>4, <2>7 DEF Op
    <3>2. Return(e, "error", "blocked")
      BY <2>1, <2>2, <2>7 DEF Attribute
    <3> HIDE DEF e
    <3> QED
      BY <1>2, <1>4, <2>1, <3>1, <3>2, ErrorKeeps DEF Codes
  <2>8. CASE created # None /\ created \notin op.blocked
    <3> DEFINE e == [op EXCEPT !.warned = TRUE]
    <3>1. e \in Op /\ e.request = r /\ e.made = op.made /\ e.warned
      BY <1>2 DEF Op
    <3>2. Answer(e, created, table)
      BY <2>1, <2>2, <2>8 DEF Attribute
    <3> HIDE DEF e
    <3>3. created \in DOMAIN table /\ table[created].place = r.place
      BY <2>3, <2>4, <2>5, <2>8
    <3>4. /\ op' \in Op /\ op'.pc = "returned" /\ op'.status = "success"
          /\ op'.request = r /\ op'.number = created /\ op'.breakpoint = table[created]
          /\ op'.made = op.made /\ op'.warned
      BY <1>2, <3>1, <3>2, <3>3, AnswerIs
    <3>5. created = op.made => table[created] = NewBreakpoint(r)
      BY <1>11, <2>8 DEF IInv, MadeInv, Late
    <3>6. r.tool = "code"
      BY <1>11 DEF IInv, CallInv
    <3>7. SuccessIsFinal'
      BY <2>1, <3>3, <3>4, <3>5, <3>6 DEF SuccessIsFinal, NewBreakpoint
    <3>8. MostlyNamesItsOwn'
      BY <3>3, <3>4 DEF MostlyNamesItsOwn, CreateNamesItsOwn, Duplicate
    <3> QED
      BY <1>2, <2>1, <3>4, <3>7, <3>8, SuccessKeeps
  <2> QED
    BY <2>6, <2>7, <2>8
<1> QED
  BY <1>1, <1>8, <1>9, <1>10, <1>11

LEMMA ExecuteKeeps == IInv /\ Execute => IInv'
<1> SUFFICES ASSUME IInv, Execute PROVE IInv'
  OBVIOUS
<1>1. queue # << >> /\ ~running
  BY DEF Execute
<1>2. PICK ok \in BOOLEAN, number \in Numbers \cup {None}, blocked \in SUBSET Numbers,
           t \in Tables, text \in Numbers \cup {None} :
           /\ Outcome(Head(queue), ok, number, blocked, t, text)
           /\ Reply(ok, number, blocked, t, text)
  BY ExecuteOutcome
<1>3. /\ Around /\ table' = t /\ UNCHANGED running /\ next' >= next
      /\ number = None => next' = next
  BY <1>2, ReplyAround
<1>4. CASE ~(Head(queue).mine /\ Waiting)
  <2>1. queue' = Tail(queue) /\ op' = op
    BY <1>2, <1>4 DEF Reply, Done
  <2> QED
    BY <1>1, <1>3, <1>4, <2>1, OtherReplyKeeps
<1>5. CASE Head(queue).mine /\ Waiting /\ op.pc = "main"
  <2>1. PICK told \in {number, None} :
             MainReply(Hearing(number), ok, told, blocked, t, First(console, text), Tail(queue))
    BY <1>2, <1>5 DEF Reply, Hearing
  <2> QED
    BY <1>1, <1>2, <1>5, <2>1, MainReplyKeeps
<1>6. CASE Head(queue).mine /\ Waiting /\ op.pc # "main"
  <2>1. ListReply(op, t, Tail(queue))
    BY <1>2, <1>6 DEF Reply
  <2>2. Tail(queue) = << >> /\ Head(queue) = Awaited
    BY <1>1, <1>6, AwaitedIs
  <2>3. Head(queue).name = "list"
    BY <1>6, <2>2 DEF Awaited, NewCommand
  <2>4. t = table /\ number = None
    BY <1>2, <2>3 DEF Outcome
  <2>5. UNCHANGED <<table, next>> /\ ListReply(op, table, << >>)
    BY <1>3, <2>1, <2>2, <2>4
  <2> QED
    BY <1>1, <1>3, <1>6, <2>5, ListReplyKeeps
<1> QED
  BY <1>4, <1>5, <1>6

-----------------------------------------------------------------------------
(* The theorems *)

\* The invariant of the breakpoint service and GDB's table.
THEOREM InvariantHolds == Spec => []IInv
<1>1. IInv /\ [Next]_vars => IInv'
  BY StutterKeeps, CallKeeps, AnsweredKeeps, TimeOutKeeps, ExecuteKeeps, ResumeKeeps,
     OtherReadsKeeps, StopKeeps DEF Next
<1> QED
  BY <1>1, InitKeeps, PTL DEF Spec

\* The table, the queue and the call in progress are always well formed; in
\* particular a call never answers with a breakpoint number GDB has not given.
THEOREM BreakpointsTypeCorrect == Spec => []TypeOK
<1>1. IInv => TypeOK
  BY DEF IInv
<1> QED
  BY <1>1, InvariantHolds, PTL

\* What set_breakpoint, update, enable, disable and delete report as done is in
\* GDB's table and stays there: no command given up before is still to come.
\* (That a breakpoint has the number is not said of delete, enable and disable,
\* which GDB acknowledges for any number.)
THEOREM SuccessesAreFinal == Spec => []SuccessIsFinal
<1>1. IInv => SuccessIsFinal
  BY DEF IInv, DoneInv
<1> QED
  BY <1>1, InvariantHolds, PTL

\* _infer_new_catchpoint_number and _attribute_insert_failure find the
\* breakpoint the call has made, but for a duplicate at the same location and
\* for text of another catchpoint.
THEOREM CreatesNameTheirOwn == Spec => []MostlyNamesItsOwn
<1>1. IInv => MostlyNamesItsOwn
  BY DEF IInv, DoneInv
<1> QED
  BY <1>1, InvariantHolds, PTL

=============================================================================
