------------------------------- MODULE Daemon -------------------------------
(***************************************************************************)
(* The background server of one project and the command-line clients that  *)
(* share it: client/daemon.py, the parts of client/cli.py that use it, and *)
(* the life of the HTTP server (mcp/app.py).                               *)
(*                                                                         *)
(* A client is one invocation of gdb-mcp-client.  Clients communicate only *)
(* through three files, each replaced or removed atomically: the cookie    *)
(* (which server, and the default session), the ready file a new server    *)
(* writes, and the lock file.  A server handles one tool call at a time:   *)
(* the handlers are synchronous and run on its event loop, so while a call *)
(* is under way it answers nothing else.                                   *)
(*                                                                         *)
(* Sessions are numbered per server; what the cookie remembers is the      *)
(* number alone.                                                           *)
(***************************************************************************)
EXTENDS Integers, FiniteSets

CONSTANTS
    Clients,    \* invocations of the command-line client
    Commands,   \* what they may be asked to do
    Slow,       \* a call or a shutdown may outlast the clients' timeouts
    Faults,     \* "killed": a client is interrupted, "crash": a server dies
    None

AllCommands == {"start", "attach", "tool", "close", "use", "status", "stop", "force_stop"}
StopCommands == {"stop", "force_stop"}

ASSUME DaemonAssumption ==
    /\ IsFiniteSet(Clients)
    /\ Commands \subseteq AllCommands
    /\ Slow \in BOOLEAN
    /\ Faults \subseteq {"killed", "crash"}
    /\ None \notin Clients \cup Int

\* A client spawns at most one server; server 1 may be there from before.
Servers == 1..(Cardinality(Clients) + 1)
SessionIds == 1..(Cardinality(Clients) + 1)

\* A file that is not there is told from every cookie.
ASSUME CookieAssumption == None \notin [server : Servers \cup {None}, last : SessionIds \cup {None}]

VARIABLES
    srv,        \* per server: its phase
    busy,       \* per server: the client whose call it executes, or None
    sessions,   \* per server: its live sessions
    alloc,      \* per server: the number of session ids it has given out
    ready,      \* the ready file: the server that wrote it, or None
    cookie,     \* the cookie file, or None
    lock,       \* the client that holds the lock file, or None
    pc,         \* per client: where it is
    cl          \* per client: its local variables

vars == <<srv, busy, sessions, alloc, ready, cookie, lock, pc, cl>>
files == <<ready, cookie>>
server == <<srv, busy, sessions, alloc>>

ResolveSteps == {"r_read", "r_probe", "r_lock", "r_read2", "r_probe2",
                 "s_spawn", "s_ready", "s_probe", "s_cookie"}
CallSteps    == {"g_read", "i_send", "i_wait", "m_lock", "m_write",
                 "f_check", "f_lock", "f_write"}
MetaSteps    == {"d_read", "d_probe", "d_remove", "x_read", "x_post", "x_wait",
                 "x_term", "x_wait2", "x_remove"}

TypeOK ==
    /\ srv \in [Servers -> {"none", "booting", "serving", "ending", "closed", "dead"}]
    /\ busy \in [Servers -> Clients \cup {None}]
    /\ sessions \in [Servers -> SUBSET SessionIds]
    /\ alloc \in [Servers -> 0..Cardinality(SessionIds)]
    /\ ready \in Servers \cup {None}
    /\ cookie = None \/ cookie \in [server : Servers \cup {None}, last : SessionIds \cup {None}]
    /\ lock \in Clients \cup {None}
    /\ pc \in [Clients -> {"new", "done"} \cup ResolveSteps \cup CallSteps \cup MetaSteps]
    /\ cl \in [Clients ->
                 [cmd  : AllCommands \cup {None},
                  call : {"start", "tool", "close", "use", None},
                  seen : Servers \cup {None},         \* the server a cookie named
                  res  : Servers \cup {None},         \* resolved.url
                  own  : Servers \cup {None},         \* the spawned process
                  sid  : SessionIds \cup {None}]]     \* args.session_id

NewClient == [cmd |-> None, call |-> None, seen |-> None, res |-> None, own |-> None,
              sid |-> None]

\* A project without a server, with an idle server, or with a server that
\* has one live session, the default one.
Init ==
    /\ \E warm, live \in BOOLEAN :
          /\ live => warm
          /\ srv = [s \in Servers |-> IF s = 1 /\ warm THEN "serving" ELSE "none"]
          /\ sessions = [s \in Servers |-> IF s = 1 /\ live THEN {1} ELSE {}]
          /\ alloc = [s \in Servers |-> IF s = 1 /\ live THEN 1 ELSE 0]
          /\ ready = IF warm THEN 1 ELSE None
          /\ cookie = IF ~warm THEN None
                      ELSE [server |-> 1,
                            last |-> IF live THEN 1 ELSE None]
    /\ busy = [s \in Servers |-> None]
    /\ lock = None
    /\ pc = [c \in Clients |-> "new"]
    /\ cl = [c \in Clients |-> NewClient]

-----------------------------------------------------------------------------
(* Helpers *)

At(c, step) == pc[c] = step
Goto(c, step) == pc' = [pc EXCEPT ![c] = step]
Phase(s, phase) == srv' = [srv EXCEPT ![s] = phase]

\* The server accepts connections; it answers one when no call is under way.
\* A cookie without a url (None) leads to no server.
Accepting(s) == s # None /\ srv[s] \in {"serving", "ending"}
Answers(s)   == Accepting(s) /\ busy[s] = None

\* A request with a timeout gets no answer.
Unanswered(s) == ~Accepting(s) \/ (Accepting(s) /\ Slow /\ busy[s] # None)

Alive(s) == srv[s] \in {"booting", "serving", "ending", "closed"}

\* What a reader of the cookie finds; a cookie may lack the server's url.
CookieServer == IF cookie = None THEN None ELSE cookie.server
CookieLast   == IF cookie = None THEN None ELSE cookie.last

-----------------------------------------------------------------------------
(* The server: mcp/app.py.  uvicorn is external. *)

\* _ReadyReportingServer.startup
ServerReady(s) ==
    /\ srv[s] = "booting"
    /\ Phase(s, "serving")
    /\ ready' = s
    /\ UNCHANGED <<busy, sessions, alloc, cookie, lock, pc, cl>>

BootFails(s) ==
    /\ srv[s] = "booting"
    /\ Phase(s, "dead")
    /\ UNCHANGED <<busy, sessions, alloc, files, lock, pc, cl>>

\* _idle_watchdog: no session and a quarter of an hour without a request, so
\* no invocation is between choosing this server and the end of its calls.
IdleExit(s) ==
    /\ srv[s] = "serving" /\ busy[s] = None
    /\ sessions[s] = {}
    /\ \A c \in Clients : cl[c].res = s => At(c, "done")
    /\ \A c \in Clients : cl[c].own = s => pc[c] \notin {"s_ready", "s_probe", "s_cookie"}
    /\ Phase(s, "ending")
    /\ UNCHANGED <<busy, sessions, alloc, files, lock, pc, cl>>

\* should_exit: the sockets are closed, a call under way is finished ...
ServerCloses(s) ==
    /\ srv[s] = "ending"
    /\ Phase(s, "closed")
    /\ UNCHANGED <<busy, sessions, alloc, files, lock, pc, cl>>

\* ... on_shutdown stops the sessions and the ready file is unlinked.
ServerExits(s) ==
    /\ srv[s] = "closed" /\ busy[s] = None
    /\ Phase(s, "dead")
    /\ sessions' = [sessions EXCEPT ![s] = {}]
    /\ ready' = None
    /\ UNCHANGED <<busy, alloc, cookie, lock, pc, cl>>

\* The process is killed from outside; nothing is cleaned up.
ServerCrashes(s) ==
    /\ "crash" \in Faults
    /\ Alive(s)
    /\ Phase(s, "dead")
    /\ sessions' = [sessions EXCEPT ![s] = {}]
    /\ busy' = [busy EXCEPT ![s] = None]
    /\ UNCHANGED <<alloc, files, lock, pc, cl>>

-----------------------------------------------------------------------------
(* resolve_server *)

Invoke(c, command) ==
    /\ At(c, "new")
    /\ cl' = [cl EXCEPT ![c].cmd = command,
                        ![c].call = CASE command \in {"start", "tool", "close", "use"} -> command
                                      [] command = "attach" -> "tool"
                                      [] OTHER -> None]
    /\ Goto(c, CASE command = "status" -> "d_read"
                 [] command \in StopCommands -> "x_read"
                 [] OTHER -> "r_read")
    /\ UNCHANGED <<server, files, lock>>

\* The step after the server is known.  "session use" names its session.
AfterResolve(c) ==
    CASE cl[c].cmd = "start" -> "i_send"
      [] cl[c].cmd = "use"   -> "i_send"
      [] OTHER               -> "g_read"

\* For "use" the user names any session id.
Resolved(c, s) ==
    /\ IF cl[c].cmd = "use"
       THEN \E id \in SessionIds :
               cl' = [cl EXCEPT ![c].res = s, ![c].sid = id]
       ELSE cl' = [cl EXCEPT ![c].res = s]
    /\ Goto(c, AfterResolve(c))

\* The cookie is read without the lock first, and again under it.
ReadCookie(c) ==
    /\ \/ At(c, "r_read") /\ Goto(c, IF CookieServer = None THEN "r_lock" ELSE "r_probe")
       \/ At(c, "r_read2") /\ Goto(c, IF cookie = None THEN "s_spawn" ELSE "r_probe2")
    /\ cl' = [cl EXCEPT ![c].seen = CookieServer]
    /\ UNCHANGED <<server, files, lock>>

ProbeSucceeds(c) ==
    /\ At(c, "r_probe") \/ At(c, "r_probe2")
    /\ Answers(cl[c].seen)
    /\ Resolved(c, cl[c].seen)
    /\ lock' = IF At(c, "r_probe2") THEN None ELSE lock
    /\ UNCHANGED <<server, files>>

\* Under the lock a cookie whose server does not answer is removed.
ProbeFails(c) ==
    /\ \/ At(c, "r_probe") /\ Goto(c, "r_lock") /\ UNCHANGED cookie
       \/ At(c, "r_probe2") /\ Goto(c, "s_spawn") /\ cookie' = None
    /\ Unanswered(cl[c].seen)
    /\ UNCHANGED <<server, ready, lock, cl>>

\* Broken variant for mutation: the lock file is opened but not locked.
TakeLockUnlocked(c) ==
    /\ At(c, "r_lock")
    /\ lock' = c
    /\ Goto(c, "r_read2")
    /\ UNCHANGED <<server, files, cl>>

TakeLock(c) ==
    /\ At(c, "r_lock")
    /\ lock = None
    /\ lock' = c
    /\ Goto(c, "r_read2")
    /\ UNCHANGED <<server, files, cl>>

-----------------------------------------------------------------------------
(* _spawn, under the lock *)

Spawn(c) ==
    /\ At(c, "s_spawn")
    /\ \E s \in Servers :
          /\ srv[s] = "none" /\ \A r \in Servers : r < s => srv[r] # "none"
          /\ Phase(s, "booting")
          /\ cl' = [cl EXCEPT ![c].own = s]
    /\ ready' = None
    /\ Goto(c, "s_ready")
    /\ UNCHANGED <<busy, sessions, alloc, cookie, lock>>

\* _wait_for_ready finds a ready file; `seen' is now the server it names.
ReadyFound(c) ==
    /\ At(c, "s_ready")
    /\ ready # None
    /\ cl' = [cl EXCEPT ![c].seen = ready]
    /\ Goto(c, "s_probe")
    /\ UNCHANGED <<server, files, lock>>

\* The probe carries the token of the spawned server, so that another server
\* refuses it.  (A token of the user's environment, which every server of the
\* project then shares, is left out: with it the probe of another server's
\* ready file succeeds.)
SpawnProbed(c) ==
    /\ At(c, "s_probe")
    /\ cl[c].seen = cl[c].own /\ Answers(cl[c].own)
    /\ Goto(c, "s_cookie")
    /\ UNCHANGED <<server, files, lock, cl>>

\* Broken variant for mutation: the process is left behind.
SpawnFailsWithoutKill(c) ==
    LET s == cl[c].own
    IN  /\ \/ At(c, "s_ready") /\ ready = None /\ (~Alive(s) \/ Slow \/ srv[s] # "booting")
           \/ At(c, "s_probe") /\ (~Alive(s) \/ (Slow /\ ~Answers(s)) \/ cl[c].seen # s)
        /\ lock' = None
        /\ Goto(c, "done")
        /\ UNCHANGED <<server, files, cl>>

\* The process has ended, or a deadline passed: it is killed and the
\* invocation fails.  Unless servers are slow, the deadline only passes when
\* what the client waits for can no longer come: the ready file has been
\* removed by a server that ended, or names another server.
SpawnFails(c) ==
    LET s == cl[c].own
    IN  /\ \/ /\ At(c, "s_ready") /\ ready = None
              /\ ~Alive(s) \/ Slow \/ srv[s] # "booting"
           \/ /\ At(c, "s_probe")
              /\ ~Alive(s) \/ (Slow /\ ~Answers(s)) \/ cl[c].seen # s
        /\ IF Alive(s) THEN Phase(s, "dead") ELSE UNCHANGED srv
        /\ sessions' = [sessions EXCEPT ![s] = {}]
        /\ lock' = None
        /\ Goto(c, "done")
        /\ UNCHANGED <<busy, alloc, files, cl>>

\* _write_cookie; the new cookie remembers no session.
WriteCookie(c) ==
    /\ At(c, "s_cookie")
    /\ cookie' = [server |-> cl[c].own, last |-> None]
    /\ lock' = None
    /\ Resolved(c, cl[c].own)
    /\ UNCHANGED <<server, ready>>

-----------------------------------------------------------------------------
(* One tool call, and the default session (client/cli.py) *)

\* remembered_session_id(): without one "attach" starts a session and the
\* other commands end with a usage error.
GetSession(c) ==
    /\ At(c, "g_read")
    /\ \/ /\ CookieLast # None
          /\ cl' = [cl EXCEPT ![c].sid = CookieLast]
          /\ Goto(c, "i_send")
       \/ /\ CookieLast = None /\ cl[c].cmd = "attach"
          /\ cl' = [cl EXCEPT ![c].call = "start"]
          /\ Goto(c, "i_send")
       \/ /\ CookieLast = None /\ cl[c].cmd # "attach"
          /\ Goto(c, "done")
          /\ UNCHANGED cl
    /\ UNCHANGED <<server, files, lock>>

CallSent(c) ==
    /\ At(c, "i_send")
    /\ Answers(cl[c].res)
    /\ busy' = [busy EXCEPT ![cl[c].res] = c]
    /\ Goto(c, "i_wait")
    /\ UNCHANGED <<srv, sessions, alloc, files, lock, cl>>

\* The connection is refused, or lost with its server.
CallLost(c) ==
    /\ \/ At(c, "i_send") /\ ~Accepting(cl[c].res)
       \/ At(c, "i_wait") /\ busy[cl[c].res] # c
    /\ Goto(c, "done")
    /\ UNCHANGED <<server, files, lock, cl>>

\* The call's effect on the server, and what the client does with a success.
CallSucceeds(s) ==
    /\ busy[s] # None
    /\ LET c  == busy[s]
           id == IF cl[c].call = "start" THEN alloc[s] + 1 ELSE cl[c].sid
           next == CASE cl[c].call = "start" -> "m_lock"
                     [] cl[c].call = "use"   -> "m_lock"
                     [] cl[c].call = "close" -> "f_check"
                     [] OTHER                -> "done"
       IN  /\ IF cl[c].call = "start"
              THEN /\ alloc' = [alloc EXCEPT ![s] = id]
                   /\ sessions' = [sessions EXCEPT ![s] = @ \cup {id}]
              ELSE /\ id \in sessions[s]
                   /\ sessions' = [sessions EXCEPT ![s] =
                                     IF cl[c].call = "close" THEN @ \ {id} ELSE @]
                   /\ UNCHANGED alloc
           /\ IF At(c, "i_wait")
              THEN /\ cl' = IF cl[c].call = "start"
                            THEN [cl EXCEPT ![c].sid = id]
                            ELSE cl
                   /\ Goto(c, next)
              ELSE UNCHANGED <<cl, pc>>
    /\ busy' = [busy EXCEPT ![s] = None]
    /\ UNCHANGED <<srv, files, lock>>

\* The session is not there, or the tool fails for a reason of its own.
CallFails(s) ==
    /\ busy[s] # None
    /\ busy' = [busy EXCEPT ![s] = None]
    /\ pc' = [pc EXCEPT ![busy[s]] = "done"]
    /\ UNCHANGED <<srv, sessions, alloc, files, lock, cl>>

\* remember_session_id and forget_session_id read the cookie and write it
\* back under the lock; daemon_status and stop_daemon remove it without.
RememberRead(c) ==
    /\ At(c, "m_lock")
    /\ lock = None
    /\ lock' = c
    /\ cl' = [cl EXCEPT ![c].seen = CookieServer]
    /\ Goto(c, "m_write")
    /\ UNCHANGED <<server, files>>

\* "attach" goes on with the session it has started.
RememberWrite(c) ==
    /\ At(c, "m_write")
    /\ cookie' = [server |-> cl[c].seen, last |-> cl[c].sid]
    /\ lock' = None
    /\ IF cl[c].cmd = "attach"
       THEN Goto(c, "i_send") /\ cl' = [cl EXCEPT ![c].call = "tool"]
       ELSE Goto(c, "done") /\ UNCHANGED cl
    /\ UNCHANGED <<server, ready>>

\* "stop" of a session forgets it if it is the remembered one: the ids are
\* compared first, and the cookie is changed later.
ForgetCheck(c) ==
    /\ At(c, "f_check")
    /\ Goto(c, IF CookieLast # None /\ CookieLast = cl[c].sid THEN "f_lock" ELSE "done")
    /\ UNCHANGED <<server, files, lock, cl>>

ForgetRead(c) ==
    /\ At(c, "f_lock")
    /\ lock = None
    /\ IF CookieLast = None
       THEN Goto(c, "done") /\ UNCHANGED <<lock, cl>>
       ELSE /\ lock' = c
            /\ cl' = [cl EXCEPT ![c].seen = CookieServer]
            /\ Goto(c, "f_write")
    /\ UNCHANGED <<server, files>>

ForgetWrite(c) ==
    /\ At(c, "f_write")
    /\ cookie' = [server |-> cl[c].seen, last |-> None]
    /\ lock' = None
    /\ Goto(c, "done")
    /\ UNCHANGED <<server, ready, cl>>

-----------------------------------------------------------------------------
(* daemon status and daemon stop *)

StatusRead(c) ==
    /\ At(c, "d_read")
    /\ cl' = [cl EXCEPT ![c].seen = CookieServer]
    /\ Goto(c, IF cookie = None THEN "done" ELSE "d_probe")
    /\ UNCHANGED <<server, files, lock>>

StatusProbe(c) ==
    /\ At(c, "d_probe")
    /\ \/ Answers(cl[c].seen) /\ Goto(c, "done")
       \/ Unanswered(cl[c].seen) /\ Goto(c, "d_remove")
    /\ UNCHANGED <<server, files, lock, cl>>

\* _remove_cookie, whatever the cookie has become since it was read.
RemoveCookie(c) ==
    /\ At(c, "d_remove") \/ At(c, "x_remove")
    /\ cookie' = None
    /\ Goto(c, "done")
    /\ UNCHANGED <<server, ready, lock, cl>>

StopRead(c) ==
    /\ At(c, "x_read")
    /\ cl' = [cl EXCEPT ![c].seen = CookieServer]
    /\ Goto(c, CASE cookie = None       -> "done"
                 [] CookieServer = None -> "x_remove"
                 [] OTHER               -> "x_post")
    /\ UNCHANGED <<server, files, lock>>

\* Broken variant for mutation: the endpoint does not look for sessions.
StopPostUnchecked(c) ==
    LET s == cl[c].seen
    IN  /\ At(c, "x_post")
        /\ \/ Answers(s) /\ Goto(c, "x_wait") /\ Phase(s, "ending")
           \/ Unanswered(s) /\ Goto(c, "x_wait") /\ UNCHANGED srv
        /\ UNCHANGED <<busy, sessions, alloc, files, lock, cl>>

\* POST /shutdown: refused with 409 while sessions are active, unless forced;
\* an unanswered request is taken for a server that needs a signal.
StopPost(c) ==
    LET s == cl[c].seen
        refuses == cl[c].cmd = "stop" /\ sessions[s] # {}
    IN  /\ At(c, "x_post")
        /\ \/ Answers(s) /\ refuses /\ Goto(c, "done") /\ UNCHANGED srv
           \/ Answers(s) /\ ~refuses /\ Goto(c, "x_wait") /\ Phase(s, "ending")
           \/ Unanswered(s) /\ Goto(c, "x_wait") /\ UNCHANGED srv
        /\ UNCHANGED <<busy, sessions, alloc, files, lock, cl>>

\* Broken variant for mutation: no deadline.
StopWaitForever(c) ==
    /\ \/ At(c, "x_wait") /\ Goto(c, "x_remove")
       \/ At(c, "x_wait2") /\ Goto(c, "x_remove")
    /\ ~Alive(cl[c].seen)
    /\ UNCHANGED <<server, files, lock, cl>>

\* The process is gone, or ten (then three) seconds have passed.
StopWait(c) ==
    /\ \/ At(c, "x_wait") /\ Goto(c, IF Alive(cl[c].seen) THEN "x_term" ELSE "x_remove")
       \/ At(c, "x_wait2") /\ Goto(c, "x_remove")
    /\ Slow \/ ~Alive(cl[c].seen)
    /\ UNCHANGED <<server, files, lock, cl>>

\* SIGTERM makes the server end as /shutdown does.  If the process has just
\* ended, os.kill raises and the invocation ends without removing the cookie.
StopTerminate(c) ==
    LET s == cl[c].seen
    IN  /\ At(c, "x_term")
        /\ IF Alive(s)
           THEN /\ Phase(s, IF srv[s] = "serving" THEN "ending" ELSE srv[s])
                /\ Goto(c, "x_wait2")
           ELSE Goto(c, "done") /\ UNCHANGED srv
        /\ UNCHANGED <<busy, sessions, alloc, files, lock, cl>>

-----------------------------------------------------------------------------
\* The user interrupts an invocation: its locks are released, a call it has
\* sent and a server it has spawned live on.
Killed(c) ==
    /\ "killed" \in Faults
    /\ pc[c] \notin {"new", "done"}
    /\ Goto(c, "done")
    /\ lock' = IF lock = c THEN None ELSE lock
    /\ UNCHANGED <<server, files, cl>>

Client(c) ==
    \/ ReadCookie(c) \/ ProbeSucceeds(c) \/ ProbeFails(c) \/ TakeLock(c)
    \/ Spawn(c) \/ ReadyFound(c) \/ SpawnProbed(c) \/ SpawnFails(c) \/ WriteCookie(c)
    \/ GetSession(c) \/ CallSent(c) \/ CallLost(c)
    \/ RememberRead(c) \/ RememberWrite(c)
    \/ ForgetCheck(c) \/ ForgetRead(c) \/ ForgetWrite(c)
    \/ StatusRead(c) \/ StatusProbe(c) \/ RemoveCookie(c)
    \/ StopRead(c) \/ StopPost(c) \/ StopWait(c) \/ StopTerminate(c)

Server(s) == ServerCloses(s) \/ ServerExits(s) \/ CallSucceeds(s) \/ CallFails(s)

Boot(s) == ServerReady(s) \/ BootFails(s)

Next ==
    \/ \E c \in Clients : Client(c) \/ Killed(c) \/ \E command \in Commands : Invoke(c, command)
    \/ \E s \in Servers : Server(s) \/ Boot(s) \/ IdleExit(s) \/ ServerCrashes(s)

Spec == Init /\ [][Next]_vars

\* An invocation that can go on does (every wait of it is bounded by a
\* timeout), and a server boots, finishes its calls and its shutdown.
Fairness ==
    /\ \A c \in Clients : WF_vars(Client(c))
    /\ \A s \in Servers : WF_vars(Server(s)) /\ WF_vars(Boot(s))

LiveSpec == Spec /\ Fairness

-----------------------------------------------------------------------------
(* Properties *)

\* One project, one background server: never two that take new work.
OneServer == \A r, s \in Servers : (srv[r] = "serving" /\ srv[s] = "serving") => r = s

\* No server is lost: one that serves is named by the cookie, unless the
\* invocation that spawned it has yet to write the cookie.
NoOrphan ==
    \A s \in Servers : srv[s] = "serving" =>
        CookieServer = s \/ \E c \in Clients : cl[c].own = s /\ pc[c] \in ResolveSteps

\* A server that has live sessions decides to end (sets should_exit) only when
\* it is asked with force or gets a signal, and the signal is sent only by an
\* invocation whose request it has not answered in time.  This is about the
\* decision: until uvicorn closes its sockets the server still takes calls, and
\* a session opened then ends with it, though nobody forced anything.
DecidesToEndOnDemand ==
    [][ \A s \in Servers :
          (srv[s] = "serving" /\ srv'[s] = "ending" /\ sessions[s] # {}) =>
              \E c \in Clients :
                  /\ cl[c].seen = s
                  /\ \/ At(c, "x_post") /\ cl[c].cmd = "force_stop"
                     \/ At(c, "x_term") ]_vars

\* Every invocation ends: nobody waits for ever for the lock, for a server
\* that does not come up, or for one that does not go away.
InvocationEnds == \A c \in Clients : (pc[c] # "new") ~> At(c, "done")
=============================================================================
