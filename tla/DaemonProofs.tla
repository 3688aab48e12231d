---------------------------- MODULE DaemonProofs ----------------------------
(***************************************************************************)
(* Proofs about Daemon, for any number of invocations, servers and         *)
(* sessions.                                                               *)
(***************************************************************************)
EXTENDS Daemon, FiniteSetTheorems, TLAPS

-----------------------------------------------------------------------------
(* The invariant of every project *)

LockSteps == {"r_read2", "r_probe2", "s_spawn", "s_ready", "s_probe", "s_cookie",
              "m_write", "f_write"}
StopSteps == {"x_read", "x_post", "x_wait", "x_term", "x_wait2", "x_remove"}

\* The lock file is held by the invocation that is between taking and
\* releasing it, and by no other.
LockInv == \A c \in Clients : pc[c] \in LockSteps <=> lock = c

\* A server executes the call of a client that has sent it there, and that
\* waits for it or is gone.
CallerInv ==
    \A s \in Servers : busy[s] # None =>
        cl[busy[s]].res = s /\ pc[busy[s]] \in {"i_wait", "done"}

\* Only "daemon stop" takes the steps of a stop.
StopInv == \A c \in Clients : pc[c] \in StopSteps => cl[c].cmd \in StopCommands

\* The client will not start a session on server s any more.
Spent(c, s) ==
    /\ cl[c].res = s /\ pc[c] \notin ResolveSteps \cup {"new", "g_read"}
    /\ cl[c].call = "start" => pc[c] \notin {"i_send", "i_wait"} /\ busy[s] # c
SpentClients(s) == {c \in Clients : Spent(c, s)}

\* A server has given out no more ids than there are clients that started a
\* session on it, and the one that was there from before.
AllocInv == \A s \in Servers : alloc[s] <= Cardinality(SpentClients(s)) + 1

ProjectInv == TypeOK /\ LockInv /\ CallerInv /\ StopInv /\ AllocInv

-----------------------------------------------------------------------------
(* The invariant of a project whose cookie is changed under the lock only *)

SpawnSteps == {"s_ready", "s_probe", "s_cookie"}

\* No request outlasts its timeout, no invocation is interrupted, and nobody
\* asks for the status of the server or for its end: the commands that remove
\* the cookie without the lock.
Undisturbed ==
    /\ ~Slow /\ "killed" \notin Faults
    /\ Commands \cap ({"status"} \cup StopCommands) = {}

NoMeta == \A c \in Clients : pc[c] \notin MetaSteps

\* What the holder of the lock has read is still in the cookie, and the one
\* that spawns has removed it.
HolderInv ==
    \A c \in Clients :
        /\ pc[c] \in {"r_probe2", "m_write", "f_write"} => cl[c].seen = CookieServer
        /\ pc[c] \in {"s_spawn"} \cup SpawnSteps => cookie = None
        /\ pc[c] = "s_cookie" => cl[c].own # None /\ srv[cl[c].own] \notin {"none", "booting"}

\* The cookie names a server that has come up.
NamedInv == CookieServer # None => srv[CookieServer] \notin {"none", "booting"}

\* A server that is or will be up is the one the cookie names, or the one the
\* holder of the lock has spawned.
KnownInv ==
    \A s \in Servers : srv[s] \in {"booting", "serving"} =>
        CookieServer = s \/ \E c \in Clients : pc[c] \in SpawnSteps /\ cl[c].own = s

CookieInv == NoMeta /\ HolderInv /\ NamedInv /\ KnownInv

-----------------------------------------------------------------------------
(* Steps of one client *)

Steps == {"new", "done"} \cup ResolveSteps \cup CallSteps \cup MetaSteps
EarlySteps == ResolveSteps \cup {"new", "g_read"}
Phases == {"none", "booting", "serving", "ending", "closed", "dead"}
LocalVars == [cmd  : AllCommands \cup {None},
              call : {"start", "tool", "close", "use", None},
              seen : Servers \cup {None}, res : Servers \cup {None},
              own  : Servers \cup {None}, sid : SessionIds \cup {None}]

ServerTypes ==
    /\ srv \in [Servers -> Phases]
    /\ sessions \in [Servers -> SUBSET SessionIds]
    /\ ready \in Servers \cup {None}
    /\ cookie = None \/ cookie \in [server : Servers \cup {None}, last : SessionIds \cup {None}]
CallTypes ==
    /\ busy \in [Servers -> Clients \cup {None}]
    /\ alloc \in [Servers -> 0..Cardinality(SessionIds)]
ClientTypes ==
    /\ lock \in Clients \cup {None}
    /\ pc \in [Clients -> Steps]
    /\ cl \in [Clients -> LocalVars]

\* The parts of the type invariant.
LEMMA TypeParts ==
    /\ TypeOK <=> ServerTypes /\ CallTypes /\ ClientTypes
    /\ TypeOK' <=> ServerTypes' /\ CallTypes' /\ ClientTypes'
BY DEF TypeOK, ServerTypes, CallTypes, ClientTypes, Steps, Phases, LocalVars

\* Numbers, and None, which is neither a number nor a client nor a cookie.
LEMMA Domains ==
    /\ Cardinality(Clients) \in Nat /\ IsFiniteSet(Clients)
    /\ Servers \subseteq Nat /\ SessionIds \subseteq Nat
    /\ Cardinality(SessionIds) = Cardinality(Clients) + 1
    /\ None \notin Servers /\ None \notin SessionIds /\ None \notin Clients
<1>1. IsFiniteSet(Clients) /\ None \notin Clients /\ None \notin Int
  BY DaemonAssumption
<1>2. Cardinality(Clients) \in Nat
  BY <1>1, FS_CardinalityType
<1>3. Cardinality(SessionIds) = Cardinality(Clients) + 1
  <2>1. 1 \in Int /\ Cardinality(Clients) + 1 \in Int /\ ~(1 > Cardinality(Clients) + 1)
    BY <1>2
  <2>2. Cardinality(1..(Cardinality(Clients) + 1)) = (Cardinality(Clients) + 1) - 1 + 1
    BY <2>1, FS_Interval
  <2> QED
    BY <1>2, <2>2 DEF SessionIds
<1>4. /\ Servers \subseteq Nat /\ SessionIds \subseteq Nat
      /\ None \notin Servers /\ None \notin SessionIds
  BY <1>1, <1>2 DEF Servers, SessionIds
<1> QED
  BY <1>1, <1>2, <1>3, <1>4

\* Client c has gone to step p with local variables r, and the others stand.
Moved(c, p, r) ==
    /\ cl' \in [Clients -> LocalVars] /\ pc' \in [Clients -> Steps]
    /\ pc'[c] = p /\ cl'[c] = r
    /\ \A d \in Clients \ {c} : pc'[d] = pc[d] /\ cl'[d] = cl[d]

\* What Goto and an assignment to the local variables do.
LEMMA MovedIs ==
    ASSUME ClientTypes, NEW c \in Clients, NEW p \in Steps, NEW r \in LocalVars,
           Goto(c, p), cl' = [cl EXCEPT ![c] = r]
    PROVE  Moved(c, p, r)
BY DEF ClientTypes, Goto, Moved

\* The same with the local variables as they are.
LEMMA WentIs ==
    ASSUME ClientTypes, NEW c \in Clients, NEW p \in Steps, Goto(c, p), UNCHANGED cl
    PROVE  Moved(c, p, cl[c]) /\ cl[c] \in LocalVars
BY DEF ClientTypes, Goto, Moved

\* The fields of the local variables.
LEMMA LocalsIs ==
    ASSUME NEW r \in LocalVars
    PROVE  /\ r.seen \in Servers \cup {None} /\ r.res \in Servers \cup {None}
           /\ r.own \in Servers \cup {None} /\ r.sid \in SessionIds \cup {None}
BY DEF LocalVars

\* An assignment to one of them.
LEMMA SeenIs ==
    ASSUME NEW r \in LocalVars, NEW v \in Servers \cup {None}
    PROVE  LET q == [r EXCEPT !.seen = v]
           IN  /\ q \in LocalVars /\ q.cmd = r.cmd /\ q.call = r.call /\ q.seen = v
               /\ q.res = r.res /\ q.own = r.own /\ q.sid = r.sid
BY DEF LocalVars

\* The same.
LEMMA ResIs ==
    ASSUME NEW r \in LocalVars, NEW v \in Servers \cup {None}
    PROVE  LET q == [r EXCEPT !.res = v]
           IN  /\ q \in LocalVars /\ q.cmd = r.cmd /\ q.call = r.call /\ q.res = v
               /\ q.seen = r.seen /\ q.own = r.own /\ q.sid = r.sid
BY DEF LocalVars

\* The same.
LEMMA OwnIs ==
    ASSUME NEW r \in LocalVars, NEW v \in Servers \cup {None}
    PROVE  LET q == [r EXCEPT !.own = v]
           IN  /\ q \in LocalVars /\ q.cmd = r.cmd /\ q.call = r.call /\ q.own = v
               /\ q.seen = r.seen /\ q.res = r.res /\ q.sid = r.sid
BY DEF LocalVars

\* The same.
LEMMA SidIs ==
    ASSUME NEW r \in LocalVars, NEW v \in SessionIds \cup {None}
    PROVE  LET q == [r EXCEPT !.sid = v]
           IN  /\ q \in LocalVars /\ q.cmd = r.cmd /\ q.call = r.call /\ q.sid = v
               /\ q.seen = r.seen /\ q.res = r.res /\ q.own = r.own
BY DEF LocalVars

\* The same.
LEMMA CallIs ==
    ASSUME NEW r \in LocalVars, NEW v \in {"start", "tool", "close", "use", None}
    PROVE  LET q == [r EXCEPT !.call = v]
           IN  /\ q \in LocalVars /\ q.cmd = r.cmd /\ q.call = v /\ q.sid = r.sid
               /\ q.seen = r.seen /\ q.res = r.res /\ q.own = r.own
BY DEF LocalVars

\* What a reader of the cookie finds.
LEMMA CookieIs ==
    ASSUME ServerTypes
    PROVE  CookieServer \in Servers \cup {None} /\ CookieLast \in SessionIds \cup {None}
BY DEF ServerTypes, CookieServer, CookieLast

\* The number of spent clients only grows, so the ids it allows stay allowed.
LEMMA SpentGrow ==
    ASSUME NEW S, NEW T, S \subseteq T, T \subseteq Clients
    PROVE  /\ Cardinality(S) \in Nat /\ Cardinality(T) \in Nat
           /\ Cardinality(S) <= Cardinality(T) /\ Cardinality(T) <= Cardinality(Clients)
<1>1. IsFiniteSet(Clients)
  BY Domains
<1>2. IsFiniteSet(T) /\ Cardinality(T) <= Cardinality(Clients)
  BY <1>1, FS_Subset
<1>3. IsFiniteSet(S) /\ Cardinality(S) <= Cardinality(T)
  BY <1>2, FS_Subset
<1> QED
  BY <1>2, <1>3, FS_CardinalityType

\* A client's step that is neither the sending of a call nor its end: it takes
\* or releases the lock as its place says, and gives up nothing it has spent.
LEMMA ClientStep ==
    ASSUME ProjectInv, NEW c \in Clients, NEW p \in Steps, NEW r \in LocalVars, Moved(c, p, r),
           ServerTypes', UNCHANGED <<busy, alloc>>, lock' \in Clients \cup {None},
           p \in LockSteps <=> lock' = c,
           \A d \in Clients \ {c} : lock' = d <=> lock = d,
           pc[c] # "done", pc[c] = "i_wait" => p = "done" /\ r = cl[c],
           p \in StopSteps => r.cmd \in StopCommands,
           \/ pc[c] \in EarlySteps
           \/ /\ r.res = cl[c].res /\ p \notin EarlySteps
              /\ r.call = "start" => cl[c].call = "start" /\ p \notin {"i_send", "i_wait"}
    PROVE  ProjectInv'
<1>1. ClientTypes' /\ CallTypes'
  BY DEF Moved, ClientTypes, CallTypes, ProjectInv, TypeOK
<1>2. TypeOK'
  BY <1>1, TypeParts
<1>3. LockInv' /\ StopInv'
  BY DEF Moved, ProjectInv, LockInv, StopInv
<1>4. CallerInv'
  BY DEF Moved, ProjectInv, CallerInv, TypeOK
<1>5. AllocInv'
  <2>1. SUFFICES ASSUME NEW s \in Servers PROVE (alloc[s] <= Cardinality(SpentClients(s)) + 1)'
    BY DEF AllocInv
  <2>2. \A d \in Clients : Spent(d, s) => Spent(d, s)'
    BY DEF Moved, Spent, EarlySteps
  <2>3. SpentClients(s) \subseteq SpentClients(s)' /\ SpentClients(s)' \subseteq Clients
    BY <2>2 DEF SpentClients
  <2>4. alloc[s] \in Nat /\ alloc[s] <= Cardinality(SpentClients(s)) + 1
    BY Domains DEF ProjectInv, AllocInv, TypeOK
  <2> QED
    BY <2>3, <2>4, SpentGrow
<1> QED
  BY <1>2, <1>3, <1>4, <1>5 DEF ProjectInv

\* A server's step that has nothing to do with calls.
LEMMA ServerStep ==
    ASSUME ProjectInv, ServerTypes', UNCHANGED <<alloc, lock, pc, cl>>,
           \/ UNCHANGED busy
           \/ \E s \in Servers : busy' = [busy EXCEPT ![s] = None]
    PROVE  ProjectInv'
<1>1. busy' \in [Servers -> Clients \cup {None}] /\ \A s \in Servers : busy'[s] \in {busy[s], None}
  BY DEF ProjectInv, TypeOK
<1>2. TypeOK'
  BY <1>1, TypeParts DEF ProjectInv, ClientTypes, CallTypes
<1>3. LockInv' /\ StopInv' /\ CallerInv'
  BY <1>1 DEF ProjectInv, LockInv, StopInv, CallerInv
<1>4. AllocInv'
  <2>1. SUFFICES ASSUME NEW s \in Servers PROVE (alloc[s] <= Cardinality(SpentClients(s)) + 1)'
    BY DEF AllocInv
  <2>2. \A d \in Clients : Spent(d, s) => Spent(d, s)'
    BY <1>1, Domains DEF Spent
  <2>3. SpentClients(s) \subseteq SpentClients(s)' /\ SpentClients(s)' \subseteq Clients
    BY <2>2 DEF SpentClients
  <2>4. alloc[s] \in Nat /\ alloc[s] <= Cardinality(SpentClients(s)) + 1
    BY Domains DEF ProjectInv, AllocInv, TypeOK
  <2> QED
    BY <2>3, <2>4, SpentGrow
<1> QED
  BY <1>2, <1>3, <1>4 DEF ProjectInv

-----------------------------------------------------------------------------
(* Every action keeps the invariant: the servers *)

\* A server comes up, ends or is killed.
LEMMA ServerKeeps ==
    ASSUME ProjectInv, NEW s \in Servers,
           \/ ServerReady(s) \/ BootFails(s) \/ IdleExit(s) \/ ServerCloses(s)
           \/ ServerExits(s) \/ ServerCrashes(s)
    PROVE  ProjectInv'
<1> USE DEF Phase, Phases, files
<1>0. ServerTypes
  BY TypeParts DEF ProjectInv
<1>1. CASE ServerReady(s) \/ BootFails(s)
  <2>1. ServerTypes'
    BY <1>0, <1>1 DEF ServerTypes, ServerReady, BootFails
  <2> QED
    BY <1>1, <2>1, ServerStep DEF ServerReady, BootFails
<1>2. CASE IdleExit(s) \/ ServerCloses(s)
  <2>1. ServerTypes'
    BY <1>0, <1>2 DEF ServerTypes, IdleExit, ServerCloses
  <2> QED
    BY <1>2, <2>1, ServerStep DEF IdleExit, ServerCloses
<1>3. CASE ServerExits(s) \/ ServerCrashes(s)
  <2>1. ServerTypes'
    BY <1>0, <1>3 DEF ServerTypes, ServerExits, ServerCrashes
  <2> QED
    BY <1>3, <2>1, ServerStep DEF ServerExits, ServerCrashes
<1> QED
  BY <1>1, <1>2, <1>3

\* A call ends with an error.
LEMMA CallFailsKeeps ==
    ASSUME ProjectInv, NEW s \in Servers, CallFails(s)
    PROVE  ProjectInv'
<1>1. PICK c : c = busy[s]
  OBVIOUS
<1>2. /\ c \in Clients /\ cl[c].res = s /\ pc[c] \in {"i_wait", "done"}
      /\ busy' = [busy EXCEPT ![s] = None] /\ pc' = [pc EXCEPT ![c] = "done"]
      /\ UNCHANGED <<srv, sessions, alloc, files, lock, cl>>
  BY <1>1 DEF CallFails, ProjectInv, CallerInv, TypeOK
<1>3. TypeOK'
  BY <1>2 DEF ProjectInv, TypeOK, files
<1>4. LockInv' /\ StopInv'
  BY <1>2, <1>1 DEF ProjectInv, LockInv, StopInv, LockSteps, StopSteps, TypeOK
<1>5. CallerInv'
  BY <1>1, <1>2 DEF ProjectInv, CallerInv, TypeOK
<1>6. AllocInv'
  <2>1. SUFFICES ASSUME NEW t \in Servers PROVE (alloc[t] <= Cardinality(SpentClients(t)) + 1)'
    BY DEF AllocInv
  <2>2. \A d \in Clients : Spent(d, t) => Spent(d, t)'
    BY <1>1, <1>2, Domains DEF Spent, ProjectInv, TypeOK, EarlySteps, ResolveSteps
  <2>3. SpentClients(t) \subseteq SpentClients(t)' /\ SpentClients(t)' \subseteq Clients
    BY <2>2 DEF SpentClients
  <2>4. alloc'[t] = alloc[t] /\ alloc[t] \in Nat /\ alloc[t] <= Cardinality(SpentClients(t)) + 1
    BY <1>2, Domains DEF ProjectInv, AllocInv, TypeOK
  <2> QED
    BY <2>3, <2>4, SpentGrow
<1> QED
  BY <1>3, <1>4, <1>5, <1>6 DEF ProjectInv

\* A call ends with a success: a new session takes an id that no other client
\* could have had, since its client is spent from now on.
LEMMA CallSucceedsKeeps ==
    ASSUME ProjectInv, NEW s \in Servers, CallSucceeds(s)
    PROVE  ProjectInv'
<1>1. PICK c : c = busy[s]
  OBVIOUS
<1> DEFINE id == IF cl[c].call = "start" THEN alloc[s] + 1 ELSE cl[c].sid
           next == CASE cl[c].call = "start" -> "m_lock"
                     [] cl[c].call = "use"   -> "m_lock"
                     [] cl[c].call = "close" -> "f_check"
                     [] OTHER                -> "done"
<1>2. /\ c \in Clients /\ cl[c].res = s /\ pc[c] \in {"i_wait", "done"} /\ busy[s] = c
      /\ TypeOK /\ cl[c] \in LocalVars
  BY <1>1, TypeParts DEF CallSucceeds, ProjectInv, CallerInv, TypeOK, ClientTypes
<1>3. /\ IF cl[c].call = "start"
         THEN /\ alloc' = [alloc EXCEPT ![s] = id]
              /\ sessions' = [sessions EXCEPT ![s] = @ \cup {id}]
         ELSE /\ sessions' = [sessions EXCEPT ![s] =
                                IF cl[c].call = "close" THEN @ \ {id} ELSE @]
              /\ UNCHANGED alloc
      /\ IF At(c, "i_wait")
         THEN /\ cl' = IF cl[c].call = "start" THEN [cl EXCEPT ![c].sid = id] ELSE cl
              /\ Goto(c, next)
         ELSE UNCHANGED <<cl, pc>>
      /\ busy' = [busy EXCEPT ![s] = None]
      /\ UNCHANGED <<srv, ready, cookie, lock>>
  BY <1>1 DEF CallSucceeds, files
<1>4. cl[c].call = "start" => alloc[s] \in Nat /\ alloc[s] + 1 <= Cardinality(SessionIds)
  <2>1. SUFFICES ASSUME cl[c].call = "start"
                 PROVE  alloc[s] \in Nat /\ alloc[s] + 1 <= Cardinality(Clients) + 1
    BY Domains
  <2>2. ~Spent(c, s)
    BY <1>2, <2>1 DEF Spent
  <2>3. SpentClients(s) \subseteq Clients \ {c}
    BY <2>2 DEF SpentClients
  <2>4. IsFiniteSet(Clients \ {c}) /\ Cardinality(Clients \ {c}) = Cardinality(Clients) - 1
    BY <1>2, Domains, FS_RemoveElement
  <2>5. Cardinality(SpentClients(s)) <= Cardinality(Clients) - 1 /\ Cardinality(SpentClients(s)) \in Nat
    BY <2>3, <2>4, FS_Subset, FS_CardinalityType
  <2>6. alloc[s] \in Nat /\ alloc[s] <= Cardinality(SpentClients(s)) + 1
    BY Domains DEF ProjectInv, AllocInv, TypeOK
  <2> QED
    BY <2>5, <2>6, Domains
<1>5. next \in {"m_lock", "f_check", "done"}
  OBVIOUS
<1>6. id \in SessionIds \cup {None} /\ (cl[c].call = "start" => id = alloc[s] + 1 /\ id \in SessionIds)
  <2>1. CASE cl[c].call = "start"
    BY <1>4, <2>1, Domains DEF SessionIds
  <2>2. CASE cl[c].call # "start"
    BY <1>2, <2>2, LocalsIs
  <2> QED
    BY <2>1, <2>2
<1> HIDE DEF id, next
<1>7. CallTypes' /\ ServerTypes'
  <2>1. CASE cl[c].call = "start"
    <3>1. id \in 0..Cardinality(SessionIds)
      BY <1>4, <1>6, <2>1, Domains
    <3> QED
      BY <1>2, <1>3, <1>6, <2>1, <3>1, TypeParts DEF CallTypes, ServerTypes
  <2>2. CASE cl[c].call # "start"
    BY <1>2, <1>3, <2>2, TypeParts DEF CallTypes, ServerTypes
  <2> QED
    BY <2>1, <2>2
<1>8. PICK p \in Steps, r \in LocalVars :
         /\ Moved(c, p, r) /\ p \in {pc[c], "m_lock", "f_check", "done"}
         /\ pc[c] = "i_wait" => p # "i_wait"
         /\ r.cmd = cl[c].cmd /\ r.call = cl[c].call /\ r.res = cl[c].res
  <2>0. ClientTypes
    BY <1>2, TypeParts
  <2>1. CASE At(c, "i_wait") /\ cl[c].call = "start"
    <3>1. PICK r \in LocalVars : r = [cl[c] EXCEPT !.sid = id]
      BY <1>2, <1>6, SidIs
    <3>2. next \in Steps /\ Goto(c, next) /\ cl' = [cl EXCEPT ![c] = r]
      BY <1>3, <1>5, <2>1, <3>1 DEF Steps, CallSteps
    <3>3. r.cmd = cl[c].cmd /\ r.call = cl[c].call /\ r.res = cl[c].res
      BY <1>2, <1>6, <3>1, SidIs
    <3> QED
      BY <1>5, <2>0, <1>2, <3>2, <3>3, MovedIs
  <2>2. CASE At(c, "i_wait") /\ cl[c].call # "start"
    <3>1. next \in Steps /\ Goto(c, next) /\ UNCHANGED cl
      BY <1>3, <1>5, <2>2 DEF Steps, CallSteps
    <3> QED
      BY <1>2, <1>5, <2>0, <3>1, WentIs
  <2>3. CASE ~At(c, "i_wait")
    BY <1>2, <1>3, <2>0, <2>3 DEF Moved, ClientTypes, At
  <2> QED
    BY <2>1, <2>2, <2>3
<1>9. TypeOK'
  BY <1>2, <1>3, <1>7, <1>8, TypeParts DEF ClientTypes, Moved
<1>10. LockInv' /\ StopInv'
  BY <1>2, <1>3, <1>8 DEF ProjectInv, LockInv, StopInv, LockSteps, StopSteps, Moved
<1>11. CallerInv'
  BY <1>2, <1>3, <1>8 DEF ProjectInv, CallerInv, TypeOK, Moved
<1>12. AllocInv'
  <2>1. SUFFICES ASSUME NEW t \in Servers PROVE (alloc[t] <= Cardinality(SpentClients(t)) + 1)'
    BY DEF AllocInv
  <2>2. \A d \in Clients : Spent(d, t) => Spent(d, t)'
    BY <1>2, <1>3, <1>8, Domains DEF Spent, TypeOK, ResolveSteps, Moved
  <2>3. t = s => Spent(c, t)'
    BY <1>2, <1>3, <1>8, Domains DEF Spent, TypeOK, ResolveSteps, Moved
  <2>4. SpentClients(t) \subseteq SpentClients(t)' /\ SpentClients(t)' \subseteq Clients
    BY <2>2 DEF SpentClients
  <2>5. alloc[t] \in Nat /\ alloc[t] <= Cardinality(SpentClients(t)) + 1
    BY <1>2, Domains DEF ProjectInv, AllocInv, TypeOK
  <2>6. CASE t = s /\ cl[c].call = "start"
    <3>1. ~Spent(c, t)
      BY <1>2, <2>6 DEF Spent
    <3>2. SpentClients(t) \cup {c} \subseteq SpentClients(t)' /\ c \notin SpentClients(t)
      BY <1>2, <2>3, <2>4, <2>6, <3>1 DEF SpentClients
    <3>3. SpentClients(t) \subseteq Clients
      BY DEF SpentClients
    <3>4. IsFiniteSet(SpentClients(t)) /\ Cardinality(SpentClients(t)) \in Nat
      BY <3>3, Domains, FS_Subset, FS_CardinalityType
    <3>5. Cardinality(SpentClients(t) \cup {c}) = Cardinality(SpentClients(t)) + 1
      BY <3>2, <3>4, FS_AddElement
    <3>6. Cardinality(SpentClients(t) \cup {c}) <= Cardinality(SpentClients(t)')
          /\ Cardinality(SpentClients(t)') \in Nat
      BY <2>4, <3>2, SpentGrow
    <3>7. alloc'[t] = alloc[t] + 1
      BY <1>2, <1>3, <1>6, <2>6 DEF TypeOK
    <3> QED
      BY <2>5, <3>4, <3>5, <3>6, <3>7
  <2>7. CASE ~(t = s /\ cl[c].call = "start")
    <3>1. alloc'[t] = alloc[t]
      BY <1>2, <1>3, <2>7 DEF TypeOK
    <3> QED
      BY <2>4, <2>5, <3>1, SpentGrow
  <2> QED
    BY <2>6, <2>7
<1> QED
  BY <1>9, <1>10, <1>11, <1>12 DEF ProjectInv

-----------------------------------------------------------------------------
(* ... and the clients *)

\* An invocation begins.
LEMMA InvokeKeeps ==
    ASSUME ProjectInv, NEW c \in Clients, NEW command \in Commands, Invoke(c, command)
    PROVE  ProjectInv'
<1> DEFINE call == CASE command \in {"start", "tool", "close", "use"} -> command
                     [] command = "attach" -> "tool"
                     [] OTHER -> None
           p == CASE command = "status" -> "d_read"
                  [] command \in StopCommands -> "x_read"
                  [] OTHER -> "r_read"
           r == [cl[c] EXCEPT !.cmd = command, !.call = call]
<1>1. ServerTypes /\ ClientTypes /\ cl[c] \in LocalVars
  BY TypeParts DEF ProjectInv, ClientTypes
<1>2. command \in AllCommands /\ call \in {"start", "tool", "close", "use", None}
  BY DaemonAssumption
<1>3. p \in Steps /\ p \notin LockSteps /\ (p \in StopSteps => command \in StopCommands)
  BY DEF Steps, MetaSteps, ResolveSteps, LockSteps, StopSteps
<1>4. Goto(c, p) /\ cl' = [cl EXCEPT ![c] = r] /\ At(c, "new") /\ UNCHANGED <<server, files, lock>>
  BY <1>1 DEF Invoke, ClientTypes
<1> HIDE DEF call, p
<1>5. r \in LocalVars /\ r.cmd = command
  BY <1>1, <1>2 DEF LocalVars
<1> HIDE DEF r
<1>6. Moved(c, p, r)
  BY <1>1, <1>3, <1>4, <1>5, MovedIs
<1>7. ServerTypes' /\ lock # c /\ lock \in Clients \cup {None}
  BY <1>1, <1>4 DEF server, files, ServerTypes, ClientTypes, ProjectInv, LockInv, At, LockSteps
<1> QED
  BY <1>3, <1>4, <1>5, <1>6, <1>7, ClientStep DEF At, EarlySteps, server, files

\* A client that only looks and goes on, without taking or releasing the lock.
LEMMA LookKeeps ==
    ASSUME ProjectInv, NEW c \in Clients, NEW p \in Steps, NEW r \in LocalVars, Moved(c, p, r),
           ServerTypes', UNCHANGED <<busy, alloc, lock>>,
           pc[c] # "done", pc[c] = "i_wait" => p = "done" /\ r = cl[c],
           p \in LockSteps <=> pc[c] \in LockSteps,
           p \in StopSteps => pc[c] \in StopSteps,
           r.cmd = cl[c].cmd,
           \/ pc[c] \in EarlySteps
           \/ /\ r.res = cl[c].res /\ r.call = cl[c].call
              /\ p \notin EarlySteps \cup {"i_send", "i_wait"}
    PROVE  ProjectInv'
<1>1. lock \in Clients \cup {None} /\ (lock = c <=> p \in LockSteps)
  BY DEF ProjectInv, TypeOK, LockInv
<1>2. p \in StopSteps => r.cmd \in StopCommands
  BY DEF ProjectInv, StopInv
<1> QED
  BY <1>1, <1>2, ClientStep

\* A client takes the lock or releases it.
LEMMA LockKeeps ==
    ASSUME ProjectInv, NEW c \in Clients, NEW p \in Steps, NEW r \in LocalVars, Moved(c, p, r),
           ServerTypes', UNCHANGED <<busy, alloc>>,
           pc[c] \notin {"done", "i_wait"}, p \notin StopSteps, r.cmd = cl[c].cmd,
           \/ lock = None /\ lock' = c /\ p \in LockSteps
           \/ pc[c] \in LockSteps /\ lock' = None /\ p \notin LockSteps,
           \/ pc[c] \in EarlySteps
           \/ /\ r.res = cl[c].res /\ p \notin EarlySteps
              /\ r.call = "start" => cl[c].call = "start" /\ p \notin {"i_send", "i_wait"}
    PROVE  ProjectInv'
<1>1. /\ lock' \in Clients \cup {None} /\ (p \in LockSteps <=> lock' = c)
      /\ \A d \in Clients \ {c} : lock' = d <=> lock = d
  BY Domains DEF ProjectInv, LockInv
<1> QED
  BY <1>1, ClientStep

\* The server is known: the call begins.
LEMMA ResolvedIs ==
    ASSUME ClientTypes, NEW c \in Clients, NEW s \in Servers \cup {None}, Resolved(c, s)
    PROVE  \E p \in {"i_send", "g_read"}, r \in LocalVars :
              /\ Moved(c, p, r) /\ r.cmd = cl[c].cmd /\ r.res = s /\ r.own = cl[c].own
<1>1. PICK p \in {"i_send", "g_read"} : p = AfterResolve(c)
  BY DEF AfterResolve
<1>2. p \in Steps /\ Goto(c, p) /\ cl[c] \in LocalVars
  BY <1>1 DEF Resolved, Steps, CallSteps, ClientTypes
<1>3. CASE cl[c].cmd = "use"
  <2>1. PICK id \in SessionIds : cl' = [cl EXCEPT ![c].res = s, ![c].sid = id]
    BY <1>3 DEF Resolved
  <2>2. PICK r \in LocalVars : r = [cl[c] EXCEPT !.res = s]
    BY <1>2, ResIs
  <2>3. PICK q \in LocalVars : q = [r EXCEPT !.sid = id]
    BY SidIs
  <2>4. q.cmd = cl[c].cmd /\ q.res = s /\ q.own = cl[c].own
    BY <1>2, <2>2, <2>3, ResIs, SidIs
  <2>5. cl' = [cl EXCEPT ![c] = q]
    BY <1>2, <2>1, <2>2, <2>3 DEF ClientTypes
  <2> QED
    BY <1>2, <2>4, <2>5, MovedIs
<1>4. CASE cl[c].cmd # "use"
  <2>1. cl' = [cl EXCEPT ![c].res = s]
    BY <1>4 DEF Resolved
  <2>2. PICK r \in LocalVars : r = [cl[c] EXCEPT !.res = s]
    BY <1>2, ResIs
  <2>3. r.cmd = cl[c].cmd /\ r.res = s /\ r.own = cl[c].own
    BY <1>2, <2>2, ResIs
  <2>4. cl' = [cl EXCEPT ![c] = r]
    BY <2>1, <2>2
  <2> QED
    BY <1>2, <2>3, <2>4, MovedIs
<1> QED
  BY <1>3, <1>4

\* What the client has read is noted in its local variables.
LEMMA NotesIs ==
    ASSUME ClientTypes, NEW c \in Clients, NEW p \in Steps, NEW v \in Servers \cup {None},
           Goto(c, p), cl' = [cl EXCEPT ![c].seen = v]
    PROVE  \E r \in LocalVars :
              /\ Moved(c, p, r) /\ r.cmd = cl[c].cmd /\ r.call = cl[c].call
              /\ r.res = cl[c].res /\ r.own = cl[c].own /\ r.seen = v
<1>1. cl[c] \in LocalVars
  BY DEF ClientTypes
<1>2. PICK r \in LocalVars : r = [cl[c] EXCEPT !.seen = v]
  BY <1>1, SeenIs
<1>3. /\ r.cmd = cl[c].cmd /\ r.call = cl[c].call
      /\ r.res = cl[c].res /\ r.own = cl[c].own /\ r.seen = v
  BY <1>1, <1>2, SeenIs
<1>4. Moved(c, p, r)
  BY <1>2, MovedIs
<1> QED
  BY <1>3, <1>4

\* resolve_server, up to the lock.
LEMMA ResolveKeeps ==
    ASSUME ProjectInv, NEW c \in Clients,
           ReadCookie(c) \/ ProbeSucceeds(c) \/ ProbeFails(c) \/ TakeLock(c)
    PROVE  ProjectInv'
<1> USE DEF At, LockSteps, StopSteps, EarlySteps, ResolveSteps
<1>0. ServerTypes /\ ClientTypes /\ cl[c] \in LocalVars /\ lock \in Clients \cup {None}
  BY TypeParts DEF ProjectInv, ClientTypes
<1>1. CASE ReadCookie(c)
  <2>1. PICK p \in {"r_lock", "r_probe", "s_spawn", "r_probe2"} :
           /\ Goto(c, p) /\ (p \in LockSteps <=> pc[c] \in LockSteps)
           /\ pc[c] \in {"r_read", "r_read2"}
    BY <1>1 DEF ReadCookie
  <2>2. p \in Steps
    BY DEF Steps
  <2>3. CookieServer \in Servers \cup {None}
    BY <1>0, CookieIs
  <2>4. cl' = [cl EXCEPT ![c].seen = CookieServer] /\ UNCHANGED <<server, files, lock>>
    BY <1>1 DEF ReadCookie
  <2>5. PICK r \in LocalVars : Moved(c, p, r) /\ r.cmd = cl[c].cmd
    BY ZenonT(60), <1>0, <2>1, <2>2, <2>3, <2>4, NotesIs
  <2>6. ServerTypes'
    BY <1>0, <2>4 DEF ServerTypes, server, files
  <2> QED
    BY <2>1, <2>2, <2>4, <2>5, <2>6, LookKeeps DEF server
<1>2. CASE ProbeSucceeds(c)
  <2>1. PICK p \in {"i_send", "g_read"}, r \in LocalVars : Moved(c, p, r) /\ r.cmd = cl[c].cmd
    BY <1>0, <1>2, ResolvedIs, LocalsIs DEF ProbeSucceeds
  <2>2. p \in Steps
    BY DEF Steps, CallSteps
  <2>3. ServerTypes' /\ UNCHANGED <<busy, alloc>>
    BY <1>0, <1>2 DEF ProbeSucceeds, ServerTypes, server, files
  <2>4. CASE At(c, "r_probe")
    BY <1>2, <2>1, <2>2, <2>3, <2>4, LookKeeps DEF ProbeSucceeds
  <2>5. CASE At(c, "r_probe2")
    BY <1>2, <2>1, <2>2, <2>3, <2>5, LockKeeps DEF ProbeSucceeds
  <2> QED
    BY <1>2, <2>4, <2>5 DEF ProbeSucceeds
<1>3. CASE ProbeFails(c)
  <2>1. PICK p \in {"r_lock", "s_spawn"} :
           /\ Goto(c, p) /\ (p \in LockSteps <=> pc[c] \in LockSteps)
           /\ pc[c] \in {"r_probe", "r_probe2"}
    BY <1>3 DEF ProbeFails
  <2>2. p \in Steps
    BY DEF Steps
  <2>3. Moved(c, p, cl[c])
    BY <1>0, <1>3, <2>1, <2>2, WentIs DEF ProbeFails
  <2>4. ServerTypes' /\ UNCHANGED <<busy, alloc, lock>>
    BY <1>0, <1>3 DEF ProbeFails, ServerTypes, server
  <2> QED
    BY <1>0, <2>1, <2>2, <2>3, <2>4, LookKeeps
<1>4. CASE TakeLock(c)
  <2>1. "r_read2" \in Steps
    BY DEF Steps
  <2>2. Moved(c, "r_read2", cl[c])
    BY <1>0, <1>4, <2>1, WentIs DEF TakeLock
  <2>3. ServerTypes' /\ UNCHANGED <<busy, alloc>>
    BY <1>0, <1>4 DEF TakeLock, ServerTypes, server, files
  <2> QED
    BY <1>0, <1>4, <2>1, <2>2, <2>3, LockKeeps DEF TakeLock
<1> QED
  BY <1>1, <1>2, <1>3, <1>4

\* _spawn.
LEMMA SpawnKeeps ==
    ASSUME ProjectInv, NEW c \in Clients,
           \/ Spawn(c) \/ ReadyFound(c) \/ SpawnProbed(c) \/ SpawnFails(c) \/ WriteCookie(c)
    PROVE  ProjectInv'
<1> USE DEF At, LockSteps, StopSteps, EarlySteps, ResolveSteps, Phase, Phases
<1>0. ServerTypes /\ ClientTypes /\ cl[c] \in LocalVars /\ lock \in Clients \cup {None}
  BY TypeParts DEF ProjectInv, ClientTypes
<1>s. /\ "s_ready" \in Steps /\ "s_probe" \in Steps /\ "s_cookie" \in Steps /\ "done" \in Steps
      /\ "i_send" \in Steps /\ "g_read" \in Steps
  BY DEF Steps, CallSteps
<1>1. CASE Spawn(c)
  <2>1. PICK s \in Servers : Phase(s, "booting") /\ cl' = [cl EXCEPT ![c].own = s]
    BY <1>1 DEF Spawn
  <2>2. PICK r \in LocalVars : r = [cl[c] EXCEPT !.own = s]
    BY <1>0, OwnIs
  <2>3. r.cmd = cl[c].cmd
    BY <1>0, <2>2, OwnIs
  <2>4. Moved(c, "s_ready", r)
    BY <1>0, <1>1, <1>s, <2>1, <2>2, MovedIs DEF Spawn
  <2>5. ServerTypes' /\ UNCHANGED <<busy, alloc, lock>>
    BY <1>0, <1>1, <2>1 DEF Spawn, ServerTypes
  <2> QED
    BY <1>1, <1>s, <2>3, <2>4, <2>5, LookKeeps DEF Spawn
<1>2. CASE ReadyFound(c)
  <2>1. PICK p \in Steps : p = "s_probe"
    BY <1>s
  <2>2. ready \in Servers \cup {None}
    BY <1>0 DEF ServerTypes
  <2>3. PICK r \in LocalVars : r = [cl[c] EXCEPT !.seen = ready]
    BY <1>0, <2>2, SeenIs
  <2>4. r.cmd = cl[c].cmd
    BY <1>0, <2>2, <2>3, SeenIs
  <2>5. Goto(c, p) /\ cl' = [cl EXCEPT ![c] = r]
    BY <1>2, <2>1, <2>3 DEF ReadyFound
  <2>6. Moved(c, p, r)
    BY <1>0, <2>5, MovedIs
  <2>7. ServerTypes' /\ UNCHANGED <<busy, alloc, lock>>
    BY <1>0, <1>2 DEF ReadyFound, ServerTypes, server, files
  <2> QED
    BY <1>2, <2>1, <2>4, <2>6, <2>7, LookKeeps DEF ReadyFound
<1>3. CASE SpawnProbed(c)
  <2>1. Moved(c, "s_cookie", cl[c])
    BY <1>0, <1>3, <1>s, WentIs DEF SpawnProbed
  <2>2. ServerTypes' /\ UNCHANGED <<busy, alloc, lock>>
    BY <1>0, <1>3 DEF SpawnProbed, ServerTypes, server, files
  <2> QED
    BY <1>0, <1>3, <1>s, <2>1, <2>2, LookKeeps DEF SpawnProbed
<1>4. CASE SpawnFails(c)
  <2>1. Moved(c, "done", cl[c])
    BY <1>0, <1>4, <1>s, WentIs DEF SpawnFails
  <2>2. ServerTypes' /\ UNCHANGED <<busy, alloc>>
    BY <1>0, <1>4 DEF SpawnFails, ServerTypes, files
  <2> QED
    BY <1>0, <1>4, <1>s, <2>1, <2>2, LockKeeps DEF SpawnFails
<1>5. CASE WriteCookie(c)
  <2>1. PICK p \in {"i_send", "g_read"}, r \in LocalVars : Moved(c, p, r) /\ r.cmd = cl[c].cmd
    BY <1>0, <1>5, ResolvedIs, LocalsIs DEF WriteCookie
  <2>2. ServerTypes' /\ UNCHANGED <<busy, alloc>>
    BY <1>0, <1>5, LocalsIs DEF WriteCookie, ServerTypes, server
  <2> QED
    BY <1>5, <1>s, <2>1, <2>2, LockKeeps DEF WriteCookie
<1> QED
  BY <1>1, <1>2, <1>3, <1>4, <1>5

\* The default session is read, and the connection may be lost.
LEMMA SessionKeeps ==
    ASSUME ProjectInv, NEW c \in Clients, GetSession(c) \/ CallLost(c)
    PROVE  ProjectInv'
<1> USE DEF At, LockSteps, StopSteps, EarlySteps, ResolveSteps
<1>0. ServerTypes /\ ClientTypes /\ cl[c] \in LocalVars
  BY TypeParts DEF ProjectInv, ClientTypes
<1>1. "i_send" \in Steps /\ "done" \in Steps
  BY DEF Steps, CallSteps
<1>2. ServerTypes' /\ UNCHANGED <<busy, alloc, lock>>
  BY <1>0 DEF GetSession, CallLost, ServerTypes, server, files
<1>3. CASE GetSession(c)
  <2>1. pc[c] = "g_read"
    BY <1>3 DEF GetSession
  <2>2. CASE cl' = [cl EXCEPT ![c].sid = CookieLast] /\ Goto(c, "i_send")
    <3>1. PICK r \in LocalVars : r = [cl[c] EXCEPT !.sid = CookieLast]
      BY <1>0, CookieIs, SidIs
    <3>2. r.cmd = cl[c].cmd
      BY <1>0, <3>1, CookieIs, SidIs
    <3>3. Moved(c, "i_send", r)
      BY <1>0, <1>1, <2>2, <3>1, MovedIs
    <3> QED
      BY <1>1, <1>2, <2>1, <3>2, <3>3, LookKeeps
  <2>3. CASE cl' = [cl EXCEPT ![c].call = "start"] /\ Goto(c, "i_send")
    <3>1. PICK r \in LocalVars : r = [cl[c] EXCEPT !.call = "start"]
      BY <1>0, CallIs
    <3>2. r.cmd = cl[c].cmd
      BY <1>0, <3>1, CallIs
    <3>3. Moved(c, "i_send", r)
      BY <1>0, <1>1, <2>3, <3>1, MovedIs
    <3> QED
      BY <1>1, <1>2, <2>1, <3>2, <3>3, LookKeeps
  <2>4. CASE Goto(c, "done") /\ UNCHANGED cl
    <3>1. Moved(c, "done", cl[c])
      BY <1>0, <1>1, <2>4, WentIs
    <3> QED
      BY <1>0, <1>1, <1>2, <2>1, <3>1, LookKeeps
  <2> QED
    BY <1>3, <2>2, <2>3, <2>4 DEF GetSession
<1>4. CASE CallLost(c)
  <2>1. Moved(c, "done", cl[c])
    BY <1>0, <1>1, <1>4, WentIs DEF CallLost
  <2>2. pc[c] \in {"i_send", "i_wait"}
    BY <1>4 DEF CallLost
  <2> QED
    BY <1>0, <1>1, <1>2, <2>1, <2>2, LookKeeps
<1> QED
  BY <1>3, <1>4

\* A call reaches its server.
LEMMA CallSentKeeps ==
    ASSUME ProjectInv, NEW c \in Clients, CallSent(c)
    PROVE  ProjectInv'
<1>1. ClientTypes /\ cl[c] \in LocalVars /\ TypeOK /\ "i_wait" \in Steps
  BY TypeParts DEF ProjectInv, ClientTypes, Steps, CallSteps
<1>2. PICK s \in Servers : s = cl[c].res
  BY <1>1, LocalsIs DEF CallSent, Answers, Accepting
<1>3. /\ busy' = [busy EXCEPT ![s] = c] /\ pc[c] = "i_send" /\ busy[s] = None
      /\ UNCHANGED <<srv, sessions, alloc, ready, cookie, lock, cl>>
  BY <1>2 DEF CallSent, At, Answers, files
<1>4. Moved(c, "i_wait", cl[c])
  BY <1>1, <1>3, WentIs DEF CallSent
<1>5. TypeOK'
  BY <1>1, <1>3, <1>4, TypeParts DEF ServerTypes, CallTypes, ClientTypes, Moved
<1>6. LockInv' /\ StopInv'
  BY <1>3, <1>4 DEF ProjectInv, LockInv, StopInv, LockSteps, StopSteps, Moved
<1>7. CallerInv'
  BY <1>2, <1>3, <1>4 DEF ProjectInv, CallerInv, TypeOK, Moved
<1>8. AllocInv'
  <2>1. SUFFICES ASSUME NEW t \in Servers PROVE (alloc[t] <= Cardinality(SpentClients(t)) + 1)'
    BY DEF AllocInv
  <2>2. \A d \in Clients : Spent(d, t) => Spent(d, t)'
    BY <1>1, <1>2, <1>3, <1>4 DEF Spent, TypeOK, ResolveSteps, Moved
  <2>3. SpentClients(t) \subseteq SpentClients(t)' /\ SpentClients(t)' \subseteq Clients
    BY <2>2 DEF SpentClients
  <2>4. alloc'[t] = alloc[t] /\ alloc[t] \in Nat /\ alloc[t] <= Cardinality(SpentClients(t)) + 1
    BY <1>1, <1>3, Domains DEF ProjectInv, AllocInv, TypeOK
  <2> QED
    BY <2>3, <2>4, SpentGrow
<1> QED
  BY <1>5, <1>6, <1>7, <1>8 DEF ProjectInv

\* remember_session_id and forget_session_id.
LEMMA RememberKeeps ==
    ASSUME ProjectInv, NEW c \in Clients,
           \/ RememberRead(c) \/ RememberWrite(c)
           \/ ForgetCheck(c) \/ ForgetRead(c) \/ ForgetWrite(c)
    PROVE  ProjectInv'
<1> USE DEF At, LockSteps, StopSteps, EarlySteps, ResolveSteps
<1>0. /\ ServerTypes /\ ClientTypes /\ cl[c] \in LocalVars
      /\ CookieServer \in Servers \cup {None}
  BY TypeParts, CookieIs DEF ProjectInv, ClientTypes
<1>s. /\ "i_send" \in Steps /\ "done" \in Steps /\ "m_write" \in Steps /\ "f_write" \in Steps
      /\ "f_lock" \in Steps
  BY DEF Steps, CallSteps
<1>t. ServerTypes' /\ UNCHANGED <<busy, alloc>>
  BY <1>0, LocalsIs DEF RememberRead, RememberWrite, ForgetCheck, ForgetRead, ForgetWrite,
        ServerTypes, server, files
<1>1. CASE RememberRead(c)
  <2>1. PICK p \in Steps : p = "m_write"
    BY <1>s
  <2>2. Goto(c, p) /\ cl' = [cl EXCEPT ![c].seen = CookieServer] /\ pc[c] = "m_lock"
    BY <1>1, <2>1 DEF RememberRead
  <2>3. PICK r \in LocalVars : /\ Moved(c, p, r) /\ r.cmd = cl[c].cmd /\ r.call = cl[c].call
                               /\ r.res = cl[c].res
    BY ZenonT(60), <1>0, <2>2, NotesIs
  <2> QED
    BY <1>1, <1>t, <2>1, <2>2, <2>3, LockKeeps DEF RememberRead
<1>2. CASE RememberWrite(c)
  <2>0. pc[c] = "m_write" /\ lock' = None
    BY <1>2 DEF RememberWrite
  <2>1. CASE Goto(c, "i_send") /\ cl' = [cl EXCEPT ![c].call = "tool"]
    <3>1. PICK r \in LocalVars : r = [cl[c] EXCEPT !.call = "tool"]
      BY <1>0, CallIs
    <3>2. r.cmd = cl[c].cmd /\ r.call = "tool" /\ r.res = cl[c].res
      BY <1>0, <3>1, CallIs
    <3>3. Moved(c, "i_send", r)
      BY <1>0, <1>s, <2>1, <3>1, MovedIs
    <3> QED
      BY <1>s, <1>t, <2>0, <3>2, <3>3, LockKeeps
  <2>2. CASE Goto(c, "done") /\ UNCHANGED cl
    <3>1. Moved(c, "done", cl[c])
      BY <1>0, <1>s, <2>2, WentIs
    <3> QED
      BY <1>0, <1>s, <1>t, <2>0, <3>1, LockKeeps
  <2> QED
    BY <1>2, <2>1, <2>2 DEF RememberWrite
<1>3. CASE ForgetCheck(c)
  <2>1. PICK p \in {"f_lock", "done"} : Goto(c, p)
    BY <1>3 DEF ForgetCheck
  <2>2. Moved(c, p, cl[c])
    BY <1>0, <1>3, <1>s, <2>1, WentIs DEF ForgetCheck
  <2> QED
    BY <1>0, <1>3, <1>s, <1>t, <2>1, <2>2, LookKeeps DEF ForgetCheck
<1>4. CASE ForgetRead(c)
  <2>0. pc[c] = "f_lock" /\ lock = None
    BY <1>4 DEF ForgetRead
  <2>1. CASE Goto(c, "done") /\ UNCHANGED <<lock, cl>>
    <3>1. Moved(c, "done", cl[c])
      BY <1>0, <1>s, <2>1, WentIs
    <3> QED
      BY <1>0, <1>s, <1>t, <2>0, <2>1, <3>1, LookKeeps
  <2>2. CASE /\ lock' = c /\ cl' = [cl EXCEPT ![c].seen = CookieServer] /\ Goto(c, "f_write")
    <3>1. PICK p \in Steps : p = "f_write"
      BY <1>s
    <3>2. Goto(c, p)
      BY <2>2, <3>1
    <3>3. PICK r \in LocalVars : /\ Moved(c, p, r) /\ r.cmd = cl[c].cmd /\ r.call = cl[c].call
                                 /\ r.res = cl[c].res
      BY ZenonT(60), <1>0, <2>2, <3>2, NotesIs
    <3> QED
      BY <1>t, <2>0, <2>2, <3>1, <3>3, LockKeeps
  <2> QED
    BY <1>4, <2>1, <2>2 DEF ForgetRead
<1>5. CASE ForgetWrite(c)
  <2>1. Moved(c, "done", cl[c])
    BY <1>0, <1>5, <1>s, WentIs DEF ForgetWrite
  <2> QED
    BY <1>0, <1>5, <1>s, <1>t, <2>1, LockKeeps DEF ForgetWrite
<1> QED
  BY <1>1, <1>2, <1>3, <1>4, <1>5

\* daemon status and daemon stop.
LEMMA MetaKeeps ==
    ASSUME ProjectInv, NEW c \in Clients,
           \/ StatusRead(c) \/ StatusProbe(c) \/ RemoveCookie(c)
           \/ StopRead(c) \/ StopPost(c) \/ StopWait(c) \/ StopTerminate(c)
    PROVE  ProjectInv'
<1> USE DEF At, LockSteps, StopSteps, EarlySteps, ResolveSteps
<1>0. /\ ServerTypes /\ ClientTypes /\ cl[c] \in LocalVars
      /\ CookieServer \in Servers \cup {None}
  BY TypeParts, CookieIs DEF ProjectInv, ClientTypes
<1>1. MetaSteps \subseteq Steps /\ "done" \in Steps
  BY DEF Steps
<1>2. UNCHANGED <<busy, alloc, lock>>
  BY DEF StatusRead, StatusProbe, RemoveCookie, StopRead, StopPost, StopWait, StopTerminate, server
<1>3. CASE StatusRead(c) \/ StopRead(c)
  <2>1. PICK p \in {"done", "d_probe", "x_remove", "x_post"} :
           /\ Goto(c, p) /\ pc[c] \in {"d_read", "x_read"} /\ (p \in StopSteps => pc[c] \in StopSteps)
    BY <1>3 DEF StatusRead, StopRead
  <2>2. p \in Steps /\ cl' = [cl EXCEPT ![c].seen = CookieServer]
    BY <1>1, <1>3 DEF StatusRead, StopRead, MetaSteps
  <2>3. PICK r \in LocalVars : /\ Moved(c, p, r) /\ r.cmd = cl[c].cmd /\ r.call = cl[c].call
                               /\ r.res = cl[c].res
    BY ZenonT(60), <1>0, <2>1, <2>2, NotesIs
  <2>4. ServerTypes'
    BY <1>0, <1>3 DEF StatusRead, StopRead, ServerTypes, server, files
  <2> QED
    BY <1>2, <2>1, <2>2, <2>3, <2>4, LookKeeps
<1>4. CASE StatusProbe(c) \/ RemoveCookie(c) \/ StopWait(c)
  <2>1. PICK p \in {"done", "d_remove", "x_term", "x_remove"} :
           /\ Goto(c, p) /\ pc[c] \in {"d_probe", "d_remove", "x_remove", "x_wait", "x_wait2"}
           /\ (p \in StopSteps => pc[c] \in StopSteps)
    BY <1>4 DEF StatusProbe, RemoveCookie, StopWait
  <2>2. p \in Steps
    BY <1>1 DEF MetaSteps
  <2>3. Moved(c, p, cl[c])
    BY <1>0, <1>4, <2>1, <2>2, WentIs DEF StatusProbe, RemoveCookie, StopWait
  <2>4. ServerTypes'
    BY <1>0, <1>4 DEF StatusProbe, RemoveCookie, StopWait, ServerTypes, server, files
  <2> QED
    BY <1>0, <1>2, <2>1, <2>2, <2>3, <2>4, LookKeeps
<1>5. CASE StopPost(c) \/ StopTerminate(c)
  <2>1. PICK p \in {"done", "x_wait", "x_wait2"} : Goto(c, p) /\ pc[c] \in {"x_post", "x_term"}
    BY <1>5 DEF StopPost, StopTerminate
  <2>2. p \in Steps
    BY <1>1 DEF MetaSteps
  <2>3. Moved(c, p, cl[c])
    BY <1>0, <1>5, <2>1, <2>2, WentIs DEF StopPost, StopTerminate
  <2>4. ServerTypes'
    <3>1. CASE UNCHANGED srv
      BY <1>0, <1>5, <3>1 DEF StopPost, StopTerminate, ServerTypes, files
    <3>2. CASE Phase(cl[c].seen, "ending")
      BY <1>0, <1>5, <3>2 DEF StopPost, StopTerminate, ServerTypes, files, Phase, Phases
    <3>3. CASE Phase(cl[c].seen, srv[cl[c].seen])
      BY <1>0, <1>5, <3>3 DEF StopPost, StopTerminate, ServerTypes, files, Phase, Phases
    <3> QED
      BY <1>5, <3>1, <3>2, <3>3 DEF StopPost, StopTerminate
  <2> QED
    BY <1>0, <1>2, <2>1, <2>2, <2>3, <2>4, LookKeeps
<1> QED
  BY <1>3, <1>4, <1>5

\* The user interrupts an invocation: its lock goes with it.
LEMMA KilledKeeps ==
    ASSUME ProjectInv, NEW c \in Clients, Killed(c)
    PROVE  ProjectInv'
<1>0. ServerTypes /\ ClientTypes /\ cl[c] \in LocalVars
  BY TypeParts DEF ProjectInv, ClientTypes
<1>1. "done" \in Steps
  BY DEF Steps
<1>2. Moved(c, "done", cl[c])
  BY <1>0, <1>1, WentIs DEF Killed
<1>3. ServerTypes' /\ UNCHANGED <<busy, alloc>>
  BY <1>0 DEF Killed, ServerTypes, server, files
<1>4. /\ lock' \in Clients \cup {None} /\ lock' # c
      /\ \A d \in Clients \ {c} : lock' = d <=> lock = d
  BY <1>0, Domains DEF Killed, ClientTypes
<1>5. pc[c] # "done" /\ "done" \notin LockSteps \cup StopSteps \cup EarlySteps
  BY DEF Killed, LockSteps, StopSteps, EarlySteps, ResolveSteps
<1> QED
  BY <1>0, <1>1, <1>2, <1>3, <1>4, <1>5, ClientStep

-----------------------------------------------------------------------------
(* What holds in every project *)

\* A project without a server, or with one that nobody uses.
LEMMA InitKeeps == Init => ProjectInv
<1> SUFFICES ASSUME Init PROVE ProjectInv
  OBVIOUS
<1>1. NewClient \in LocalVars /\ NewClient.res = None
  BY DEF NewClient, LocalVars
<1>2. 1 \in Servers /\ 1 \in SessionIds /\ 1 <= Cardinality(SessionIds)
  BY Domains DEF Servers, SessionIds
<1>3. ServerTypes
  <2>1. PICK warm \in BOOLEAN, live \in BOOLEAN :
           /\ srv = [s \in Servers |-> IF s = 1 /\ warm THEN "serving" ELSE "none"]
           /\ sessions = [s \in Servers |-> IF s = 1 /\ live THEN {1} ELSE {}]
           /\ ready = IF warm THEN 1 ELSE None
           /\ cookie = IF ~warm THEN None
                       ELSE [server |-> 1, last |-> IF live THEN 1 ELSE None]
    BY DEF Init
  <2>2. srv \in [Servers -> Phases] /\ sessions \in [Servers -> SUBSET SessionIds]
    BY <1>2, <2>1 DEF Phases
  <2>3. ready \in Servers \cup {None}
    BY <1>2, <2>1
  <2>4. cookie = None \/ cookie \in [server : Servers \cup {None}, last : SessionIds \cup {None}]
    BY <1>2, <2>1
  <2> QED
    BY <2>2, <2>3, <2>4 DEF ServerTypes
<1>4. CallTypes /\ \A s \in Servers : alloc[s] <= 1
  <2>1. PICK live \in BOOLEAN : alloc = [s \in Servers |-> IF s = 1 /\ live THEN 1 ELSE 0]
    BY DEF Init
  <2>2. alloc \in [Servers -> 0..Cardinality(SessionIds)] /\ \A s \in Servers : alloc[s] <= 1
    BY <1>2, <2>1, Domains
  <2> QED
    BY <2>2 DEF CallTypes, Init
<1>5. ClientTypes /\ lock = None /\ \A c \in Clients : pc[c] = "new" /\ cl[c].res = None
  BY <1>1 DEF ClientTypes, Init, Steps
<1>6. TypeOK
  BY <1>3, <1>4, <1>5, TypeParts
<1>7. LockInv /\ StopInv
  BY <1>5, Domains DEF LockInv, StopInv, LockSteps, StopSteps
<1>8. CallerInv
  BY DEF CallerInv, Init
<1>9. AllocInv
  <2>1. SUFFICES ASSUME NEW s \in Servers PROVE alloc[s] <= Cardinality(SpentClients(s)) + 1
    BY DEF AllocInv
  <2>2. SpentClients(s) \subseteq Clients
    BY DEF SpentClients
  <2>3. Cardinality(SpentClients(s)) \in Nat
    BY <2>2, SpentGrow
  <2> QED
    BY <1>4, <2>3, Domains DEF CallTypes
<1> QED
  BY <1>6, <1>7, <1>8, <1>9 DEF ProjectInv

\* Every step keeps it.
LEMMA NextKeeps == ProjectInv /\ [Next]_vars => ProjectInv'
<1> SUFFICES ASSUME ProjectInv, [Next]_vars PROVE ProjectInv'
  OBVIOUS
<1>1. ASSUME NEW c \in Clients, Client(c) PROVE ProjectInv'
  BY <1>1, ResolveKeeps, SpawnKeeps, SessionKeeps, CallSentKeeps, RememberKeeps, MetaKeeps
     DEF Client
<1>2. ASSUME NEW s \in Servers, Server(s) \/ Boot(s) \/ IdleExit(s) \/ ServerCrashes(s)
      PROVE  ProjectInv'
  BY <1>2, ServerKeeps, CallSucceedsKeeps, CallFailsKeeps DEF Server, Boot
<1>3. CASE UNCHANGED vars
  BY <1>3 DEF vars, ProjectInv, TypeOK, LockInv, StopInv, CallerInv, AllocInv, SpentClients, Spent
<1> QED
  BY <1>1, <1>2, <1>3, InvokeKeeps, KilledKeeps DEF Next

\* ProjectInv is inductive.
THEOREM ProjectInvariant == Spec => []ProjectInv
BY InitKeeps, NextKeeps, PTL DEF Spec

\* The files, the servers and the clients keep their types; in particular no
\* server gives out more session ids than there are clients and the session it
\* began with.
THEOREM DaemonTypeCorrect == Spec => []TypeOK
<1>1. ProjectInv => TypeOK
  BY DEF ProjectInv
<1> QED
  BY <1>1, ProjectInvariant, PTL

\* At most one invocation is between taking and releasing the lock file
\* (client/daemon.py, _exclusive_lock), interrupted ones included.
THEOREM LockIsExclusive ==
    Spec => [](\A c, d \in Clients : (pc[c] \in LockSteps /\ pc[d] \in LockSteps) => c = d)
<1>1. ProjectInv => \A c, d \in Clients : (pc[c] \in LockSteps /\ pc[d] \in LockSteps) => c = d
  BY DEF ProjectInv, LockInv
<1> QED
  BY <1>1, ProjectInvariant, PTL

-----------------------------------------------------------------------------
(* Who ends a server *)

\* A server that serves sessions decides to end only when it is told to.
LEMMA EndsWhenTold ==
    ASSUME ProjectInv, Next, NEW s \in Servers, srv[s] = "serving", srv'[s] = "ending",
           sessions[s] # {}
    PROVE  \E c \in Clients :
              /\ cl[c].seen = s
              /\ \/ At(c, "x_post") /\ cl[c].cmd = "force_stop"
                 \/ At(c, "x_term")
<1> USE DEF Phase
<1>0. srv \in [Servers -> Phases]
  BY TypeParts DEF ProjectInv, ServerTypes
<1>1. ASSUME NEW t \in Servers,
             Server(t) \/ Boot(t) \/ IdleExit(t) \/ ServerCrashes(t)
      PROVE  FALSE
  BY <1>0, <1>1 DEF Server, Boot, IdleExit, ServerCrashes, ServerReady, BootFails, ServerCloses,
     ServerExits, CallSucceeds, CallFails
<1>2. ASSUME NEW c \in Clients, NEW command \in Commands, Invoke(c, command)
      PROVE  FALSE
  BY <1>2 DEF Invoke, server
<1>3. ASSUME NEW c \in Clients, Killed(c)
      PROVE  FALSE
  BY <1>3 DEF Killed, server
<1>4. ASSUME NEW c \in Clients, Client(c)
      PROVE  StopPost(c) \/ StopTerminate(c)
  <2>1. Spawn(c) \/ SpawnFails(c) \/ StopPost(c) \/ StopTerminate(c)
    BY <1>4 DEF Client, ReadCookie, ProbeSucceeds, ProbeFails, TakeLock, ReadyFound, SpawnProbed,
       WriteCookie, GetSession, CallSent, CallLost, RememberRead, RememberWrite, ForgetCheck,
       ForgetRead, ForgetWrite, StatusRead, StatusProbe, RemoveCookie, StopRead, StopWait, server
  <2>2. ~Spawn(c)
    BY <1>0 DEF Spawn
  <2>3. ~SpawnFails(c)
    BY <1>0 DEF SpawnFails
  <2> QED
    BY <2>1, <2>2, <2>3
<1>5. ASSUME NEW c \in Clients, StopPost(c)
      PROVE  cl[c].seen = s /\ At(c, "x_post") /\ cl[c].cmd = "force_stop"
  <2>1. Phase(cl[c].seen, "ending") /\ At(c, "x_post")
        /\ ~(cl[c].cmd = "stop" /\ sessions[cl[c].seen] # {})
    BY <1>5 DEF StopPost
  <2>2. cl[c].seen = s
    BY <1>0, <2>1
  <2>3. cl[c].cmd \in StopCommands
    BY <2>1 DEF ProjectInv, StopInv, StopSteps, At
  <2> QED
    BY <2>1, <2>2, <2>3 DEF StopCommands
<1>6. ASSUME NEW c \in Clients, StopTerminate(c)
      PROVE  cl[c].seen = s /\ At(c, "x_term")
  BY <1>0, <1>6 DEF StopTerminate
<1> QED
  BY <1>1, <1>2, <1>3, <1>4, <1>5, <1>6 DEF Next

\* A server with live sessions decides to end only when it is forced to or gets
\* a signal (mcp/app.py, the /shutdown endpoint and _idle_watchdog), whatever
\* the timing, the interruptions and the crashes.  A session that is opened
\* after the decision, before the sockets are closed, is not protected by it.
THEOREM ServerDecidesOnDemand == Spec => DecidesToEndOnDemand
<1>1. ProjectInv /\ [Next]_vars =>
         [ \A s \in Servers :
             (srv[s] = "serving" /\ srv'[s] = "ending" /\ sessions[s] # {}) =>
                 \E c \in Clients :
                     /\ cl[c].seen = s
                     /\ \/ At(c, "x_post") /\ cl[c].cmd = "force_stop"
                        \/ At(c, "x_term") ]_vars
  BY EndsWhenTold
<1> QED
  BY <1>1, ProjectInvariant, PTL DEF Spec, DecidesToEndOnDemand

-----------------------------------------------------------------------------
(* One server, named by the cookie *)

\* A cookie names the server that was written into it.
LEMMA WrittenIs ==
    ASSUME NEW s \in Servers \cup {None}, NEW l \in SessionIds \cup {None},
           cookie' = [server |-> s, last |-> l]
    PROVE  cookie' # None /\ CookieServer' = s
BY CookieAssumption DEF CookieServer

\* A client that leaves the servers and the cookie alone.
LEMMA CookieUntouched ==
    ASSUME CookieInv, NEW c \in Clients, UNCHANGED <<srv, cookie>>,
           \A d \in Clients \ {c} : pc'[d] = pc[d] /\ cl'[d] = cl[d],
           pc'[c] \notin MetaSteps,
           pc'[c] \in {"r_probe2", "m_write", "f_write"} => cl'[c].seen = CookieServer,
           pc'[c] \in {"s_spawn"} \cup SpawnSteps => cookie = None,
           pc'[c] = "s_cookie" =>
               cl'[c].own # None /\ srv[cl'[c].own] \notin {"none", "booting"},
           pc[c] \in SpawnSteps => pc'[c] \in SpawnSteps /\ cl'[c].own = cl[c].own
    PROVE  CookieInv'
<1>1. CookieServer' = CookieServer
  BY DEF CookieServer
<1>2. NoMeta' /\ NamedInv'
  BY <1>1 DEF CookieInv, NoMeta, NamedInv
<1>3. HolderInv'
  BY <1>1 DEF CookieInv, HolderInv
<1>4. KnownInv'
  BY <1>1 DEF CookieInv, KnownInv
<1> QED
  BY <1>2, <1>3, <1>4 DEF CookieInv

\* A server that comes up was booting, and one that has been up stays known.
LEMMA ServersGoOn ==
    ASSUME CookieInv, TypeOK, UNCHANGED <<cookie, pc, cl>>,
           NEW s \in Servers, NEW phase \in {"serving", "ending", "closed", "dead"},
           Phase(s, phase), phase = "serving" => srv[s] = "booting"
    PROVE  CookieInv'
<1>1. CookieServer' = CookieServer
  BY DEF CookieServer
<1>2. srv \in [Servers -> Phases] /\ ServerTypes /\ ClientTypes
  BY TypeParts DEF ServerTypes
<1>3. /\ \A t \in Servers : srv'[t] \in {"booting", "serving"} => srv[t] \in {"booting", "serving"}
      /\ \A t \in Servers : srv[t] \notin {"none", "booting"} => srv'[t] \notin {"none", "booting"}
  BY <1>2 DEF Phase
<1>4. CookieServer \in Servers \cup {None} /\ \A c \in Clients : cl[c].own \in Servers \cup {None}
  BY <1>2, CookieIs, LocalsIs DEF ClientTypes
<1>5. NoMeta' /\ NamedInv' /\ HolderInv'
  BY <1>1, <1>3, <1>4 DEF CookieInv, NoMeta, NamedInv, HolderInv
<1>6. KnownInv'
  BY <1>1, <1>3 DEF CookieInv, KnownInv
<1> QED
  BY <1>5, <1>6 DEF CookieInv

\* The servers' own steps.
LEMMA ServersKeepCookie ==
    ASSUME ProjectInv, CookieInv, NEW s \in Servers,
           Server(s) \/ Boot(s) \/ IdleExit(s) \/ ServerCrashes(s)
    PROVE  CookieInv'
<1>0. TypeOK
  BY DEF ProjectInv
<1>1. CASE ServerReady(s)
  BY <1>0, <1>1, ServersGoOn DEF ServerReady
<1>2. CASE BootFails(s) \/ ServerExits(s) \/ ServerCrashes(s)
  BY <1>0, <1>2, ServersGoOn DEF BootFails, ServerExits, ServerCrashes, files
<1>3. CASE IdleExit(s) \/ ServerCloses(s)
  BY <1>0, <1>3, ServersGoOn DEF IdleExit, ServerCloses, files
<1>4. ASSUME CallSucceeds(s) \/ CallFails(s)
      PROVE  CookieInv'
  <2>1. PICK c : c = busy[s]
    OBVIOUS
  <2>2. c \in Clients /\ pc[c] \in {"i_wait", "done"} /\ pc \in [Clients -> Steps] /\ UNCHANGED <<srv, cookie>>
    BY <1>0, <1>4, <2>1, TypeParts DEF CallSucceeds, CallFails, ProjectInv, CallerInv, TypeOK,
       ClientTypes, files
  <2>3. \A d \in Clients \ {c} : pc'[d] = pc[d] /\ cl'[d] = cl[d]
    BY <1>0, <1>4, <2>1, <2>2 DEF CallSucceeds, CallFails, Goto, TypeOK
  <2>4. pc'[c] \in {"i_wait", "m_lock", "f_check", "done"}
    BY <1>4, <2>1, <2>2 DEF CallSucceeds, CallFails, Goto
  <2> QED
    BY <2>2, <2>3, <2>4, CookieUntouched DEF MetaSteps, SpawnSteps
<1> QED
  BY <1>1, <1>2, <1>3, <1>4 DEF Server, Boot

\* resolve_server: the cookie is removed only when the server it names is gone.
LEMMA ResolveKeepsCookie ==
    ASSUME Undisturbed, ProjectInv, CookieInv, NEW c \in Clients,
           ReadCookie(c) \/ ProbeSucceeds(c) \/ ProbeFails(c) \/ TakeLock(c)
    PROVE  CookieInv'
<1> USE DEF At
<1>0. ServerTypes /\ ClientTypes /\ cl[c] \in LocalVars
  BY TypeParts DEF ProjectInv, ClientTypes
<1>1. CASE ReadCookie(c)
  <2>1. /\ \A d \in Clients \ {c} : pc'[d] = pc[d] /\ cl'[d] = cl[d]
        /\ cl'[c].seen = CookieServer /\ UNCHANGED <<srv, cookie>>
    BY <1>0, <1>1 DEF ReadCookie, Goto, ClientTypes, LocalVars, server, files
  <2>2. /\ pc[c] \in {"r_read", "r_read2"} /\ pc'[c] \in {"r_lock", "r_probe", "s_spawn", "r_probe2"}
        /\ pc'[c] = "s_spawn" => cookie = None
    BY <1>0, <1>1 DEF ReadCookie, Goto, ClientTypes
  <2> QED
    BY <2>1, <2>2, CookieUntouched DEF MetaSteps, SpawnSteps
<1>2. CASE ProbeSucceeds(c)
  <2>1. PICK p \in {"i_send", "g_read"}, r \in LocalVars : Moved(c, p, r)
    BY <1>0, <1>2, ResolvedIs, LocalsIs DEF ProbeSucceeds
  <2>2. UNCHANGED <<srv, cookie>> /\ pc[c] \in {"r_probe", "r_probe2"}
    BY <1>2 DEF ProbeSucceeds, server, files
  <2> QED
    BY <2>1, <2>2, CookieUntouched DEF Moved, MetaSteps, SpawnSteps
<1>3. CASE TakeLock(c)
  <2>1. /\ \A d \in Clients \ {c} : pc'[d] = pc[d] /\ cl'[d] = cl[d]
        /\ pc[c] = "r_lock" /\ pc'[c] = "r_read2" /\ UNCHANGED <<srv, cookie>>
    BY <1>0, <1>3 DEF TakeLock, Goto, ClientTypes, server, files
  <2> QED
    BY <2>1, CookieUntouched DEF MetaSteps, SpawnSteps
<1>4. CASE ProbeFails(c) /\ pc[c] = "r_probe"
  <2>1. /\ \A d \in Clients \ {c} : pc'[d] = pc[d] /\ cl'[d] = cl[d]
        /\ pc'[c] = "r_lock" /\ UNCHANGED <<srv, cookie>>
    BY <1>0, <1>4 DEF ProbeFails, Goto, ClientTypes, server
  <2> QED
    BY <1>4, <2>1, CookieUntouched DEF MetaSteps, SpawnSteps
<1>5. CASE ProbeFails(c) /\ pc[c] = "r_probe2"
  <2>1. /\ \A d \in Clients \ {c} : pc'[d] = pc[d] /\ cl'[d] = cl[d]
        /\ pc'[c] = "s_spawn" /\ cookie' = None /\ CookieServer' = None /\ srv' = srv
    BY <1>0, <1>5 DEF ProbeFails, Goto, ClientTypes, server, CookieServer
  <2>2. cl[c].seen = CookieServer /\ ~Accepting(CookieServer)
    BY <1>5 DEF CookieInv, HolderInv, ProbeFails, Unanswered, Undisturbed
  <2>3. \A s \in Servers : CookieServer = s => srv[s] \notin {"booting", "serving"}
    BY <2>2, Domains DEF Accepting, CookieInv, NamedInv
  <2>4. \A d \in Clients \ {c} : pc[d] \notin LockSteps
    BY <1>5 DEF ProjectInv, LockInv, LockSteps
  <2>5. NoMeta' /\ NamedInv'
    BY <2>1 DEF CookieInv, NoMeta, NamedInv, MetaSteps
  <2>6. HolderInv'
    BY <2>1, <2>4 DEF CookieInv, HolderInv, LockSteps, SpawnSteps
  <2>7. KnownInv'
    BY <1>5, <2>1, <2>3 DEF CookieInv, KnownInv, SpawnSteps
  <2> QED
    BY <2>5, <2>6, <2>7 DEF CookieInv
<1> QED
  BY <1>1, <1>2, <1>3, <1>4, <1>5 DEF ProbeFails

\* The holder of the lock that spawns knows every server that is or will be up.
LEMMA SpawnerKnows ==
    ASSUME ProjectInv, CookieInv, NEW c \in Clients, pc[c] \in {"s_spawn"} \cup SpawnSteps
    PROVE  /\ cookie = None /\ CookieServer = None
           /\ \A d \in Clients \ {c} : pc[d] \notin LockSteps
           /\ \A s \in Servers : srv[s] \in {"booting", "serving"} =>
                 pc[c] \in SpawnSteps /\ cl[c].own = s
<1>1. cookie = None /\ CookieServer = None
  BY DEF CookieInv, HolderInv, CookieServer
<1>2. \A d \in Clients \ {c} : pc[d] \notin LockSteps
  BY DEF ProjectInv, LockInv, LockSteps, SpawnSteps
<1>3. \A d \in Clients \ {c} : pc[d] \notin SpawnSteps
  BY <1>2 DEF LockSteps, SpawnSteps
<1> QED
  BY <1>1, <1>2, <1>3, Domains DEF CookieInv, KnownInv

\* _spawn: a server is started only when none is up, and its process is killed
\* or its cookie is written before the lock is released.
LEMMA SpawnKeepsCookie ==
    ASSUME Undisturbed, ProjectInv, CookieInv, NEW c \in Clients,
           \/ Spawn(c) \/ ReadyFound(c) \/ SpawnProbed(c) \/ SpawnFails(c) \/ WriteCookie(c)
    PROVE  CookieInv'
<1> USE DEF At
<1>0. ServerTypes /\ ClientTypes /\ cl[c] \in LocalVars /\ srv \in [Servers -> Phases]
  BY TypeParts DEF ProjectInv, ClientTypes, ServerTypes
<1>1. /\ pc[c] \in {"s_spawn"} \cup SpawnSteps
      /\ Spawn(c) => pc[c] = "s_spawn"
      /\ ~Spawn(c) => pc[c] \in SpawnSteps
  BY DEF Spawn, ReadyFound, SpawnProbed, SpawnFails, WriteCookie, SpawnSteps
<1>2. /\ cookie = None /\ CookieServer = None
      /\ \A d \in Clients \ {c} : pc[d] \notin LockSteps
      /\ \A s \in Servers : srv[s] \in {"booting", "serving"} =>
             pc[c] \in SpawnSteps /\ cl[c].own = s
  BY <1>1, SpawnerKnows
<1>3. CASE Spawn(c)
  <2>1. PICK s \in Servers : Phase(s, "booting") /\ cl' = [cl EXCEPT ![c].own = s]
    BY <1>3 DEF Spawn
  <2>2. /\ \A d \in Clients \ {c} : pc'[d] = pc[d] /\ cl'[d] = cl[d]
        /\ pc'[c] = "s_ready" /\ cl'[c].own = s /\ cookie' = None /\ CookieServer' = None
    BY <1>0, <1>2, <1>3, <2>1 DEF Spawn, Goto, ClientTypes, LocalVars, CookieServer
  <2>3. \A t \in Servers \ {s} : srv'[t] \notin {"booting", "serving"}
    BY <1>0, <1>1, <1>2, <1>3, <2>1 DEF Phase, SpawnSteps
  <2>4. NoMeta' /\ NamedInv' /\ HolderInv'
    BY <1>2, <2>2 DEF CookieInv, NoMeta, NamedInv, HolderInv, MetaSteps, LockSteps, SpawnSteps
  <2>5. KnownInv'
    BY <2>2, <2>3 DEF KnownInv, SpawnSteps
  <2> QED
    BY <2>4, <2>5 DEF CookieInv
<1>4. CASE ReadyFound(c)
  <2>1. /\ \A d \in Clients \ {c} : pc'[d] = pc[d] /\ cl'[d] = cl[d]
        /\ pc'[c] = "s_probe" /\ cl'[c].own = cl[c].own /\ UNCHANGED <<srv, cookie>>
    BY <1>0, <1>4 DEF ReadyFound, Goto, ClientTypes, LocalVars, server, files
  <2> QED
    BY <1>2, <2>1, CookieUntouched DEF MetaSteps, SpawnSteps
<1>5. CASE SpawnProbed(c)
  <2>1. /\ \A d \in Clients \ {c} : pc'[d] = pc[d] /\ cl'[d] = cl[d]
        /\ pc'[c] = "s_cookie" /\ cl'[c].own = cl[c].own /\ UNCHANGED <<srv, cookie>>
    BY <1>0, <1>5 DEF SpawnProbed, Goto, ClientTypes, server, files
  <2>2. cl[c].own # None /\ srv[cl[c].own] \notin {"none", "booting"}
    BY <1>5 DEF SpawnProbed, Answers, Accepting
  <2> QED
    BY <1>2, <2>1, <2>2, CookieUntouched DEF MetaSteps, SpawnSteps
<1>6. CASE SpawnFails(c)
  <2>1. /\ \A d \in Clients \ {c} : pc'[d] = pc[d] /\ cl'[d] = cl[d]
        /\ pc'[c] = "done" /\ cookie' = None /\ CookieServer' = None
    BY <1>0, <1>2, <1>6 DEF SpawnFails, Goto, ClientTypes, files, CookieServer
  <2>2. \A s \in Servers : srv'[s] \notin {"booting", "serving"}
    <3>1. CASE Alive(cl[c].own)
      BY <1>0, <1>2, <1>6, <3>1 DEF SpawnFails, Phase
    <3>2. CASE ~Alive(cl[c].own)
      BY <1>0, <1>2, <1>6, <3>2 DEF SpawnFails, Alive
    <3> QED
      BY <3>1, <3>2
  <2>3. NoMeta' /\ NamedInv' /\ HolderInv'
    BY <1>2, <2>1 DEF CookieInv, NoMeta, NamedInv, HolderInv, MetaSteps, LockSteps, SpawnSteps
  <2>4. KnownInv'
    BY <2>2 DEF KnownInv
  <2> QED
    BY <2>3, <2>4 DEF CookieInv
<1>7. CASE WriteCookie(c)
  <2>1. PICK p \in {"i_send", "g_read"}, r \in LocalVars : Moved(c, p, r)
    BY <1>0, <1>7, ResolvedIs, LocalsIs DEF WriteCookie
  <2>2. srv' = srv /\ CookieServer' = cl[c].own
    BY <1>0, <1>7, LocalsIs, WrittenIs DEF WriteCookie, server
  <2>3. cl[c].own # None /\ srv[cl[c].own] \notin {"none", "booting"}
    BY <1>7 DEF CookieInv, HolderInv, WriteCookie
  <2>4. NoMeta' /\ NamedInv' /\ HolderInv'
    BY <1>2, <2>1, <2>2, <2>3 DEF CookieInv, NoMeta, NamedInv, HolderInv, MetaSteps, LockSteps,
       SpawnSteps, Moved
  <2>5. KnownInv'
    BY <1>2, <2>2 DEF KnownInv
  <2> QED
    BY <2>4, <2>5 DEF CookieInv
<1> QED
  BY <1>3, <1>4, <1>5, <1>6, <1>7

\* The call of a tool, and the default session: what is written back names the
\* server that was read.
LEMMA CallsKeepCookie ==
    ASSUME ProjectInv, CookieInv, NEW c \in Clients,
           \/ GetSession(c) \/ CallSent(c) \/ CallLost(c) \/ RememberRead(c) \/ RememberWrite(c)
           \/ ForgetCheck(c) \/ ForgetRead(c) \/ ForgetWrite(c)
    PROVE  CookieInv'
<1> USE DEF At
<1>0. ServerTypes /\ ClientTypes /\ cl[c] \in LocalVars
  BY TypeParts DEF ProjectInv, ClientTypes
<1>1. /\ \A d \in Clients \ {c} : pc'[d] = pc[d] /\ cl'[d] = cl[d]
      /\ pc[c] \notin SpawnSteps /\ srv' = srv
  BY <1>0 DEF GetSession, CallSent, CallLost, RememberRead, RememberWrite, ForgetCheck, ForgetRead,
     ForgetWrite, Goto, ClientTypes, server, SpawnSteps
<1>2. CASE GetSession(c) \/ CallSent(c) \/ CallLost(c) \/ ForgetCheck(c)
  <2>1. pc'[c] \in {"i_send", "i_wait", "done", "f_lock"} /\ cookie' = cookie
    BY <1>0, <1>2 DEF GetSession, CallSent, CallLost, ForgetCheck, Goto, ClientTypes, server, files
  <2> QED
    BY <1>1, <2>1, CookieUntouched DEF MetaSteps, SpawnSteps
<1>3. CASE RememberRead(c) \/ ForgetRead(c)
  <2>1. /\ pc'[c] \in {"m_write", "f_write", "done"} /\ cookie' = cookie
        /\ pc'[c] \in {"m_write", "f_write"} => cl'[c].seen = CookieServer
    BY <1>0, <1>3 DEF RememberRead, ForgetRead, Goto, ClientTypes, LocalVars, files
  <2> QED
    BY <1>1, <2>1, CookieUntouched DEF MetaSteps, SpawnSteps
<1>4. CASE RememberWrite(c) \/ ForgetWrite(c)
  <2>1. pc[c] \in {"m_write", "f_write"} /\ pc'[c] \in {"i_send", "done"}
    BY <1>0, <1>4 DEF RememberWrite, ForgetWrite, Goto, ClientTypes
  <2>2. CookieServer' = cl[c].seen
    BY <1>0, <1>4, LocalsIs, WrittenIs DEF RememberWrite, ForgetWrite
  <2>3. CookieServer' = CookieServer
    BY <2>1, <2>2 DEF CookieInv, HolderInv
  <2>4. \A d \in Clients \ {c} : pc[d] \notin LockSteps
    BY <2>1 DEF ProjectInv, LockInv, LockSteps
  <2>5. NoMeta' /\ NamedInv' /\ HolderInv'
    BY <1>1, <2>1, <2>3, <2>4 DEF CookieInv, NoMeta, NamedInv, HolderInv, MetaSteps, LockSteps,
       SpawnSteps
  <2>6. KnownInv'
    BY <1>1, <2>3 DEF CookieInv, KnownInv
  <2> QED
    BY <2>5, <2>6 DEF CookieInv
<1> QED
  BY <1>2, <1>3, <1>4

\* An invocation begins; it does not ask for the status or for a stop.
LEMMA InvokeKeepsCookie ==
    ASSUME Undisturbed, ProjectInv, CookieInv, NEW c \in Clients, NEW command \in Commands,
           Invoke(c, command)
    PROVE  CookieInv'
<1>1. ClientTypes
  BY TypeParts DEF ProjectInv
<1>2. command \notin {"status"} \cup StopCommands
  BY DEF Undisturbed
<1>3. /\ \A d \in Clients \ {c} : pc'[d] = pc[d] /\ cl'[d] = cl[d]
      /\ pc[c] = "new" /\ pc'[c] = "r_read" /\ UNCHANGED <<srv, cookie>>
  BY <1>1, <1>2 DEF Invoke, At, Goto, ClientTypes, server, files
<1> QED
  BY <1>3, CookieUntouched DEF MetaSteps, SpawnSteps

\* Every step keeps it.
LEMMA NextKeepsCookie ==
    ASSUME Undisturbed, ProjectInv, CookieInv, [Next]_vars
    PROVE  CookieInv'
<1>1. ASSUME NEW c \in Clients, Client(c) PROVE CookieInv'
  <2>1. ~(\/ StatusRead(c) \/ StatusProbe(c) \/ RemoveCookie(c)
          \/ StopRead(c) \/ StopPost(c) \/ StopWait(c) \/ StopTerminate(c))
    BY DEF CookieInv, NoMeta, MetaSteps, At, StatusRead, StatusProbe, RemoveCookie, StopRead,
       StopPost, StopWait, StopTerminate
  <2> QED
    BY <1>1, <2>1, ResolveKeepsCookie, SpawnKeepsCookie, CallsKeepCookie DEF Client
<1>2. ASSUME NEW c \in Clients PROVE ~Killed(c)
  BY DEF Undisturbed, Killed
<1>3. CASE UNCHANGED vars
  BY <1>3 DEF vars, CookieInv, NoMeta, HolderInv, NamedInv, KnownInv, CookieServer
<1> QED
  BY <1>1, <1>2, <1>3, InvokeKeepsCookie, ServersKeepCookie DEF Next

\* The cookie of a project names its server from the beginning.
LEMMA InitKeepsCookie == Init => CookieInv
<1> SUFFICES ASSUME Init PROVE CookieInv
  OBVIOUS
<1>1. \A c \in Clients : pc[c] = "new"
  BY DEF Init
<1>2. /\ CookieServer \in {None, 1} /\ 1 \in Servers
      /\ CookieServer = 1 => srv[1] = "serving"
      /\ \A s \in Servers : srv[s] \in {"booting", "serving"} => CookieServer = s
  <2>1. PICK warm \in BOOLEAN, live \in BOOLEAN :
           /\ srv = [s \in Servers |-> IF s = 1 /\ warm THEN "serving" ELSE "none"]
           /\ cookie = IF ~warm THEN None
                       ELSE [server |-> 1, last |-> IF live THEN 1 ELSE None]
    BY DEF Init
  <2>2. 1 \in Servers /\ 1 \in SessionIds
    BY Domains DEF Servers, SessionIds
  <2>3. CASE warm
    <3>1. cookie # None /\ cookie.server = 1
      BY <2>1, <2>2, <2>3, CookieAssumption
    <3> QED
      BY <2>1, <2>2, <2>3, <3>1 DEF CookieServer
  <2>4. CASE ~warm
    BY <2>1, <2>2, <2>4, Domains DEF CookieServer
  <2> QED
    BY <2>3, <2>4
<1>3. NoMeta /\ HolderInv
  BY <1>1 DEF NoMeta, HolderInv, MetaSteps, SpawnSteps
<1>4. NamedInv /\ KnownInv
  BY <1>2 DEF NamedInv, KnownInv
<1> QED
  BY <1>3, <1>4 DEF CookieInv

\* CookieInv is inductive, given ProjectInv.
THEOREM CookieInvariant == ASSUME Undisturbed PROVE Spec => []CookieInv
<1>1. ProjectInv /\ CookieInv /\ [Next]_vars => CookieInv'
  BY NextKeepsCookie
<1> QED
  BY <1>1, InitKeepsCookie, ProjectInvariant, PTL DEF Spec

\* One project, one background server (client/daemon.py, resolve_server): while
\* the cookie is changed under the lock only, any number of invocations, with
\* servers that crash, fail to boot or idle out, never run two servers that
\* take new work.
THEOREM OneServerAtATime == ASSUME Undisturbed PROVE Spec => []OneServer
<1>1. ProjectInv /\ CookieInv => OneServer
  <2> SUFFICES ASSUME ProjectInv, CookieInv, NEW r \in Servers, NEW s \in Servers,
                      srv[r] = "serving", srv[s] = "serving"
               PROVE  r = s
    BY DEF OneServer
  <2>1. CASE CookieServer = r /\ CookieServer = s
    BY <2>1
  <2>2. ASSUME NEW c \in Clients, pc[c] \in SpawnSteps PROVE r = s
    BY <2>2, SpawnerKnows
  <2> QED
    BY <2>1, <2>2 DEF CookieInv, KnownInv
<1> QED
  BY <1>1, CookieInvariant, ProjectInvariant, PTL

\* No server is lost: one that serves is named by the cookie or is being
\* spawned by the invocation that will write it (client/daemon.py, _spawn).
THEOREM NoServerIsLost == ASSUME Undisturbed PROVE Spec => []NoOrphan
<1>1. CookieInv => NoOrphan
  BY DEF CookieInv, KnownInv, NoOrphan, SpawnSteps, ResolveSteps
<1> QED
  BY <1>1, CookieInvariant, PTL
=============================================================================
