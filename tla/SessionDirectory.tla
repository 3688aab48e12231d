-------------------------- MODULE SessionDirectory --------------------------
(***************************************************************************)
(* What the registry of sessions promises its clients, without threads,    *)
(* locks or the steps of a start and a stop.  SessionRegistry implements   *)
(* it.                                                                     *)
(*                                                                         *)
(* A session id is unused, then starting, then open or gone.  An open one  *)
(* may be closing and come back; one that is gone never does.  Ids are     *)
(* given in order and only once.  A debugger exists from the start of its  *)
(* session on, may end at any time, and has ended when the session goes -  *)
(* unless a shutdown has given it up.                                      *)
(***************************************************************************)
EXTENDS Integers

CONSTANT MaxSessions    \* bound: session ids

Sessions == 1..MaxSessions

VARIABLES
    phase,       \* per session
    debuggers,   \* the sessions with a debugger
    givenUp      \* the sessions whose debugger a shutdown has given up

vars == <<phase, debuggers, givenUp>>

In(s, P) == phase[s] \in P

Init ==
    /\ phase = [s \in Sessions |-> "unused"]
    /\ debuggers = {}
    /\ givenUp = {}

Allocate(s) ==
    /\ In(s, {"unused"})
    /\ \A r \in 1..(s - 1) : ~In(r, {"unused"})
    /\ phase' = [phase EXCEPT ![s] = "starting"]
    /\ UNCHANGED <<debuggers, givenUp>>

DebuggerStarts(s) ==
    /\ In(s, {"starting"})
    /\ debuggers' = debuggers \cup {s}
    /\ UNCHANGED <<phase, givenUp>>

DebuggerEnds(s) ==
    /\ debuggers' = debuggers \ {s}
    /\ UNCHANGED <<phase, givenUp>>

Publish(s) ==
    /\ In(s, {"starting"})
    /\ phase' = [phase EXCEPT ![s] = "open"]
    /\ UNCHANGED <<debuggers, givenUp>>

\* The start fails and takes the debugger with it, if there is one.
FailStart(s) ==
    /\ In(s, {"starting"})
    /\ phase' = [phase EXCEPT ![s] = "gone"]
    /\ debuggers' = debuggers \ {s}
    /\ UNCHANGED givenUp

\* One session, or at shutdown all of them, becomes closing, comes back, or
\* goes.  Only one whose debugger has ended or is given up can go.
Move(D) ==
    /\ \A s \in D : In(s, {"open", "closing"})
    /\ phase' \in [Sessions -> {"unused", "starting", "open", "closing", "gone"}]
    /\ \A s \in Sessions \ D : phase'[s] = phase[s]
    /\ \A s \in D : /\ phase'[s] \in {"open", "closing", "gone"}
                    /\ phase'[s] = "gone" => s \notin debuggers \/ s \in givenUp
    /\ UNCHANGED <<debuggers, givenUp>>

GiveUp(s) ==
    /\ In(s, {"closing", "gone"})
    /\ givenUp' = givenUp \cup {s}
    /\ UNCHANGED <<phase, debuggers>>

Next ==
    \/ \E s \in Sessions :
          \/ Allocate(s) \/ DebuggerStarts(s) \/ DebuggerEnds(s)
          \/ Publish(s) \/ FailStart(s) \/ GiveUp(s)
    \/ \E D \in SUBSET Sessions : Move(D)

Spec == Init /\ [][Next]_vars
=============================================================================
