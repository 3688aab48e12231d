------------------------- MODULE RuntimeStateProofs -------------------------
(***************************************************************************)
(* Lemmas about the methods of session/runtime.py, as RuntimeState models  *)
(* them: what each one keeps of a single runtime, for every set of         *)
(* inferiors, reasons, exit codes and stop events and every history limit. *)
(* The modules whose sessions are such runtimes rest on them.              *)
(***************************************************************************)
EXTENDS RuntimeState, FiniteSetTheorems, WellFoundedInduction, TLAPS

-----------------------------------------------------------------------------
(* Facts about the helpers of RuntimeState *)

\* The inferior_states of a runtime: a record for each tracked inferior.
LEMMA StatesType ==
    ASSUME NEW f
    PROVE  f \in InferiorStates <=> /\ DOMAIN f \in SUBSET Ids
                                   /\ f \in [DOMAIN f -> InferiorRuntimeState]
BY DEF InferiorStates

\* A set of tracked inferiors is finite, and its size is a count.
LEMMA CountType ==
    ASSUME NEW D \in SUBSET Ids
    PROVE  IsFiniteSet(D) /\ Cardinality(D) \in Nat
BY IdsAssumption, FS_Subset, FS_CardinalityType

\* None is no inferior.
LEMMA NoneIsNoId == None \notin Ids /\ None \notin Nat /\ 1 \in Ids
<1>1. \A n \in Nat : n \in Int
  OBVIOUS
<1>2. None \notin Nat
  BY <1>1, NoneAssumption, Zenon
<1>3. Ids \subseteq Nat /\ 1 \in Ids
  BY IdsAssumption
<1> QED
  BY <1>2, <1>3, Zenon

\* A set of numbers that is not empty has a least one.
LEMMA LeastExists ==
    ASSUME NEW S \in SUBSET Nat, S # {}
    PROVE  \E x \in S : \A y \in S : x <= y
<1> DEFINE Less == {p \in Nat \X Nat : p[1] < p[2]}
<1>1. IsWellFoundedOn(Less, Nat)
  BY NatLessThanWellFounded, Zenon DEF OpToRel
<1>2. PICK x \in S : \A y \in S : ~(<<y, x>> \in Less)
  <2> HIDE DEF Less
  <2> QED  BY <1>1, WFMin
<1>3. ASSUME NEW y \in S PROVE x <= y
  <2>1. x \in Nat /\ y \in Nat
    OBVIOUS
  <2>2. y < x => <<y, x>> \in Less
    BY <2>1, SMT
  <2> HIDE DEF Less
  <2> QED  BY <1>2, <2>1, <2>2
<1> QED
  BY <1>3

\* min(ids) is one of the inferiors listed; None stands for "no inferior".
LEMMA MinOrNoneType ==
    ASSUME NEW ids \in SUBSET Ids
    PROVE  /\ ids = {} => MinOrNone(ids) = None
           /\ ids # {} => MinOrNone(ids) \in ids
<1>1. CASE ids = {}
  BY <1>1 DEF MinOrNone
<1>2. CASE ids # {}
  <2>1. ids \in SUBSET Nat
    BY IdsAssumption
  <2>2. \E x \in ids : \A y \in ids : x <= y
    BY <1>2, <2>1, LeastExists
  <2> QED
    BY <1>2, <2>2 DEF MinOrNone
<1> QED
  BY <1>1, <1>2

\* Tracking an inferior changes nothing but the record of that inferior.
LEMMA TrackType ==
    ASSUME NEW r \in Runtime, NEW id \in Ids, NEW s \in InferiorRuntimeState
    PROVE  /\ Track(r, id, s) \in Runtime
           /\ Tracked(Track(r, id, s)) = Tracked(r) \cup {id}
           /\ Track(r, id, s).inferior_states[id] = s
           /\ \A i \in Tracked(r) \ {id} :
                 Track(r, id, s).inferior_states[i] = r.inferior_states[i]
<1> DEFINE f == [i \in Tracked(r) \cup {id} |-> IF i = id THEN s ELSE r.inferior_states[i]]
<1>1. /\ Tracked(r) \in SUBSET Ids
      /\ r.inferior_states \in [Tracked(r) -> InferiorRuntimeState]
  BY StatesType DEF Runtime, Tracked
<1>2. f \in InferiorStates
  BY <1>1, StatesType
<1>3. Track(r, id, s) = [r EXCEPT !.inferior_states = f]
  BY DEF Track
<1>4. Track(r, id, s) \in Runtime
  BY <1>2, <1>3 DEF Runtime
<1>5. Track(r, id, s).inferior_states = f
  BY <1>3 DEF Runtime
<1> QED
  BY <1>1, <1>4, <1>5 DEF Tracked

-----------------------------------------------------------------------------
(* What every method of the runtime keeps *)

\* The runtime is well typed and shows its selected inferior.
Sound(r) == r \in Runtime /\ SelectedMirrorsTracked(r)

\* The fields that no update about inferiors touches.
SameSession(r, q) ==
    /\ q.state = r.state /\ q.controller = r.controller /\ q.is_running = r.is_running
    /\ q.last_stop_event = r.last_stop_event /\ q.stop_history = r.stop_history

\* The record shown at the top level is a record of an inferior.
LEMMA NewInferiorType == NewInferior \in InferiorRuntimeState
BY DEF NewInferior, InferiorRuntimeState, ExecutionState

\* An empty table of inferiors is a table of inferiors.
LEMMA NoInferiorsType == NoInferiors \in InferiorStates /\ DOMAIN NoInferiors = {}
<1>1. DOMAIN NoInferiors = {} /\ NoInferiors \in [{} -> InferiorRuntimeState]
  BY DEF NoInferiors
<1> QED
  BY <1>1, StatesType

\* The types of the fields of a runtime that describe inferiors.
LEMMA RuntimeFields ==
    ASSUME NEW r \in Runtime
    PROVE  /\ Tracked(r) \in SUBSET Ids
           /\ r.inferior_states \in [Tracked(r) -> InferiorRuntimeState]
           /\ r.current_inferior_id \in Ids \cup {None}
           /\ r.inferior_count \in Nat \cup {None}
           /\ InState(r.execution_state, r.stop_reason, r.exit_code) \in InferiorRuntimeState
BY StatesType DEF Runtime, Tracked, InState, InferiorRuntimeState

\* Mirror moves the three top-level fields and nothing else.
LEMMA MirrorType ==
    ASSUME NEW r \in Runtime, NEW s \in InferiorRuntimeState
    PROVE  LET q == Mirror(r, s) IN
           /\ q \in Runtime /\ SameSession(r, q)
           /\ q.current_inferior_id = r.current_inferior_id
           /\ q.inferior_states = r.inferior_states
           /\ q.inferior_count = r.inferior_count
           /\ InState(q.execution_state, q.stop_reason, q.exit_code) = s
<1> DEFINE q == Mirror(r, s)
<1>1. /\ s.execution_state \in ExecutionState
      /\ s.stop_reason \in Reasons \cup {None}
      /\ s.exit_code \in ExitCodes \cup {None}
      /\ s = InState(s.execution_state, s.stop_reason, s.exit_code)
  BY DEF InferiorRuntimeState, InState
<1>2. q \in Runtime
  BY ZenonT(60), <1>1 DEF Mirror, Runtime
<1>3. /\ q.execution_state = s.execution_state
      /\ q.stop_reason = s.stop_reason
      /\ q.exit_code = s.exit_code
  BY DEF Mirror, Runtime
<1>4. /\ SameSession(r, q)
      /\ q.current_inferior_id = r.current_inferior_id
      /\ q.inferior_states = r.inferior_states
      /\ q.inferior_count = r.inferior_count
  BY DEF Mirror, Runtime, SameSession
<1> QED
  BY <1>1, <1>2, <1>3, <1>4

\* _synchronize_selected_state repairs the top-level fields of any runtime.
LEMMA SynchronizeSound ==
    ASSUME NEW r \in Runtime
    PROVE  LET q == SynchronizeSelectedState(r) IN
           /\ Sound(q) /\ SameSession(r, q)
           /\ q.current_inferior_id = r.current_inferior_id
           /\ r.current_inferior_id \in Tracked(r) \cup {None}
                 => /\ q.inferior_states = r.inferior_states
                    /\ q.inferior_count = r.inferior_count
<1> DEFINE c == r.current_inferior_id
           q == SynchronizeSelectedState(r)
<1>0. c \in Ids \cup {None} /\ None \notin Ids
  BY RuntimeFields, NoneIsNoId
<1>1. CASE c = None
  <2>1. q = Mirror(r, NewInferior)
    BY <1>1 DEF SynchronizeSelectedState
  <2> QED
    BY <1>1, <2>1, NewInferiorType, MirrorType DEF Sound, SelectedMirrorsTracked
<1>2. CASE c # None /\ c \in Tracked(r)
  <2>1. q = Mirror(r, r.inferior_states[c]) /\ r.inferior_states[c] \in InferiorRuntimeState
    BY <1>2, RuntimeFields DEF SynchronizeSelectedState
  <2> QED
    BY <1>2, <2>1, MirrorType DEF Sound, SelectedMirrorsTracked, Tracked
<1>3. CASE c # None /\ c \notin Tracked(r)
  <2> DEFINE t == Track(r, c, NewInferior)
  <2>1. /\ t \in Runtime /\ c \in Tracked(t) /\ t.inferior_states[c] = NewInferior
    BY <1>0, <1>3, NewInferiorType, TrackType
  <2>2. SameSession(r, t) /\ t.current_inferior_id = c
    BY DEF Track, SameSession, Runtime
  <2>3. q = Mirror(t, NewInferior)
    BY <1>3, <2>1, <2>2 DEF SynchronizeSelectedState
  <2> HIDE DEF t, c
  <2>4. /\ q \in Runtime /\ SameSession(t, q) /\ q.current_inferior_id = c
        /\ q.inferior_states = t.inferior_states
        /\ InState(q.execution_state, q.stop_reason, q.exit_code) = NewInferior
    BY <2>1, <2>2, <2>3, NewInferiorType, MirrorType
  <2> QED
    BY <1>3, <2>1, <2>2, <2>4 DEF Sound, SelectedMirrorsTracked, Tracked, SameSession, c
<1> QED
  BY <1>1, <1>2, <1>3

\* The count is raised to the number of tracked inferiors, nothing else moves.
LEMMA BumpCountSound ==
    ASSUME NEW r \in Runtime
    PROVE  LET q == BumpCount(r) IN
           /\ q \in Runtime /\ SameSession(r, q) /\ CountCoversTracked(q)
           /\ q.current_inferior_id = r.current_inferior_id
           /\ q.inferior_states = r.inferior_states
           /\ q.execution_state = r.execution_state
           /\ q.stop_reason = r.stop_reason /\ q.exit_code = r.exit_code
<1> DEFINE n == Cardinality(Tracked(r))
           q == BumpCount(r)
<1>1. n \in Nat
  BY RuntimeFields, CountType
<1>2. r.inferior_count \in Nat \cup {None} /\ None \notin Nat
  BY RuntimeFields, NoneIsNoId
<1>3. CASE r.inferior_count = None \/ r.inferior_count < n
  <2>1. q = [r EXCEPT !.inferior_count = n]
    BY <1>3 DEF BumpCount
  <2> HIDE DEF q
  <2>2. q \in Runtime /\ SameSession(r, q) /\ q.inferior_count = n
    BY <1>1, <2>1 DEF Runtime, SameSession
  <2>3. /\ q.current_inferior_id = r.current_inferior_id
        /\ q.inferior_states = r.inferior_states
        /\ q.execution_state = r.execution_state
        /\ q.stop_reason = r.stop_reason /\ q.exit_code = r.exit_code
    BY <2>1 DEF Runtime
  <2>4. CountCoversTracked(q)
    BY <1>1, <2>2, <2>3 DEF CountCoversTracked, Tracked
  <2> QED
    BY <2>2, <2>3, <2>4 DEF q
<1>4. CASE ~(r.inferior_count = None \/ r.inferior_count < n)
  <2>1. q = r
    BY <1>4 DEF BumpCount
  <2>2. CountCoversTracked(r)
    BY <1>1, <1>2, <1>4 DEF CountCoversTracked
  <2> QED
    BY <2>1, <2>2 DEF SameSession
<1> QED
  BY <1>3, <1>4

\* ensure_inferior: the inferior is tracked and counted.
LEMMA EnsureInferiorSound ==
    ASSUME NEW r \in Runtime, NEW id \in Ids
    PROVE  LET q == EnsureInferior(r, id) IN
           /\ q \in Runtime /\ SameSession(r, q) /\ CountCoversTracked(q)
           /\ q.current_inferior_id = r.current_inferior_id
           /\ Tracked(q) = Tracked(r) \cup {id}
           /\ SelectedMirrorsTracked(r) => SelectedMirrorsTracked(q)
<1> DEFINE t == IF id \in Tracked(r) THEN r ELSE Track(r, id, NewInferior)
           q == EnsureInferior(r, id)
<1>1. /\ t \in Runtime
      /\ Tracked(t) = Tracked(r) \cup {id}
      /\ \A i \in Tracked(r) : t.inferior_states[i] = r.inferior_states[i]
  BY NewInferiorType, TrackType
<1>2. /\ SameSession(r, t)
      /\ t.current_inferior_id = r.current_inferior_id
      /\ t.execution_state = r.execution_state
      /\ t.stop_reason = r.stop_reason /\ t.exit_code = r.exit_code
  BY DEF Track, Runtime, SameSession
<1>3. q = BumpCount(t)
  BY DEF EnsureInferior
<1> HIDE DEF t, q
<1>4. /\ q \in Runtime /\ SameSession(t, q) /\ CountCoversTracked(q)
      /\ q.current_inferior_id = t.current_inferior_id
      /\ q.inferior_states = t.inferior_states
      /\ q.execution_state = t.execution_state
      /\ q.stop_reason = t.stop_reason /\ q.exit_code = t.exit_code
  BY <1>1, <1>3, BumpCountSound
<1>5. SelectedMirrorsTracked(r) => SelectedMirrorsTracked(q)
  BY <1>1, <1>2, <1>4 DEF SelectedMirrorsTracked, Tracked
<1> QED
  BY <1>1, <1>2, <1>4, <1>5 DEF SameSession, Tracked, q

\* mark_inferior_selected
LEMMA MarkInferiorSelectedSound ==
    ASSUME NEW r \in Runtime, NEW id \in Ids
    PROVE  LET q == MarkInferiorSelected(r, id) IN
           Sound(q) /\ SameSession(r, q) /\ CountCoversTracked(q)
<1> DEFINE a == [r EXCEPT !.current_inferior_id = id,
                          !.current_thread_id   = None,
                          !.current_frame       = None]
           e == EnsureInferior(a, id)
           q == MarkInferiorSelected(r, id)
<1>1. a \in Runtime /\ SameSession(r, a) /\ a.current_inferior_id = id
  BY ZenonT(60) DEF Runtime, SameSession
<1>2. q = SynchronizeSelectedState(e)
  BY NoneIsNoId DEF MarkInferiorSelected
<1> HIDE DEF a
<1>3. /\ e \in Runtime /\ SameSession(a, e) /\ CountCoversTracked(e)
      /\ e.current_inferior_id = id /\ id \in Tracked(e)
  BY <1>1, EnsureInferiorSound
<1> HIDE DEF e, q
<1>4. /\ Sound(q) /\ SameSession(e, q)
      /\ q.inferior_states = e.inferior_states /\ q.inferior_count = e.inferior_count
  BY <1>2, <1>3, SynchronizeSound
<1> QED
  BY <1>1, <1>3, <1>4 DEF SameSession, CountCoversTracked, Tracked, q

\* update_inferior_inventory
LEMMA UpdateInferiorInventorySound ==
    ASSUME NEW r \in Runtime, NEW current \in Ids \cup {None}, NEW ids \in SUBSET Ids
    PROVE  LET q == UpdateInferiorInventory(r, current, ids) IN
           Sound(q) /\ SameSession(r, q) /\ CountCoversTracked(q)
<1> DEFINE f == [i \in ids |-> IF i \in Tracked(r) THEN r.inferior_states[i] ELSE NewInferior]
           c == IF current = None THEN MinOrNone(ids) ELSE current
           b == [[r EXCEPT !.inferior_states = f] EXCEPT
                     !.current_inferior_id = c, !.inferior_count = Cardinality(ids)]
           e == IF b.current_inferior_id = None THEN b
                ELSE EnsureInferior(b, b.current_inferior_id)
           q == UpdateInferiorInventory(r, current, ids)
<1>1. f \in InferiorStates
  BY RuntimeFields, NewInferiorType, StatesType
<1>2. c \in Ids \cup {None}
  BY MinOrNoneType
<1>3. Cardinality(ids) \in Nat
  BY CountType
<1>4. q = SynchronizeSelectedState(e)
  BY DEF UpdateInferiorInventory
<1> HIDE DEF c, q
<1>5. b \in Runtime
  BY ZenonT(60), <1>1, <1>2, <1>3 DEF Runtime
<1>6. /\ SameSession(r, b) /\ b.current_inferior_id = c
      /\ b.inferior_states = f /\ b.inferior_count = Cardinality(ids)
  BY DEF Runtime, SameSession
<1>7. CountCoversTracked(b)
  <2>1. Tracked(b) = ids
    BY <1>6 DEF Tracked
  <2> QED
    BY <1>3, <1>6, <2>1 DEF CountCoversTracked
<1> HIDE DEF b, f
<1>8. /\ e \in Runtime /\ SameSession(r, e) /\ CountCoversTracked(e)
      /\ e.current_inferior_id \in Tracked(e) \cup {None}
  <2>1. CASE c = None
    BY <1>5, <1>6, <1>7, <2>1
  <2>2. CASE c # None
    <3>1. c \in Ids /\ e = EnsureInferior(b, c)
      BY <1>2, <1>6, <2>2
    <3> HIDE DEF e
    <3>2. /\ e \in Runtime /\ SameSession(b, e) /\ CountCoversTracked(e)
          /\ e.current_inferior_id = c /\ c \in Tracked(e)
      BY <1>5, <1>6, <3>1, EnsureInferiorSound
    <3> QED
      BY <1>6, <3>2 DEF SameSession
  <2> QED
    BY <2>1, <2>2
<1> HIDE DEF e
<1>9. /\ Sound(q) /\ SameSession(e, q)
      /\ q.inferior_states = e.inferior_states /\ q.inferior_count = e.inferior_count
  BY <1>4, <1>8, SynchronizeSound
<1> QED
  BY <1>8, <1>9 DEF SameSession, CountCoversTracked, Tracked, q

\* remove_inferior
LEMMA RemoveInferiorSound ==
    ASSUME NEW r \in Runtime, NEW id \in Ids, SelectedMirrorsTracked(r)
    PROVE  LET q == RemoveInferior(r, id) IN
           /\ Sound(q) /\ SameSession(r, q)
           /\ CountCoversTracked(r) => CountCoversTracked(q)
<1> DEFINE rest == Tracked(r) \ {id}
           f == [i \in rest |-> r.inferior_states[i]]
           a == [r EXCEPT !.inferior_states = f, !.inferior_count = Cardinality(rest)]
           b == IF a.current_inferior_id = id
                THEN [a EXCEPT !.current_inferior_id = MinOrNone(rest),
                               !.current_thread_id   = None,
                               !.current_frame       = None]
                ELSE a
           q == RemoveInferior(r, id)
<1>1. CASE id \notin Tracked(r)
  <2>1. q = r
    BY <1>1 DEF RemoveInferior
  <2> QED
    BY <2>1 DEF Sound, SameSession
<1>2. CASE id \in Tracked(r)
  <2>1. q = SynchronizeSelectedState(b)
    BY <1>2 DEF RemoveInferior
  <2>2. /\ rest \in SUBSET Ids
        /\ Cardinality(rest) \in Nat
        /\ f \in InferiorStates
    BY RuntimeFields, CountType, StatesType
  <2>3. MinOrNone(rest) \in rest \cup {None}
    BY <2>2, MinOrNoneType
  <2>4. /\ a \in Runtime /\ SameSession(r, a)
        /\ a.inferior_states = f /\ a.inferior_count = Cardinality(rest)
        /\ a.current_inferior_id = r.current_inferior_id
    <3> HIDE DEF f, rest
    <3>1. a \in Runtime
      BY <2>2 DEF Runtime
    <3>2. /\ SameSession(r, a)
          /\ a.inferior_states = f /\ a.inferior_count = Cardinality(rest)
          /\ a.current_inferior_id = r.current_inferior_id
      BY DEF Runtime, SameSession
    <3> QED
      BY <3>1, <3>2
  <2>5. r.current_inferior_id \in Tracked(r) \cup {None}
    BY DEF SelectedMirrorsTracked
  <2> HIDE DEF a, q
  <2>6. /\ b \in Runtime /\ SameSession(a, b)
        /\ b.inferior_states = f /\ b.inferior_count = Cardinality(rest)
        /\ b.current_inferior_id \in rest \cup {None}
    <3>1. CASE a.current_inferior_id = id
      <4>1. b = [a EXCEPT !.current_inferior_id = MinOrNone(rest),
                          !.current_thread_id   = None,
                          !.current_frame       = None]
        BY <3>1
      <4>2. MinOrNone(rest) \in Ids \cup {None}
        BY <2>2, <2>3
      <4> HIDE DEF b, f, rest
      <4>3. b \in Runtime
        BY ZenonT(60), <2>4, <4>1, <4>2 DEF Runtime
      <4>4. /\ SameSession(a, b)
            /\ b.inferior_states = a.inferior_states
            /\ b.inferior_count = a.inferior_count
            /\ b.current_inferior_id = MinOrNone(rest)
        BY <2>4, <4>1 DEF Runtime, SameSession
      <4> QED
        BY <2>3, <2>4, <4>3, <4>4
    <3>2. CASE a.current_inferior_id # id
      BY <2>4, <2>5, <3>2 DEF SameSession
    <3> QED
      BY <3>1, <3>2
  <2> HIDE DEF b
  <2>7. Tracked(b) = rest
    BY <2>6 DEF Tracked
  <2>8. CountCoversTracked(b)
    BY <2>2, <2>6, <2>7 DEF CountCoversTracked
  <2> HIDE DEF f, rest
  <2>9. /\ Sound(q) /\ SameSession(b, q)
        /\ q.inferior_states = b.inferior_states /\ q.inferior_count = b.inferior_count
    BY <2>1, <2>6, <2>7, SynchronizeSound
  <2> QED
    BY <2>4, <2>6, <2>8, <2>9 DEF SameSession, CountCoversTracked, Tracked, q
<1> QED
  BY <1>1, <1>2

\* _update_inferior_state: whichever inferior the update is about, selected or
\* not, the top level goes on showing the selected one.
LEMMA UpdateInferiorStateSound ==
    ASSUME NEW r \in Runtime, NEW id \in Ids \cup {None}, NEW s \in InferiorRuntimeState,
           SelectedMirrorsTracked(r)
    PROVE  LET q == UpdateInferiorState(r, id, s) IN
           /\ Sound(q) /\ SameSession(r, q) /\ CountCoversTracked(q)
           /\ q.current_inferior_id # None
<1> DEFINE a      == ResolveTarget(r, id)
           target == IF id # None THEN id ELSE a.current_inferior_id
           t      == Track(a, target, s)
           b      == BumpCount(t)
           q      == UpdateInferiorState(r, id, s)
<1>1. /\ a \in Runtime /\ SameSession(r, a)
      /\ a.inferior_states = r.inferior_states
      /\ a.execution_state = r.execution_state
      /\ a.stop_reason = r.stop_reason /\ a.exit_code = r.exit_code
      /\ a.current_inferior_id \in Ids
      /\ r.current_inferior_id # None => a.current_inferior_id = r.current_inferior_id
      /\ r.current_inferior_id = None /\ id # None => a.current_inferior_id = id
  <2>1. CASE r.current_inferior_id # None
    <3>1. a = r
      BY <2>1 DEF ResolveTarget
    <3> QED
      BY <2>1, <3>1, RuntimeFields DEF SameSession
  <2>2. CASE r.current_inferior_id = None
    <3> DEFINE d == IF id # None THEN id ELSE 1
    <3>1. a = [r EXCEPT !.current_inferior_id = d]
      BY <2>2 DEF ResolveTarget
    <3>2. d \in Ids /\ (id # None => d = id)
      BY NoneIsNoId
    <3> HIDE DEF a, d
    <3>3. a \in Runtime
      BY <3>1, <3>2 DEF Runtime
    <3>4. /\ SameSession(r, a)
          /\ a.inferior_states = r.inferior_states
          /\ a.execution_state = r.execution_state
          /\ a.stop_reason = r.stop_reason /\ a.exit_code = r.exit_code
          /\ a.current_inferior_id = d
      BY <3>1 DEF Runtime, SameSession
    <3> QED
      BY <2>2, <3>2, <3>3, <3>4 DEF a
  <2> QED
    BY <2>1, <2>2
<1>2. q = IF target = b.current_inferior_id THEN Mirror(b, s) ELSE b
  BY DEF UpdateInferiorState
<1> HIDE DEF a, q
<1>3. target \in Ids
  BY <1>1
<1>4. target # a.current_inferior_id => r.current_inferior_id # None
  BY <1>1
<1> HIDE DEF target
<1>5. /\ t \in Runtime /\ Tracked(t) = Tracked(a) \cup {target}
      /\ t.inferior_states[target] = s
      /\ \A i \in Tracked(a) \ {target} : t.inferior_states[i] = a.inferior_states[i]
  BY <1>1, <1>3, TrackType
<1>6. /\ SameSession(a, t) /\ t.current_inferior_id = a.current_inferior_id
      /\ t.execution_state = a.execution_state
      /\ t.stop_reason = a.stop_reason /\ t.exit_code = a.exit_code
  BY <1>1 DEF Track, Runtime, SameSession
<1> HIDE DEF t
<1>7. /\ b \in Runtime /\ SameSession(t, b) /\ CountCoversTracked(b)
      /\ b.current_inferior_id = t.current_inferior_id
      /\ b.inferior_states = t.inferior_states
      /\ b.execution_state = t.execution_state
      /\ b.stop_reason = t.stop_reason /\ b.exit_code = t.exit_code
  BY <1>5, BumpCountSound
<1> HIDE DEF b
<1>8. b.current_inferior_id \in Ids /\ SameSession(r, b)
  BY <1>1, <1>6, <1>7 DEF SameSession
<1>9. CASE target = b.current_inferior_id
  <2>1. /\ q \in Runtime /\ SameSession(b, q)
        /\ q.current_inferior_id = target
        /\ q.inferior_states = b.inferior_states /\ q.inferior_count = b.inferior_count
        /\ InState(q.execution_state, q.stop_reason, q.exit_code) = s
    BY <1>2, <1>7, <1>9, MirrorType
  <2>2. SelectedMirrorsTracked(q)
    BY <1>3, <1>5, <1>7, <2>1, NoneIsNoId DEF SelectedMirrorsTracked, Tracked
  <2> QED
    BY <1>3, <1>7, <1>8, <2>1, <2>2, NoneIsNoId
    DEF Sound, SameSession, CountCoversTracked, Tracked, q
<1>10. CASE target # b.current_inferior_id
  <2>1. q = b
    BY <1>2, <1>10
  <2>2. /\ b.current_inferior_id = r.current_inferior_id
        /\ r.current_inferior_id # None
    BY <1>1, <1>4, <1>6, <1>7, <1>10
  <2>3. /\ r.current_inferior_id \in Tracked(r)
        /\ InState(r.execution_state, r.stop_reason, r.exit_code)
              = r.inferior_states[r.current_inferior_id]
    BY <2>2 DEF SelectedMirrorsTracked
  <2>4. /\ b.current_inferior_id \in Tracked(b)
        /\ b.inferior_states[b.current_inferior_id] = r.inferior_states[r.current_inferior_id]
    BY <1>1, <1>5, <1>7, <1>10, <2>2, <2>3 DEF Tracked
  <2>5. SelectedMirrorsTracked(b)
    BY <1>1, <1>6, <1>7, <2>2, <2>3, <2>4 DEF SelectedMirrorsTracked
  <2> QED
    BY <1>7, <1>8, <2>1, <2>2, <2>5 DEF Sound, q
<1> QED
  BY <1>9, <1>10

\* The four marks built on it.
LEMMA MarksSound ==
    ASSUME NEW r \in Runtime, NEW id \in Ids \cup {None}, NEW reason \in Reasons \cup {None},
           NEW code \in ExitCodes \cup {None}, SelectedMirrorsTracked(r)
    PROVE  \A q \in {MarkInferiorNotStarted(r, id), MarkInferiorRunning(r, id),
                     MarkInferiorPaused(r, id, reason), MarkInferiorExited(r, id, reason, code)} :
              /\ Sound(q) /\ SameSession(r, q) /\ CountCoversTracked(q)
              /\ q.current_inferior_id # None
<1>1. \A x \in ExecutionState, y \in Reasons \cup {None}, z \in ExitCodes \cup {None} :
         InState(x, y, z) \in InferiorRuntimeState
  BY DEF InState, InferiorRuntimeState
<1>2. {"not_started", "running", "paused", "exited"} \subseteq ExecutionState
  BY DEF ExecutionState
<1> QED
  BY <1>1, <1>2, UpdateInferiorStateSound
  DEF MarkInferiorNotStarted, MarkInferiorRunning, MarkInferiorPaused, MarkInferiorExited

\* A runtime without a target: what _reset_transient_fields leaves.
Blank(r) ==
    /\ ~r.is_running
    /\ r.current_inferior_id = None /\ r.inferior_count = None
    /\ Tracked(r) = {}
    /\ r.execution_state = "unknown" /\ r.attached_pid = None

\* The state of the stop history, for any runtime.
Recent(r) ==
    /\ Len(r.stop_history) <= StopHistoryLimit
    /\ r.last_stop_event = None => r.stop_history = << >>
    /\ (r.last_stop_event # None /\ StopHistoryLimit > 0) =>
            /\ r.stop_history # << >>
            /\ r.stop_history[Len(r.stop_history)] = r.last_stop_event

\* _reset_transient_fields blanks a runtime and keeps its history.
LEMMA ResetTransientSound ==
    ASSUME NEW r \in Runtime
    PROVE  LET q == ResetTransient(r) IN
           /\ Sound(q) /\ Blank(q)
           /\ q.state = r.state /\ q.controller = r.controller
           /\ q.last_stop_event = r.last_stop_event /\ q.stop_history = r.stop_history
<1> DEFINE q == ResetTransient(r)
<1>1. q \in Runtime
  BY ZenonT(60), NoInferiorsType DEF ResetTransient, Runtime, ExecutionState
<1>2. /\ q.state = r.state /\ q.controller = r.controller
      /\ q.last_stop_event = r.last_stop_event /\ q.stop_history = r.stop_history
  BY DEF ResetTransient, Runtime
<1>3. /\ q.is_running = FALSE /\ q.attached_pid = None
      /\ q.execution_state = "unknown" /\ q.stop_reason = None /\ q.exit_code = None
      /\ q.current_inferior_id = None /\ q.inferior_count = None
      /\ q.inferior_states = NoInferiors
  BY DEF ResetTransient, Runtime
<1> HIDE DEF q
<1>4. SelectedMirrorsTracked(q)
  BY <1>3 DEF SelectedMirrorsTracked, NewInferior, InState
<1>5. Blank(q)
  BY <1>3, NoInferiorsType DEF Blank, Tracked
<1> QED
  BY <1>1, <1>2, <1>4, <1>5 DEF Sound, q

\* mark_ready selects inferior 1 if none is, and shows it.
LEMMA MarkReadySound ==
    ASSUME NEW r \in Runtime
    PROVE  LET q == MarkReady(r) IN
           /\ Sound(q) /\ q.state = "ready" /\ q.controller = r.controller
           /\ q.last_stop_event = r.last_stop_event /\ q.stop_history = r.stop_history
<1> DEFINE c == IF r.current_inferior_id = None THEN 1 ELSE r.current_inferior_id
           n == IF r.inferior_count = None THEN 1 ELSE r.inferior_count
           a == [r EXCEPT !.state = "ready", !.is_running = TRUE,
                          !.current_inferior_id = c, !.inferior_count = n]
           i == InState(a.execution_state, a.stop_reason, a.exit_code)
           b == IF a.current_inferior_id \in Tracked(a) THEN a
                ELSE Track(a, a.current_inferior_id, i)
           y == SynchronizeSelectedState(b)
           m == IF y.follow_fork_mode = None THEN "parent" ELSE y.follow_fork_mode
           d == IF y.detach_on_fork = None THEN TRUE ELSE y.detach_on_fork
           q == MarkReady(r)
<1>1. q = [y EXCEPT !.follow_fork_mode = m, !.detach_on_fork = d]
  BY DEF MarkReady, InState
<1>2. c \in Ids /\ n \in Nat
  BY RuntimeFields, NoneIsNoId
<1> HIDE DEF c, n
<1>3. a \in Runtime
  BY <1>2 DEF Runtime, SessionState
<1>4. /\ a.state = "ready" /\ a.current_inferior_id \in Ids /\ a.controller = r.controller
       /\ a.last_stop_event = r.last_stop_event /\ a.stop_history = r.stop_history
  BY <1>2 DEF Runtime
<1> HIDE DEF a
<1>5. i \in InferiorRuntimeState
  BY <1>3, RuntimeFields
<1> HIDE DEF i
<1>6. b \in Runtime
  BY <1>3, <1>4, <1>5, TrackType
<1>7. /\ b.state = "ready" /\ b.controller = r.controller
      /\ b.last_stop_event = r.last_stop_event /\ b.stop_history = r.stop_history
  BY <1>3, <1>4 DEF Track, Runtime
<1> HIDE DEF b, q
<1>8. /\ Sound(y) /\ y.state = "ready" /\ y.controller = r.controller
      /\ y.last_stop_event = r.last_stop_event /\ y.stop_history = r.stop_history
  BY <1>6, <1>7, SynchronizeSound DEF SameSession
<1> HIDE DEF y
<1>9. q \in Runtime
  <2>1. y \in Runtime
    BY <1>8 DEF Sound
  <2>2. m \in {"parent", "child", None} /\ d \in BOOLEAN \cup {None}
    BY <2>1 DEF Runtime
  <2> HIDE DEF m, d
  <2> QED
    BY ZenonT(60), <1>1, <2>1, <2>2 DEF Runtime
<1>10. /\ q.state = y.state /\ q.controller = y.controller
      /\ q.last_stop_event = y.last_stop_event
      /\ q.stop_history = y.stop_history
      /\ q.current_inferior_id = y.current_inferior_id
      /\ q.inferior_states = y.inferior_states
      /\ q.execution_state = y.execution_state
      /\ q.stop_reason = y.stop_reason /\ q.exit_code = y.exit_code
  BY <1>1, <1>8 DEF Sound, Runtime
<1>11. SelectedMirrorsTracked(q)
  BY <1>8, <1>10 DEF Sound, SelectedMirrorsTracked, Tracked
<1> QED
  BY <1>8, <1>9, <1>10, <1>11 DEF Sound, q

\* _trim_history keeps at most `limit' items, and the newest of them.
LEMMA TrimHistoryNewest ==
    ASSUME NEW h \in Seq(StopEvents), NEW e \in StopEvents
    PROVE  LET t == TrimHistory(Append(h, e), StopHistoryLimit) IN
           /\ t \in Seq(StopEvents)
           /\ Len(t) = IF Len(h) < StopHistoryLimit THEN Len(h) + 1 ELSE StopHistoryLimit
           /\ StopHistoryLimit > 0 => t # << >> /\ t[Len(t)] = e
<1> DEFINE u == Append(h, e)
           m == IF Len(u) > StopHistoryLimit THEN Len(u) - StopHistoryLimit ELSE 0
           t == SubSeq(u, 1 + m, Len(u))
<1>1. u \in Seq(StopEvents) /\ Len(u) = Len(h) + 1 /\ Len(h) \in Nat /\ u[Len(u)] = e
  OBVIOUS
<1>2. /\ m \in Nat /\ m <= Len(u)
      /\ Len(u) - m = IF Len(h) < StopHistoryLimit THEN Len(h) + 1 ELSE StopHistoryLimit
      /\ StopHistoryLimit > 0 => m < Len(u)
  <2> HIDE DEF u
  <2>1. /\ Len(h) < StopHistoryLimit => m = 0
        /\ ~(Len(h) < StopHistoryLimit) => m = Len(u) - StopHistoryLimit
    BY <1>1, LimitAssumption
  <2> HIDE DEF m
  <2>2. CASE Len(h) < StopHistoryLimit
    BY <1>1, <2>1, <2>2, LimitAssumption
  <2>3. CASE ~(Len(h) < StopHistoryLimit)
    BY <1>1, <2>1, <2>3, LimitAssumption
  <2> QED
    BY <2>2, <2>3
<1> HIDE DEF u, m
<1>3. t \in Seq(StopEvents) /\ Len(t) = Len(u) - m
  BY <1>1, <1>2
<1>4. m < Len(u) => t[Len(u) - m] = u[Len(u)]
  BY <1>1, <1>2
<1>5. m < Len(u) => t # << >>
  <2> HIDE DEF t
  <2>1. Len(<< >>) = 0
    OBVIOUS
  <2> QED
    BY <1>1, <1>2, <1>3, <2>1
<1> QED
  BY <1>1, <1>2, <1>3, <1>4, <1>5 DEF TrimHistory, u, m

\* The fields that describe the inferiors.
SameInferiors(r, q) ==
    /\ q.current_inferior_id = r.current_inferior_id
    /\ q.inferior_states = r.inferior_states /\ q.inferior_count = r.inferior_count
    /\ q.execution_state = r.execution_state
    /\ q.stop_reason = r.stop_reason /\ q.exit_code = r.exit_code

\* An update of other fields keeps what is shown about inferiors.
LEMMA SameInferiorsSound ==
    ASSUME NEW r, NEW q \in Runtime, Sound(r), SameInferiors(r, q)
    PROVE  Sound(q) /\ (CountCoversTracked(r) => CountCoversTracked(q))
BY DEF Sound, SameInferiors, SelectedMirrorsTracked, CountCoversTracked, Tracked

\* record_stop_event touches the history only, and keeps it recent.
LEMMA RecordStopEventSound ==
    ASSUME NEW r, Sound(r), NEW event \in StopEvents
    PROVE  LET q == RecordStopEvent(r, event) IN
           /\ Sound(q) /\ Recent(q) /\ SameInferiors(r, q)
           /\ q.state = r.state /\ q.controller = r.controller /\ q.is_running = r.is_running
           /\ q.last_stop_event = event
           /\ Len(q.stop_history) = IF Len(r.stop_history) < StopHistoryLimit
                                   THEN Len(r.stop_history) + 1 ELSE StopHistoryLimit
<1> DEFINE h == TrimHistory(Append(r.stop_history, event), StopHistoryLimit)
           q == RecordStopEvent(r, event)
<1>1. r \in Runtime /\ r.stop_history \in Seq(StopEvents)
  BY DEF Sound, Runtime
<1>2. /\ h \in Seq(StopEvents)
      /\ Len(h) = IF Len(r.stop_history) < StopHistoryLimit
                  THEN Len(r.stop_history) + 1 ELSE StopHistoryLimit
      /\ StopHistoryLimit > 0 => h # << >> /\ h[Len(h)] = event
  BY <1>1, TrimHistoryNewest
<1>3. q = [r EXCEPT !.last_stop_event = event, !.stop_history = h]
  BY DEF RecordStopEvent
<1> HIDE DEF h, q
<1>4. q \in Runtime
  BY <1>1, <1>2, <1>3 DEF Runtime
<1>5. /\ q.last_stop_event = event /\ q.stop_history = h
      /\ SameInferiors(r, q) /\ q.state = r.state /\ q.controller = r.controller
      /\ q.is_running = r.is_running
  BY <1>1, <1>3 DEF Runtime, SameInferiors
<1>6. event # None
  BY NoneAssumption
<1>7. Recent(q)
  <2>1. Len(h) <= StopHistoryLimit
    BY <1>1, <1>2, LimitAssumption
  <2> QED
    BY <1>2, <1>5, <1>6, <2>1 DEF Recent
<1>8. Sound(q)
  BY <1>4, <1>5, SameInferiorsSound
<1> QED
  BY <1>2, <1>5, <1>7, <1>8 DEF q

\* mark_failed and mark_stopped end a session whose transport is closed: it is
\* blank, and keeps only its history.
LEMMA EndedSound ==
    ASSUME NEW r \in Runtime
    PROVE  \A q \in {MarkFailed(r), MarkStopped(r)} :
              /\ Sound(q) /\ Blank(q) /\ q.controller = r.controller
              /\ q.last_stop_event = r.last_stop_event /\ q.stop_history = r.stop_history
              /\ q.state = IF q = MarkFailed(r) THEN "failed" ELSE "stopped"
<1> DEFINE z == ResetTransient(r)
           E(s) == [z EXCEPT !.state = s]
<1>1. /\ Sound(z) /\ Blank(z) /\ z.controller = r.controller
      /\ z.last_stop_event = r.last_stop_event /\ z.stop_history = r.stop_history
  BY ResetTransientSound
<1>2. z \in Runtime
  BY <1>1 DEF Sound
<1>3. MarkFailed(r) = E("failed") /\ MarkStopped(r) = E("stopped")
  BY DEF MarkFailed, MarkStopped
<1> HIDE DEF z
<1>4. ASSUME NEW s \in SessionState, NEW q, q = E(s)
      PROVE  /\ Sound(q) /\ Blank(q) /\ q.state = s /\ q.controller = z.controller
             /\ q.last_stop_event = z.last_stop_event /\ q.stop_history = z.stop_history
  <2>1. q \in Runtime
    BY <1>2, <1>4 DEF Runtime
  <2>2. /\ SameInferiors(z, q) /\ q.state = s /\ q.controller = z.controller
        /\ q.is_running = z.is_running /\ q.attached_pid = z.attached_pid
        /\ q.last_stop_event = z.last_stop_event /\ q.stop_history = z.stop_history
    BY <1>2, <1>4 DEF Runtime, SameInferiors
  <2>3. Sound(q)
    BY <1>1, <2>1, <2>2, SameInferiorsSound
  <2>4. Blank(q)
    BY <1>1, <2>2 DEF Blank, Tracked, SameInferiors
  <2> QED
    BY <2>2, <2>3, <2>4
<1>5. "failed" \in SessionState /\ "stopped" \in SessionState
  BY DEF SessionState
<1> HIDE DEF E
<1> QED
  BY <1>1, <1>3, <1>4, <1>5

\* Opening or closing the transport changes nothing else.
LEMMA ControllerSet ==
    ASSUME NEW r, Sound(r), NEW b \in BOOLEAN
    PROVE  LET q == [r EXCEPT !.controller = b] IN
           /\ Sound(q) /\ q.state = r.state /\ q.controller = b
           /\ q.last_stop_event = r.last_stop_event /\ q.stop_history = r.stop_history
<1> DEFINE q == [r EXCEPT !.controller = b]
<1>1. r \in Runtime
  BY DEF Sound
<1>2. q \in Runtime
  BY <1>1 DEF Runtime
<1>3. /\ SameInferiors(r, q) /\ q.state = r.state /\ q.controller = b
      /\ q.last_stop_event = r.last_stop_event /\ q.stop_history = r.stop_history
  BY <1>1 DEF Runtime, SameInferiors
<1> HIDE DEF q
<1> QED
  BY <1>2, <1>3, SameInferiorsSound DEF q

\* A new SessionRuntime has nothing to show.
LEMMA InitialSound ==
    /\ Sound(InitialRuntime) /\ Recent(InitialRuntime)
    /\ ~InitialRuntime.controller /\ InitialRuntime.state = "created"
    /\ InitialRuntime.last_stop_event = None
<1>1. InitialRuntime \in Runtime
  BY NoInferiorsType DEF InitialRuntime, Runtime, ExecutionState, SessionState
<1>2. SelectedMirrorsTracked(InitialRuntime)
  BY DEF InitialRuntime, SelectedMirrorsTracked, InState, NewInferior
<1>3. Recent(InitialRuntime)
  BY LimitAssumption DEF InitialRuntime, Recent
<1> QED
  BY <1>1, <1>2, <1>3 DEF Sound, InitialRuntime

\* begin_startup blanks a runtime and forgets its stops.
LEMMA BeginStartupSound ==
    ASSUME NEW r \in Runtime
    PROVE  LET q == BeginStartup(r) IN
           /\ Sound(q) /\ Recent(q) /\ q.state = "starting" /\ q.controller = r.controller
           /\ q.last_stop_event = None /\ CountCoversTracked(q)
<1> DEFINE z == ResetTransient(r)
           q == BeginStartup(r)
<1>1. Sound(z) /\ Blank(z) /\ z.controller = r.controller
  BY ResetTransientSound
<1>2. q = [z EXCEPT !.state = "starting", !.last_stop_event = None, !.stop_history = << >>]
  BY DEF BeginStartup
<1>3. z \in Runtime
  BY <1>1 DEF Sound
<1> HIDE DEF z, q
<1>4. q \in Runtime
  <2>1. "starting" \in SessionState /\ << >> \in Seq(StopEvents)
    BY DEF SessionState
  <2> QED
    BY ZenonT(60), <1>2, <1>3, <2>1 DEF Runtime
<1>5. /\ SameInferiors(z, q) /\ q.state = "starting" /\ q.controller = z.controller
      /\ q.last_stop_event = None /\ q.stop_history = << >>
  BY <1>2, <1>3 DEF Runtime, SameInferiors
<1>6. Sound(q) /\ CountCoversTracked(q)
  BY <1>1, <1>4, <1>5, SameInferiorsSound DEF Blank, CountCoversTracked
<1>7. Recent(q)
  BY <1>5, LimitAssumption DEF Recent
<1> QED
  BY <1>1, <1>5, <1>6, <1>7 DEF q, z

=============================================================================
