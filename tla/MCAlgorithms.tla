---------------------------- MODULE MCAlgorithms ----------------------------
(***************************************************************************)
(* Small inputs for the pure computations.                                  *)
(***************************************************************************)
EXTENDS Algorithms

(***************************************************************************)
(* Schemas as the request models emit them: objects are closed, the         *)
(* discriminator is a constant or an enum, an optional object is a union    *)
(* with null and has a description.                                         *)
(***************************************************************************)

Str(enum) == [Schema EXCEPT !.type = "string", !.enum = enum]
Obj(props, required) ==
    [Schema EXCEPT !.type = "object", !.props = props, !.required = required, !.closed = TRUE]
Null == [Schema EXCEPT !.type = "null"]
Optional(s) == [Schema EXCEPT !.alts = <<s, Null>>, !.described = TRUE]
Ref(n) == [Schema EXCEPT !.ref = n]

Shapes == {{}, {"x"}, {"y"}, {"x", "y"}}

Plain == {Obj([n \in d |-> IF n = "x" THEN Str(e) ELSE Str({})], r) :
            d \in Shapes, r \in Shapes, e \in {{}, {"r"}, {"w"}}}

Queries == {q \in Plain : q.required \subseteq DOMAIN q.props}

\* A union inside an alternative: its "kind" tells x from y.
Kinds ==
    [Schema EXCEPT !.by = "kind",
        !.alts = << Obj([n \in {"kind", "x"} |->
                           IF n = "kind" THEN [Str({}) EXCEPT !.const = "r"] ELSE Str({})],
                        {"kind", "x"}),
                    Obj([n \in {"kind", "y"} |->
                           IF n = "kind" THEN [Str({}) EXCEPT !.const = "w"] ELSE Str({})],
                        {"kind"}) >>]

\* The heterogeneous unions of the models: list[int | str] (register_numbers), list[str] | str
\* | None (args), and an object or its shorthand text (memory ranges, steps).
Alternatives(alts) == [Schema EXCEPT !.alts = alts]
List(s) == [Schema EXCEPT !.type = "array", !.items = s]
Heterogeneous ==
    {Obj([n \in {"x"} |-> x], r) :
        x \in {List(Alternatives(<<[Schema EXCEPT !.type = "integer"], Str({})>>)),
               Alternatives(<<List(Str({})), Str({}), Null>>)},
        r \in {{}, {"x"}}}
      \cup {Alternatives(<<Obj([n \in {"x"} |-> Str({})], {"x"}), Str({})>>)}

Nested == Queries \cup Heterogeneous \cup {Optional(Obj([n \in {"x"} |-> Str({})], {})), Kinds, Ref("Q")}

Action(values) ==
    IF values = {"a"} THEN [Str({}) EXCEPT !.const = "a"] ELSE Str(values)

Variant(values, hasQuery, q, needsQuery) ==
    IF hasQuery
    THEN Obj([n \in {"action", "query"} |-> IF n = "action" THEN Action(values) ELSE q],
             {"action"} \cup (IF needsQuery THEN {"query"} ELSE {}))
    ELSE Obj([n \in {"action"} |-> Action(values)], {"action"})

\* A query may be left out only if its default, the empty object, is one.
VariantsFor(values, queries) ==
    {Variant(values, TRUE, q, TRUE) : q \in queries}
      \cup {Variant(values, TRUE, q, FALSE) : q \in {p \in queries : p.closed /\ p.required = {}}}
      \cup {Variant(values, FALSE, Null, FALSE)}

Union(alts) == [Schema EXCEPT !.by = "action", !.alts = alts]

FewQueries == {Kinds} \cup {q \in Queries : \A n \in DOMAIN q.props : q.props[n].enum = {}}

QDef == [n \in {"Q"} |-> Obj([k \in {"x"} |-> Str({})], {"x"})]

\* Definitions that may contain each other and themselves.
DefNames == {"D", "E"}
DefTargets == {Str({}), Ref("D"), Ref("E"), Optional(Ref("D"))}
DefObjects == {Obj([n \in {"x", "y"} |-> IF n = "x" THEN s ELSE Str({})], {}) : s \in DefTargets}
                \cup {Obj([n \in {"x", "y"} |-> Ref(IF n = "x" THEN "D" ELSE "E")], {})}

MCSchemaCases ==
    {[root |-> Union(<<v, w>>), defs |-> QDef] :
        v \in VariantsFor({"a"}, Nested), w \in VariantsFor({"b", "c"}, Nested)}
      \cup
    {[root |-> Union(<<u, v, w>>), defs |-> QDef] :
        u \in VariantsFor({"a"}, FewQueries), v \in VariantsFor({"b"}, FewQueries),
        w \in VariantsFor({"c"}, FewQueries)}
      \cup
    {[root |-> Ref(n), defs |-> [k \in DefNames |-> IF k = "D" THEN d ELSE e]] :
        n \in DefNames, d \in DefObjects, e \in DefObjects}

(***************************************************************************)
(* Steps, chunks and listings.                                              *)
(***************************************************************************)

Events ==
    {[option |-> "step", tool |-> t] : t \in {"inspect", "session_query", "session_manage", "batch"}}
      \cup {[option |-> "label", label |-> "first"]}
      \cup {[option |-> "arg", path |-> p, value |-> v] :
              p \in {<<"query">>, <<"query", "x">>}, v \in {"1", "2"}}
      \cup {[option |-> "arg", path |-> <<"action">>, value |-> "list"],
            [option |-> "arg", path |-> <<"session_id">>, value |-> "1"]}

MCEventLists == {<<e>> : e \in Events} \cup [1..2 -> Events] \cup {<<[option |-> "step", tool |-> t]>> \o s : t \in StepTools, s \in [1..3 -> Events]}

Bytes == {"m", Newline}
Chunks == UNION {[1..n -> Bytes] : n \in 1..2}
MCChunkLists == UNION {[1..n -> Chunks] : n \in 0..3}

MCSourceCases ==
    {[length |-> l, ask |-> [range |-> r, line |-> n, before |-> b, after |-> a]] :
        l \in 0..4, r \in BOOLEAN, n \in 1..5, b \in 0..2, a \in 0..2}
      \cup {[length |-> 3, ask |-> [range |-> FALSE, line |-> NoLine, before |-> 0, after |-> 0]]}

RegisterNames == <<"rax", "xmm", "rip">>

MCRegisterCases ==
    {[names |-> RegisterNames, vectors |-> {"xmm"},
      ask |-> [numbers |-> n, names |-> m, vectors |-> v, max |-> l]] :
        n \in UNION {[1..k -> 0..2] : k \in 0..2},
        m \in UNION {[1..k -> {"rax", "xmm", "none"}] : k \in 0..2},
        v \in BOOLEAN, l \in {NoLimit, 1, 2}}

MCCodeCases ==
    {[code |-> SetToSortSeq(c, <), supportsA |-> b, limit |-> l] :
        c \in (SUBSET (0..4)) \ {{}}, b \in BOOLEAN, l \in 1..3}

MCMemoryCases ==
    {[count |-> n, readable |-> r, supportsBytes |-> b] :
        n \in 1..4, r \in SUBSET (0..4), b \in BOOLEAN}

=============================================================================
