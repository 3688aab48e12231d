----------------------------- MODULE Algorithms -----------------------------
(***************************************************************************)
(* The server's and the client's pure computations, one request each, and   *)
(* the reference definitions they are checked against.                      *)
(***************************************************************************)
EXTENDS SchemaNormalizer, StepInputs, Listings

CONSTANTS
    SchemaCases,    \* [root, defs] : schemas as the request models emit them
    EventLists,     \* sequences of step options
    ChunkLists,     \* sequences of chunks of the standard input
    SourceCases,    \* [length, ask]
    RegisterCases,  \* [names, vectors, ask]
    CodeCases,      \* [code, supportsA, limit]
    MemoryCases     \* [count, readable, supportsBytes]

VARIABLES
    asked,          \* the computation, as [what, input]
    answer          \* its result, None until it is there

vars == <<asked, answer>>

Inputs(what, inputs) == {[what |-> what, input |-> i] : i \in inputs}

Init ==
    /\ \/ asked \in Inputs("schema", SchemaCases)
       \/ asked \in Inputs("steps", EventLists)
       \/ asked \in Inputs("stdin", ChunkLists)
       \/ asked \in Inputs("source", SourceCases)
       \/ asked \in Inputs("registers", RegisterCases)
       \/ asked \in Inputs("code", CodeCases)
       \/ asked \in Inputs("memory", MemoryCases)
    /\ answer = None

Asks(what) == asked.what = what /\ answer = None /\ UNCHANGED asked

Publish ==
    /\ Asks("schema")
    /\ answer' = NormalizeInputSchema(asked.input.root, asked.input.defs)

ParseSteps == Asks("steps") /\ answer' = ParseStepInputs(asked.input)

ReadStdin == Asks("stdin") /\ answer' = Pump(asked.input)

ListSource == Asks("source") /\ answer' = SourceWindow(asked.input.length, asked.input.ask)

ListRegisters ==
    /\ Asks("registers")
    /\ answer' = GetRegisters(asked.input.names, asked.input.vectors, asked.input.ask)

ListCode ==
    /\ Asks("code")
    /\ answer' = Disassembly(asked.input.code, asked.input.supportsA, asked.input.limit)

ListMemory ==
    /\ Asks("memory")
    /\ answer' = ReadMemory(asked.input.count, asked.input.readable, asked.input.supportsBytes)

Next == Publish \/ ParseSteps \/ ReadStdin \/ ListSource \/ ListRegisters \/ ListCode \/ ListMemory

Spec == Init /\ [][Next]_vars

Answers(what) == asked.what = what /\ answer # None

(***************************************************************************)
(* Schemas.                                                                 *)
(***************************************************************************)

\* The request a client sends: an object whose "query", if there is one, is an object or a
\* text.  Field "x" of the query may also be a number or an array.
Value(type, scalar, fields, elements) ==
    [type |-> type, scalar |-> scalar, fields |-> fields, elements |-> elements]
Object(fields) == Value("object", "-", fields, {})
Text(t) == Value("string", t, NoProps, {})
Number == Value("integer", "1", NoProps, {})
Array(elements) == Value("array", "-", NoProps, elements)

Texts == {Text("r"), Text("w")}
Arrays == {Array(e) : e \in {{}, {Number}, {Text("r")}, {Number, Text("r")}}}

QueryValues ==
    {Text("r")} \cup {Object(f) : f \in UNION {
        {g \in [d -> Texts \cup {Number} \cup Arrays] : \A n \in d \ {"x"} : g[n] \in Texts} :
        d \in SUBSET {"kind", "x", "y"}}}

Requests ==
    {Object([n \in {"action"} |-> Text(a)]) : a \in {"a", "b", "c"}}
      \cup {Object([n \in {"action", "query"} |-> IF n = "action" THEN Text(a) ELSE q]) :
              a \in {"a", "b", "c"}, q \in QueryValues}

\* The alternatives of the root, with optional fields no longer null.
Variants(case) == [i \in DOMAIN case.root.alts |-> NormalizeNode(case.root.alts[i], case.defs, {})]

QueryFields(s) == IF "query" \in DOMAIN s.props THEN s.props["query"].props ELSE NoProps

\* The alternative of a heterogeneous union that the normaliser keeps: a union with null, or
\* one of objects, is taken as a whole, any other is cut to its first alternative.
RECURSIVE OnlyObjects(_, _)
OnlyObjects(defs, s) ==
    CASE s.ref # None    -> s.ref \in DOMAIN defs /\ OnlyObjects(defs, defs[s.ref])
      [] s.alts # <<>>   -> \A i \in DOMAIN s.alts : OnlyObjects(defs, s.alts[i])
      [] OTHER           -> s.type = "object"

RECURSIVE Primary(_, _)
Primary(defs, s) ==
    LET alts == SelectSeq([i \in DOMAIN s.alts |-> Primary(defs, s.alts[i])],
                          LAMBDA a : a.type # "null")
        whole == \A i \in DOMAIN alts : OnlyObjects(defs, alts[i])
    IN [s EXCEPT
          !.alts  = IF whole THEN alts ELSE <<alts[1]>>,
          !.props = [n \in DOMAIN @ |-> Primary(defs, @[n])],
          !.items = IF @ = None THEN None ELSE Primary(defs, @)]

\* The fields that two alternatives share have the same shape, up to the values of an enum.
SharedFieldsAgree(vs, same) ==
    \A i, j \in DOMAIN vs : \A n \in DOMAIN QueryFields(vs[i]) \cap DOMAIN QueryFields(vs[j]) :
        LET f == QueryFields(vs[i])[n]  g == QueryFields(vs[j])[n] IN
        IF same THEN f = g
        ELSE f.type = g.type /\ f.items = g.items /\ (f.enum = {}) = (g.enum = {})

\* The published schema of a request union accepts every request that one of the request
\* models accepts (_normalize_union, _merge_object_variants, _merge_property_schemas): what
\* only some alternatives require or forbid is relaxed, never kept for all.  It is not so for
\* a heterogeneous union such as list[int | str] or list[str] | str, of which only the first
\* alternative is published, so that the schema refuses requests the server accepts; nor for
\* null, which is dropped; nor for a field whose type, or being an enum, differs between the
\* alternatives, which keeps the shape of the first.
UnionAcceptsAll ==
    Answers("schema") /\ asked.input.root.alts # <<>> =>
        LET vs == Variants(asked.input)
            root == Primary(asked.input.defs, asked.input.root)
            defs == [n \in DOMAIN asked.input.defs |->
                       Primary(asked.input.defs, asked.input.defs[n])]
        IN SharedFieldsAgree(vs, FALSE) =>
            \A v \in Requests :
                Accepts(defs, root, v) => Accepts(answer.defs, answer.root, v)

\* A request obeys the notes: the ones on the schema and the ones on its properties.
Obeys(s, v) ==
    LET told(c) == v.fields[c.by].scalar \in c.values
        has(p) == p[1] \in DOMAIN v.fields
                    /\ (Len(p) = 2 => p[2] \in DOMAIN v.fields[p[1]].fields)
    IN /\ \A c \in s.notes : told(c) => \A p \in c.paths : has(p)
       /\ \A n \in DOMAIN v.fields : \A c \in s.props[n].notes :
             told(c) => \A m \in DOMAIN v.fields[n].fields : <<m>> \in c.paths

\* What the flattening drops, the notes tell (_conditional_requirements_note,
\* _document_accepted_fields): a request that the published schema accepts, that obeys the
\* notes for its discriminator value and that has no top-level field of another alternative is
\* accepted by the models.  Fields two alternatives share have the same shape.
NotesTellTheRest ==
    Answers("schema") /\ asked.input.root.alts # <<>> =>
        LET vs == Variants(asked.input)
            own(v, i) == v.fields["action"].scalar \in vs[i].props["action"].enum
        IN (SharedFieldsAgree(vs, TRUE) /\ \A i \in DOMAIN vs : "kind" \notin DOMAIN QueryFields(vs[i]))
             => \A v \in Requests :
                  /\ Accepts(answer.defs, answer.root, v)
                  /\ Obeys(answer.root, v)
                  /\ \E i \in DOMAIN vs : own(v, i) /\ DOMAIN v.fields \subseteq DOMAIN vs[i].props
                  => Accepts(asked.input.defs, asked.input.root, v)

\* A reference that is left in a published schema, because its definition contains itself, has
\* its definition there, and so do the references in the definitions (_resolve_ref, _prune_defs).
ReferencesResolve ==
    Answers("schema") =>
        RefNames(answer.root) \cup UNION {RefNames(answer.defs[n]) : n \in DOMAIN answer.defs}
          \subseteq DOMAIN answer.defs

\* A published schema (normalize_input_schema) accepts what the server accepts, up to the
\* alternatives UnionAcceptsAll names, and can be read on its own: its references lead
\* somewhere.
FlatAcceptsAll == UnionAcceptsAll /\ ReferencesResolve

(***************************************************************************)
(* Steps and messages.                                                      *)
(***************************************************************************)

\* The options that belong to the step which option k gives.
OptionsOf(events, k) ==
    {j \in DOMAIN events : j > k /\ \A i \in (k + 1)..j : events[i].option # "step"}

\* A step list the command line accepts is the one that was written (parse_step_inputs): one
\* step per --step, in order; each has the arguments given after it and before the next, also
\* those given before its label; a repeated argument keeps all its values in order.
StepsInOrder ==
    Answers("steps") /\ answer.ok =>
        LET events == asked.input
            starts == SetToSortSeq({k \in DOMAIN events : events[k].option = "step"}, <)
            given(k, p) == SetToSortSeq({j \in OptionsOf(events, starts[k]) :
                              events[j].option = "arg" /\ events[j].path = p}, <)
        IN /\ Len(answer.steps) = Len(starts)
           /\ \A k \in DOMAIN starts :
                LET step == answer.steps[k]
                    written == {events[j].path : j \in {i \in OptionsOf(events, starts[k]) :
                                                          events[i].option = "arg"}}
                IN /\ step.tool = events[starts[k]].tool
                   /\ DOMAIN step.args = written
                   /\ \A p \in written :
                        step.args[p] = [i \in DOMAIN given(k, p) |-> events[given(k, p)[i]].value]

\* A step list that is accepted stays in the session of its batch (StepContract): no step names
\* a session, stops one or nests another workflow; and no argument is both a value and a
\* mapping.
StepsStayInSession ==
    Answers("steps") /\ answer.ok =>
        \A i \in DOMAIN answer.steps :
            LET step == answer.steps[i] IN
            /\ step.tool \notin WorkflowTools \cup {SessionManage}
            /\ \A p \in DOMAIN step.args : p[1] # "session_id"
            /\ \A p, q \in DOMAIN step.args : IsPrefix(p, q) => p = q

\* The steps of a batch given on the command line (parse_step_inputs, StepContract) are the
\* ones that were written, and none reaches out of the batch's session.
StepsAsWritten == StepsInOrder /\ StepsStayInSession

\* The messages the server reads are the lines of its input, however the pipe cuts it
\* (DaemonStdinLines._pump): together they are the whole input, each ends at its only newline,
\* and only the last one may lack it.
LinesSurviveChunks ==
    Answers("stdin") =>
        /\ FlattenSeq(answer) = FlattenSeq(asked.input)
        /\ \A k \in DOMAIN answer :
             /\ answer[k] # <<>>
             /\ \A i \in DOMAIN answer[k] : answer[k][i] = Newline => i = Len(answer[k])
             /\ k < Len(answer) => Last(answer[k]) = Newline

(***************************************************************************)
(* Listings.                                                                *)
(***************************************************************************)

\* A source listing lies in its file and is never empty (_read_source_context); it has the line
\* that was asked for when the file has it, and there is one whenever the lines asked for and
\* the file have a line in common.
WindowIsInFile ==
    Answers("source") =>
        ShowsExactly(answer, LinesAsked(asked.input.length, asked.input.ask))

\* A register is listed at most once, however often it is asked for and by number or by name,
\* and the limit counts what is listed (get_registers): a vector register that is left out
\* never takes the place of another.
RegistersAsAsked ==
    Answers("registers") /\ answer.ok =>
        LET ask == asked.input.ask
            names == asked.input.names
            all == DOMAIN names
            asks(n) == \/ ask.numbers = <<>> /\ ask.names = <<>>
                       \/ n - 1 \in Range(ask.numbers)
                       \/ names[n] \in Range(ask.names)
            due == {n - 1 : n \in {m \in all : asks(m) /\ (ask.vectors \/ names[m] \notin asked.input.vectors)}}
        IN /\ IsInjective(answer.registers)
           /\ Range(answer.registers) \subseteq due
           /\ Len(answer.registers) = IF ask.max = NoLimit THEN Cardinality(due)
                                      ELSE Min({ask.max, Cardinality(due)})

\* An old GDB lists the instructions a new one does (_whole_function_address_range): the range
\* it is given has the last instruction in it.
SameListingOnOldGdb ==
    Answers("code") =>
        answer = Disassembly(asked.input.code, TRUE, asked.input.limit)

\* A read without a warning has every byte that was asked for, with either command; a read that
\* lacks one has a warning (read_memory, _read_memory_warnings).
ShortReadIsTold == Answers("memory") => TellsShort(answer, asked.input.count)

\* A listing - of source lines, registers, instructions or memory - has what was asked for, no
\* more and nothing twice, at every limit and with either of the GDB commands that produce it.
ListingsAreExact ==
    WindowIsInFile /\ RegistersAsAsked /\ SameListingOnOldGdb /\ ShortReadIsTold

=============================================================================
