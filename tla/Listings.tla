------------------------------ MODULE Listings ------------------------------
(***************************************************************************)
(* The listings the inspection services cut out of what GDB returns: source *)
(* lines (session/inspection/source.py), registers (variables.py),          *)
(* instructions (disassembly.py) and memory (memory.py).                    *)
(***************************************************************************)
EXTENDS Integers, Sequences, SequencesExt, FiniteSetsExt

CONSTANTS NoLine, NoLimit

(***************************************************************************)
(* Source.  A request is a range of lines or a line with context around it. *)
(***************************************************************************)

NoWindow == [start |-> 0, end |-> 0, current |-> NoLine, ok |-> FALSE]

\* _read_source_context for a file of "length" lines; a range starts at "line".
SourceWindow(length, ask) ==
    LET start == IF ask.range THEN ask.line ELSE Max({1, ask.line - ask.before})
    IN IF ask.line = NoLine THEN NoWindow
       ELSE IF start > length THEN NoWindow
       ELSE [start |-> start, end |-> Min({ask.line + ask.after, length}),
             current |-> IF ask.range THEN NoLine ELSE ask.line, ok |-> TRUE]

\* What was asked for of the file, and the window that shows just that.
LinesAsked(length, ask) ==
    IF ask.line = NoLine THEN {}
    ELSE ((IF ask.range THEN ask.line ELSE ask.line - ask.before)..(ask.line + ask.after))
            \cap 1..length

ShowsExactly(window, lines) ==
    IF window.ok THEN window.start..window.end = lines /\ lines # {} ELSE lines = {}

(***************************************************************************)
(* Registers.  names[n + 1] is the name of register n.                      *)
(***************************************************************************)

AppendNew(s, x) == IF x \in Range(s) THEN s ELSE Append(s, x)

NumberOf(names, name) == CHOOSE n \in 0..(Len(names) - 1) : names[n + 1] = name

\* _resolve_register_number_filters: numbers, then names, each register once.
ResolveFilters(names, numbers, wanted) ==
    LET known == [i \in DOMAIN wanted |-> NumberOf(names, wanted[i])]
    IN FoldLeft(AppendNew, <<>>, numbers \o known)

\* _register_values_command: no number means all registers.
RegistersListed(names, numbers) ==
    IF numbers = <<>> THEN [i \in DOMAIN names |-> i - 1] ELSE numbers

\* _load_register_name_map, _filter_vector_registers
WithoutVectors(names, vectors, listed) ==
    SelectSeq(listed, LAMBDA n : names[n + 1] \notin vectors)

\* get_registers: vector registers go before the limit applies.
GetRegisters(names, vectors, ask) ==
    LET listed == RegistersListed(names, ResolveFilters(names, ask.numbers, ask.names))
        kept == IF ask.vectors THEN listed ELSE WithoutVectors(names, vectors, listed)
        known == \A i \in DOMAIN ask.names : ask.names[i] \in Range(names)
    IN IF ~known THEN [ok |-> FALSE, registers |-> <<>>]
       ELSE [ok |-> TRUE,
             registers |-> IF ask.max = NoLimit THEN kept
                           ELSE SubSeq(kept, 1, Min({ask.max, Len(kept)}))]

(***************************************************************************)
(* Instructions.  A function is the sequence of its instructions' addresses.*)
(***************************************************************************)

\* GDB: the instructions from "start" on that begin before "end".
InstructionsIn(code, start, end) == SelectSeq(code, LAMBDA a : start <= a /\ a < end)

\* The range ends at the last instruction.
FunctionRangeShort(code) == <<Min(Range(code)), Max(Range(code))>>

\* _whole_function_address_range: the range of the CLI listing.
FunctionRange(code) == <<Min(Range(code)), Max(Range(code)) + 1>>

\* get_disassembly of a whole function, with and without "-data-disassemble -a".
Disassembly(code, supportsA, limit) ==
    LET range == FunctionRange(code)
        listed == IF supportsA THEN code ELSE InstructionsIn(code, range[1], range[2])
    IN SubSeq(listed, 1, Min({limit, Len(listed)}))

(***************************************************************************)
(* Memory.  "readable" is the set of the readable offsets of the request.   *)
(***************************************************************************)

\* -data-read-memory-bytes: one block per readable run.  -data-read-memory: the readable prefix.
Runs(readable) == {i \in readable : i - 1 \notin readable}

ReadablePrefix(count, readable) ==
    {i \in 0..(count - 1) : \A j \in 0..i : j \in readable}

\* read_memory and its warnings.
ReadMemory(count, readable, supportsBytes) ==
    LET got == IF supportsBytes THEN readable \cap 0..(count - 1)
                                ELSE ReadablePrefix(count, readable)
        blocks == Cardinality(Runs(got))
    IN [bytes |-> got,
        warnings |-> (IF blocks > 1 THEN {"discontinuous"} ELSE {})
                       \cup (IF Cardinality(got) < count THEN {"partial"} ELSE {})]

\* There is a warning just when a byte is missing.
TellsShort(read, count) == (read.warnings = {}) <=> (read.bytes = 0..(count - 1))

=============================================================================
