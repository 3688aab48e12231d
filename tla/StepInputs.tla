----------------------------- MODULE StepInputs -----------------------------
(***************************************************************************)
(* How the lines a user gives become requests: the command line's           *)
(* --step / --step-label / --step-arg options (client/input_parsers.py,     *)
(* client/parsers.py), the contract a step has to meet (contracts.py) and   *)
(* the split of the server's standard input into messages                   *)
(* (mcp/stdio_input.py).                                                    *)
(*                                                                          *)
(* A nested mapping of arguments is the function from the dotted paths that *)
(* were assigned to the values they got, in order: one value is a scalar,   *)
(* several are a list.  Setup steps use the same options under another      *)
(* name.                                                                    *)
(***************************************************************************)
EXTENDS Naturals, Sequences, SequencesExt, FiniteSetsExt

CONSTANTS NoLabel, StepTools, WorkflowTools, SessionManage, SessionQuery, Newline

NoArgs == [p \in {} |-> <<>>]

\* assign_dotted_value: a segment that is already a value, or a leaf that is already a mapping.
Conflicts(args, path) ==
    \E p \in DOMAIN args : p # path /\ (IsPrefix(p, path) \/ IsPrefix(path, p))

AssignDottedValue(args, path, value) ==
    [p \in DOMAIN args \cup {path} |->
       (IF p \in DOMAIN args THEN args[p] ELSE <<>>) \o (IF p = path THEN <<value>> ELSE <<>>)]

NoSteps == [steps |-> <<>>, ok |-> TRUE]

NewStep(tool) == [tool |-> tool, label |-> NoLabel, args |-> NoArgs]

\* A label starts the arguments of its step again.
StepOptionLabelResets(parsed, event) ==
    LET last == Len(parsed.steps) IN
    CASE event.option = "step" -> [parsed EXCEPT !.steps = Append(@, NewStep(event.tool))]
      [] event.option # "step" /\ last = 0 -> [parsed EXCEPT !.ok = FALSE]
      [] event.option = "label" /\ last > 0 ->
            [parsed EXCEPT !.steps[last].label = event.label, !.steps[last].args = NoArgs]
      [] OTHER ->
            [parsed EXCEPT !.steps[last].args = AssignDottedValue(@, event.path, event.value)]

\* One option of parse_step_inputs.  After an error nothing more is read.
StepOption(parsed, event) ==
    LET last == Len(parsed.steps)
        misplaced == event.option # "step" /\ last = 0
        clashes == event.option = "arg" /\ last > 0 /\ Conflicts(parsed.steps[last].args, event.path)
    IN CASE ~parsed.ok -> parsed
         [] parsed.ok /\ (misplaced \/ clashes) -> [parsed EXCEPT !.ok = FALSE]
         [] parsed.ok /\ event.option = "step" ->
               [parsed EXCEPT !.steps = Append(@, NewStep(event.tool))]
         [] parsed.ok /\ event.option = "label" /\ ~misplaced ->
               [parsed EXCEPT !.steps[last].label = event.label]
         [] OTHER ->
               [parsed EXCEPT !.steps[last].args = AssignDottedValue(@, event.path, event.value)]

\* validate_workflow_step_contract: "arguments" holds the keys of the outermost mapping.
StepContract(step) ==
    /\ \A p \in DOMAIN step.args : p[1] # "session_id"
    /\ ~(step.tool = SessionQuery /\ <<"action">> \in DOMAIN step.args
                                  /\ step.args[<<"action">>] = <<"list">>)
    /\ step.tool # SessionManage
    /\ step.tool \notin WorkflowTools
    /\ step.tool \in StepTools

\* parse_step_inputs: all options first, then every step's contract; any failure is an error.
ParseStepInputs(events) ==
    LET parsed == FoldLeft(StepOption, NoSteps, events)
    IN IF parsed.ok /\ \A i \in DOMAIN parsed.steps : StepContract(parsed.steps[i])
       THEN parsed ELSE [steps |-> <<>>, ok |-> FALSE]

(***************************************************************************)
(* DaemonStdinLines._pump: what is left of a chunk is kept for the next one. *)
(***************************************************************************)

\* The chunk alone is split: what was left of the chunk before it becomes a line.
PumpChunkAlone(pump, chunk) ==
    [buffer |-> <<>>, lines |-> IF chunk = <<>> THEN pump.lines ELSE Append(pump.lines, chunk)]

\* One chunk: the complete lines of the buffer are emitted, its tail is kept.
PumpChunk(pump, chunk) ==
    LET buffer == pump.buffer \o chunk
        ends == SetToSortSeq({i \in DOMAIN buffer : buffer[i] = Newline}, <)
        cuts == <<0>> \o ends
    IN [buffer |-> SubSeq(buffer, Last(cuts) + 1, Len(buffer)),
        lines |-> pump.lines \o [k \in DOMAIN ends |-> SubSeq(buffer, cuts[k] + 1, ends[k])]]

\* The end of the input: an unterminated last line is emitted too.
Pump(chunks) ==
    LET end == FoldLeft(PumpChunk, [buffer |-> <<>>, lines |-> <<>>], chunks)
    IN IF end.buffer = <<>> THEN end.lines ELSE Append(end.lines, end.buffer)

=============================================================================
