---------------------------- MODULE MCInspection ----------------------------
(***************************************************************************)
(* Instances of Inspection, with Capture on top of it, for TLC.            *)
(***************************************************************************)
EXTENDS Capture

MCKinds == Selects \cup Inspects

Bytes(count, offset, name) == [count |-> count, offset |-> offset, name |-> name]
Ask(include, ranges) == [include |-> include, ranges |-> ranges]

\* Everything; without the sections that bring the runtime's note up to date;
\* and one request for each reason to refuse.
MCRequests ==
    {Ask(Sections, <<Bytes(2, 0, "a")>>),
     Ask({"variables", "registers", "evaluate"}, << >>),
     Ask({"threads"}, <<Bytes(0, 0, None)>>),
     Ask({"threads"}, <<Bytes(1, -1, None)>>),
     Ask({"threads"}, <<Bytes(3, 0, None)>>),
     Ask({"threads"}, <<Bytes(1, 0, "blank")>>),
     Ask({"threads"}, <<Bytes(1, 0, "a"), Bytes(1, 0, "a")>>),
     Ask({"threads"}, <<Bytes(2, 0, "a"), Bytes(2, 0, "b")>>)}
=============================================================================
