-------------------------- MODULE SchemaNormalizer --------------------------
(***************************************************************************)
(* The flattening of the published input schemas (mcp/schema_normalizer.py)*)
(* and the meaning it has to keep.                                          *)
(*                                                                          *)
(* A schema is a record with one field per JSON Schema key the code looks   *)
(* at; a key that is absent has the value None, "any", {}, <<>> or FALSE.   *)
(* Titles and descriptions are left out, but for the notes the normaliser   *)
(* adds to a description ("notes"), and for whether a node has a            *)
(* description of its own, which replaces the one that carries the notes    *)
(* ("described").  Maps (additionalProperties with a schema) are normalised *)
(* like the items of an array and are left out.                             *)
(***************************************************************************)
EXTENDS Naturals, Sequences, SequencesExt, FiniteSetsExt

CONSTANTS None          \* no reference, no constant, no discriminator

NoProps == [n \in {} |-> None]

Schema == [ref |-> None, alts |-> <<>>, by |-> None, type |-> "any", const |-> None,
           enum |-> {}, props |-> NoProps, items |-> None, required |-> {}, closed |-> FALSE,
           described |-> FALSE, notes |-> {}]

(***************************************************************************)
(* What a schema means.  A value is [type, scalar, fields, elements]; of an *)
(* array only the set of its elements is kept.                              *)
(***************************************************************************)

RECURSIVE Accepts(_, _, _)
Accepts(defs, s, v) ==
    IF s.ref # None THEN s.ref \in DOMAIN defs /\ Accepts(defs, defs[s.ref], v)
    ELSE IF s.alts # <<>> THEN \E i \in DOMAIN s.alts : Accepts(defs, s.alts[i], v)
    ELSE /\ s.type \in {"any", v.type}
         /\ s.const \in {None, v.scalar}
         /\ s.enum = {} \/ v.scalar \in s.enum
         /\ v.type = "object" =>
              /\ s.required \subseteq DOMAIN v.fields
              /\ \A n \in DOMAIN v.fields :
                    IF n \in DOMAIN s.props THEN Accepts(defs, s.props[n], v.fields[n])
                                            ELSE ~s.closed
         /\ (v.type = "array" /\ s.items # None) =>
              \A e \in v.elements : Accepts(defs, s.items, e)

(***************************************************************************)
(* The notes.                                                               *)
(***************************************************************************)

\* _required_paths: required names, and one level below them.
RequiredPaths(s) ==
    {<<n>> : n \in s.required}
      \cup UNION {{<<n, m>> : m \in s.props[n].required} : n \in s.required \cap DOMAIN s.props}

\* _discriminator_values of a variant's own discriminator property.
DiscriminatorValues(s, by) ==
    IF by \notin DOMAIN s.props THEN {}
    ELSE IF s.props[by].enum # {} THEN s.props[by].enum
    ELSE {s.props[by].const} \ {None}

\* Only the names the variant itself requires.
ConditionalTopLevel(by, variants) ==
    LET common == {n \in variants[1].required : \A i \in DOMAIN variants : n \in variants[i].required}
        needs(i) == [by |-> by, values |-> DiscriminatorValues(variants[i], by),
                     verb |-> "requires", paths |-> {<<n>> : n \in variants[i].required \ common}]
    IN IF by = None THEN {} ELSE {c \in {needs(i) : i \in DOMAIN variants} : c.paths # {}}

\* _conditional_requirements_note: what only some variants require.
ConditionalRequirements(by, variants) ==
    LET paths(i) == RequiredPaths(variants[i])
        common == {p \in paths(1) : \A i \in DOMAIN variants : p \in paths(i)}
        needs(i) == [by |-> by, values |-> DiscriminatorValues(variants[i], by),
                     verb |-> "requires", paths |-> paths(i) \ common]
    IN IF by = None THEN {}
       ELSE {c \in {needs(i) : i \in DOMAIN variants} : c.values # {} /\ c.paths # {}}

\* _accepted_field_names: the declared names of a fixed-field object (its order left out).
HasFields(s, n) == n \in DOMAIN s.props /\ s.props[n].type = "object"

\* _document_accepted_fields: one clause per different set of accepted fields.
AcceptedFields(by, variants, n) ==
    LET with == {i \in DOMAIN variants : HasFields(variants[i], n)}
        fields == {DOMAIN variants[i].props[n].props : i \in with}
        values(f) == UNION {DiscriminatorValues(variants[i], by) :
                               i \in {j \in with : DOMAIN variants[j].props[n].props = f}}
    IN {[by |-> by, values |-> values(f), verb |-> "accepts", paths |-> {<<m>> : m \in f}] :
          f \in fields}

DocumentAcceptedFields(merged, variants, by) ==
    IF by = None THEN merged
    ELSE [merged EXCEPT !.props =
            [n \in DOMAIN merged.props |->
               LET clauses == AcceptedFields(by, variants, n)
                   kept == UNION {variants[i].props[n].notes :
                                    i \in {j \in DOMAIN variants :
                                             /\ HasFields(variants[j], n)
                                             /\ variants[j].props[n].props # NoProps}}
               IN IF n = by \/ Cardinality(clauses) < 2 THEN merged.props[n]
                  ELSE [merged.props[n] EXCEPT !.notes = kept \cup clauses]]]

(***************************************************************************)
(* The merge of the alternatives of a union.                                *)
(***************************************************************************)

RECURSIVE MergeProperties(_, _)

\* A shared field keeps the names its first alternative requires.
MergeRequiresLeft(left, right) ==
    [left EXCEPT !.enum = @ \cup right.enum, !.props = MergeProperties(@, right.props)]

\* _merge_property_schemas.  additionalProperties: false of the left side survives whether
\* or not the right side has the key; a key only one side has is kept.
MergePropertySchemas(left, right) ==
    [left EXCEPT
       !.required = @ \cap right.required,
       !.ref = IF @ = None THEN right.ref ELSE @,
       !.type = IF @ = "any" THEN right.type ELSE @,
       !.items = IF @ = None THEN right.items ELSE @,
       !.enum = @ \cup right.enum,
       !.props = MergeProperties(@, right.props),
       !.described = @ \/ right.described,
       !.notes = @ \cup right.notes]

MergeProperties(f, g) ==
    [n \in DOMAIN f \cup DOMAIN g |->
       IF n \notin DOMAIN g THEN f[n]
       ELSE IF n \notin DOMAIN f THEN g[n]
       ELSE MergePropertySchemas(f[n], g[n])]

\* _merge_object_variants.
MergeObjectVariants(variants) ==
    [Schema EXCEPT
       !.type = "object",
       !.props = FoldLeft(LAMBDA f, v : MergeProperties(f, v.props), NoProps, variants),
       !.required = {n \in variants[1].required :
                        \A i \in DOMAIN variants : n \in variants[i].required},
       !.closed = \A i \in DOMAIN variants : variants[i].closed]

ObjectLike(s) == s.type = "object" \/ s.props # NoProps

\* The description of the union's own node replaces the merged one; the note comes after.
Wrapped(merged, node) ==
    IF node.described THEN [merged EXCEPT !.described = TRUE, !.notes = {}] ELSE merged

(***************************************************************************)
(* The recursion over the nodes.  "stack" is the set of definitions being    *)
(* inlined.                                                                 *)
(***************************************************************************)

RECURSIVE NormalizeNode(_, _, _)

\* _resolve_ref: a reference inside its own definition stays a reference.
ResolveRef(node, defs, stack) ==
    IF node.ref \notin DOMAIN defs \/ node.ref \in stack THEN node
    ELSE Wrapped(NormalizeNode(defs[node.ref], defs, stack \cup {node.ref}), node)

\* _normalize_union.
NormalizeUnion(node, defs, stack) ==
    LET all == [i \in DOMAIN node.alts |-> NormalizeNode(node.alts[i], defs, stack)]
        variants == SelectSeq(all, LAMBDA s : s.type # "null")
        many == Len(variants) > 1
        merged == IF many /\ \A i \in DOMAIN variants : ObjectLike(variants[i])
                  THEN MergeObjectVariants(variants) ELSE variants[1]
        noted == [Wrapped(merged, node) EXCEPT
                    !.notes = @ \cup ConditionalRequirements(node.by, variants)]
    IN IF variants = <<>>
       THEN [Schema EXCEPT !.type = "null", !.described = node.described]
       ELSE IF many THEN DocumentAcceptedFields(noted, variants, node.by)
       ELSE Wrapped(merged, node)

\* _normalize_node.
NormalizeNode(node, defs, stack) ==
    IF node.ref # None THEN ResolveRef(node, defs, stack)
    ELSE IF node.alts # <<>> THEN NormalizeUnion(node, defs, stack)
    ELSE [node EXCEPT
            !.by = None,
            !.props = [n \in DOMAIN @ |-> NormalizeNode(@[n], defs, stack)],
            !.items = IF @ = None THEN None ELSE NormalizeNode(@, defs, stack),
            !.enum = IF @ = {} THEN {node.const} \ {None} ELSE @,
            !.const = None]

\* _collect_ref_names.
RECURSIVE RefNames(_)
RefNames(s) ==
    ({s.ref} \ {None})
      \cup UNION {RefNames(s.alts[i]) : i \in DOMAIN s.alts}
      \cup UNION {RefNames(s.props[n]) : n \in DOMAIN s.props}
      \cup (IF s.items = None THEN {} ELSE RefNames(s.items))

\* _prune_defs: the definitions reachable from the references that remain.
RECURSIVE PruneDefs(_, _)
PruneDefs(defs, names) ==
    LET more == names \cup UNION {RefNames(defs[n]) : n \in names \cap DOMAIN defs}
    IN IF more = names THEN [n \in names \cap DOMAIN defs |-> defs[n]]
                       ELSE PruneDefs(defs, more)

\* normalize_input_schema: the flattened root and the definitions that are still needed.
NormalizeInputSchema(root, defs) ==
    LET flat == NormalizeNode(root, defs, {})
        kept == PruneDefs(defs, RefNames(flat))
    IN [root |-> flat,
        defs |-> IF RefNames(flat) = {} THEN NoProps
                 ELSE [n \in DOMAIN kept |-> NormalizeNode(kept[n], kept, {n})]]

=============================================================================
