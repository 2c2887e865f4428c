---------------------------- MODULE Requirement ----------------------------
(***************************************************************************)
(* Capability requirements (constraints.cpp) and their evaluation against  *)
(* what the capability registry has recorded (runtime.cpp).                *)
(*                                                                         *)
(* A value is its type and its rank in the order of that type; rank 0 is    *)
(* the value that counts as disabled: zero, false, the empty text, 0.0.0.  *)
(* A requirement is an operator with operands or with children.  The key   *)
(* of a leaf is left out: the entry that has the requirement names the key *)
(* that is looked up, and every leaf is evaluated against that one record. *)
(***************************************************************************)
EXTENDS Integers, Sequences, SequencesExt

CONSTANT CapabilityValue  \* the values that records and operands have

\* In the order of the enumeration.
ValueTypes == <<"UNSIGNED", "SIGNED", "BOOLEAN", "TEXT", "VERSION">>

LeafOps == {"SUPPORTS", "MINIMUM", "MAXIMUM", "IN_SET", "VERSION_AT_LEAST", "RANGE_CONTAINS"}

RequirementOp == LeafOps \cup {"ALL_OF", "ANY_OF", "NOT"}

ASSUME ValueAssumption ==
    CapabilityValue \subseteq [type : ToSet(ValueTypes), rank : Nat]

is_numeric(value) == value.type \in {"UNSIGNED", "SIGNED"}

is_enabled(value) == value.rank # 0

TypeIndex(type) == CHOOSE i \in DOMAIN ValueTypes : ValueTypes[i] = type

\* The order of values: of the types, then of one type.
Less(v, w) ==
    \/ TypeIndex(v.type) < TypeIndex(w.type)
    \/ v.type = w.type /\ v.rank < w.rank

----------------------------------------------------------------------------

\* The requirements that are at most so deep: a leaf is one deep.  The code's values are
\* finite trees by construction; what is about all of one is a fold from the leaves up.
Requirements(depth) ==
    LET within[d \in 0 .. depth] ==
            IF d = 0 THEN {}
            ELSE [op : RequirementOp, values : Seq(CapabilityValue), children : Seq(within[d - 1])]
    IN  within[depth]

\* Node(r, inner) is the result for r, `inner' being the results for its children.
OnTree(requirement, depth, Node(_, _)) ==
    LET result[r \in Requirements(depth)] ==
            Node(r, [i \in DOMAIN r.children |-> result[r.children[i]]])
    IN  result[requirement]

node_count(requirement, inner) == FoldSeq(+, 1, inner)

\* Every operator has the operands and the children that evaluation will look at.
validate_operands(requirement, inner) ==
    LET op       == requirement.op
        values   == requirement.values
        Ordered(value) == is_numeric(value) \/ value.type = "VERSION"
    IN  \/ /\ op \in LeafOps
           /\ requirement.children = <<>>
           /\ op = "SUPPORTS" => values = <<>>
           /\ op \in {"MINIMUM", "MAXIMUM"} => Len(values) = 1 /\ Ordered(values[1])
           /\ op = "VERSION_AT_LEAST" => Len(values) = 1 /\ values[1].type = "VERSION"
           /\ op = "IN_SET" => values # <<>>
           /\ op = "RANGE_CONTAINS" =>
                 /\ Len(values) = 2
                 /\ Ordered(values[1])
                 /\ values[1].type = values[2].type
                 /\ ~Less(values[2], values[1])
        \/ /\ op \notin LeafOps
           /\ values = <<>>
           /\ requirement.children # <<>>
           /\ op = "NOT" => Len(requirement.children) = 1
           /\ \A i \in DOMAIN inner : inner[i]

\* Requirement::depth() is bounded by the set the requirement is taken from.
validate_requirement(requirement, limits) ==
    LET depth == limits.max_requirement_depth IN
    /\ requirement \in Requirements(depth)
    /\ OnTree(requirement, depth, node_count) <= limits.max_requirement_nodes
    /\ OnTree(requirement, depth, validate_operands)

----------------------------------------------------------------------------

Met(condition) == IF condition THEN "SATISFIED" ELSE "UNSATISFIED"

\* A comparison with another type is not met, whatever the values.
evaluate_leaf(requirement, record) ==
    LET op == requirement.op
        value == record.value
        bound == requirement.values
        SameType == value.type = bound[1].type
    IN  CASE ~record.known    -> "UNKNOWN"
          [] record.known /\ op = "SUPPORTS" -> Met(is_enabled(value))
          [] record.known /\ op = "MINIMUM" -> Met(SameType /\ ~Less(value, bound[1]))
          [] record.known /\ op = "VERSION_AT_LEAST" ->
                 Met(value.type = "VERSION" /\ ~Less(value, bound[1]))
          [] record.known /\ op = "MAXIMUM" -> Met(SameType /\ ~Less(bound[1], value))
          [] record.known /\ op = "IN_SET" -> Met(value \in ToSet(bound))
          [] record.known /\ op = "RANGE_CONTAINS" ->
                 Met(SameType /\ ~Less(value, bound[1]) /\ ~Less(bound[2], value))

\* The record is the same for every node; `inner' are the statuses of the children.
evaluate_requirement_node(requirement, inner, record) ==
    LET op       == requirement.op
        statuses == ToSet(inner)
    IN  CASE op \in LeafOps -> evaluate_leaf(requirement, record)
          [] op = "NOT" -> [SATISFIED   |-> "UNSATISFIED",
                            UNSATISFIED |-> "SATISFIED",
                            UNKNOWN     |-> "UNKNOWN"][inner[1]]
          [] op = "ALL_OF" -> IF "UNSATISFIED" \in statuses THEN "UNSATISFIED"
                              ELSE IF "UNKNOWN" \in statuses THEN "UNKNOWN" ELSE "SATISFIED"
          [] op = "ANY_OF" -> IF "SATISFIED" \in statuses THEN "SATISFIED"
                              ELSE IF "UNKNOWN" \in statuses THEN "UNKNOWN" ELSE "UNSATISFIED"

\* Of a requirement that validate_requirement() has let through.
evaluate_requirement(requirement, record, limits) ==
    LET Node(r, inner) == evaluate_requirement_node(r, inner, record)
    IN  OnTree(requirement, limits.max_requirement_depth, Node)
=============================================================================
