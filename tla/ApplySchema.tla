---------------------------- MODULE ApplySchema ----------------------------
(***************************************************************************)
(* Validating and completing an input node against a schema                *)
(* (src/src/yaml_schema.cpp: applySchema, applySchemaRecursive,            *)
(* applySchemaDerived, checkSchema; src/src/yaml_utils.cpp: compare;       *)
(* src/src/expression.cpp).                                                *)
(*                                                                         *)
(* The code completes nodes in place through the aliases of yaml-cpp; here *)
(* every operator returns its verdict and the completed node.  lib has the *)
(* schemas that the folders contain, by name and already flattened.  The   *)
(* text of a type is told apart into its parts.                            *)
(***************************************************************************)
EXTENDS YamlTree, Sequences, FiniteSetsExt

CONSTANTS Ints,   \* texts of scalars that can be read as an int
          Bools   \* texts of scalars that can be read as a bool

Basic(name) == [k |-> "basic", name |-> name]           \* "int", "bool", "string"
Custom(name) == [k |-> "custom", name |-> name]         \* the name of a schema
Derived == [k |-> "derived"]
Array(of, size) == [k |-> "array", of |-> of, size |-> size]  \* size 0: any

RECURSIVE Lowest(_), CheckType(_, _)

\* getLowestElementType
Lowest(type) == IF type.k = "array" THEN Lowest(type.of) ELSE type
IsDerivedType(type) == Lowest(type) = Derived

\* getCheckType: for a derived type, the base in its place.
CheckType(type, base) ==
  CASE type.k = "derived" -> Custom(base)
    [] type.k = "array" -> Array(CheckType(type.of, base), type.size)
    [] OTHER -> type

(***************************************************************************)
(* A schema is a specification, a map of schemas, or a scalar or null node *)
(* that nobody looks at.  MANDATORY is "true", "false", or an expression   *)
(* that compares one parameter of the same level with a value.             *)
(***************************************************************************)
Spec_(type, base, mandatory, default, value, options) ==
  [t |-> "spec", type |-> type, base |-> base, mandatory |-> mandatory,
   default |-> default, value |-> value, options |-> options]
Bool(b) == [expression |-> FALSE, holds |-> b]
Expression(parameter, v) == [expression |-> TRUE, parameter |-> parameter, equals |-> v]

IsSpecification(schema) == schema.t = "spec"
HasExpression(schema) == IsSpecification(schema) /\ schema.mandatory.expression

Yes(node) == [ok |-> TRUE, node |-> node]
No(node) == [ok |-> FALSE, node |-> node]

\* tryNodeAs, and no null for a string.
NodeAs(node, name) ==
  /\ node.t = "scalar"
  /\ name = "int" => node.v \in Ints
  /\ name = "bool" => node.v \in Bools

(***************************************************************************)
(* evalExpression: an error if the parameter is missing or has not the     *)
(* type that the schema says.                                              *)
(***************************************************************************)
EvalExpression(e, parent, schema_parent) ==
  IF ~(parent.t = "map" /\ e.parameter \in DOMAIN parent.m) THEN "error"
  ELSE LET node == parent.m[e.parameter]
           type == schema_parent.m[e.parameter].type
       IN IF ~(type.k = "basic" /\ NodeAs(node, type.name)) THEN "error"
          ELSE IF node.v = e.equals THEN "true" ELSE "false"

Mandatory(spec, parent, schema_parent) ==
  CASE spec.mandatory.expression -> EvalExpression(spec.mandatory, parent, schema_parent)
    [] ~spec.mandatory.expression /\ spec.mandatory.holds -> "true"
    [] OTHER -> "false"

\* Slip: also a parameter that may be missing is accepted.
CheckExpression_optional(e, schema_parent) ==
  /\ schema_parent.t = "map" /\ e.parameter \in DOMAIN schema_parent.m
  /\ LET spec == schema_parent.m[e.parameter]
     IN IsSpecification(spec) /\ spec.type.k = "basic" /\ ~spec.mandatory.expression

(***************************************************************************)
(* checkExpression: the parameter is a specification of the same level, of *)
(* a basic or string type (for isBasicType and isStringType an array of    *)
(* them is none), and always there once defaults are filled in.            *)
(***************************************************************************)
CheckExpression(e, schema_parent) ==
  /\ schema_parent.t = "map" /\ e.parameter \in DOMAIN schema_parent.m
  /\ LET spec == schema_parent.m[e.parameter]
     IN /\ IsSpecification(spec) /\ spec.type.k = "basic"
        /\ ~spec.mandatory.expression
        /\ spec.mandatory.holds \/ spec.default # Undefined

-----------------------------------------------------------------------------
RECURSIVE Compare(_, _, _, _), CompareSchema(_, _, _, _)

\* compare, compareTrivial and compareNonTrivial
Compare(m, n, type, lib) ==
  /\ m.t \notin {"undefined", "null"} /\ n.t \notin {"undefined", "null"}
  /\ CASE type.k = "basic" -> NodeAs(m, type.name) /\ NodeAs(n, type.name) /\ m = n
       [] type.k = "array" ->
            /\ m.t = "seq" /\ n.t = "seq" /\ Len(m.s) = Len(n.s)
            /\ type.size # 0 => Len(m.s) = type.size
            /\ \A i \in DOMAIN m.s : Compare(m.s[i], n.s[i], type.of, lib)
       [] type.k = "custom" ->
            type.name \in DOMAIN lib /\ CompareSchema(m, n, lib[type.name], lib)
       [] OTHER -> FALSE    \* there is no schema "derived"

Child(node, key) ==
  IF node.t = "map" /\ key \in DOMAIN node.m THEN node.m[key] ELSE Undefined

\* compareNonTrivialSchema: only what the schema mentions is compared.
CompareSchema(m, n, schema, lib) ==
  CASE IsSpecification(schema) ->
         /\ m = Undefined <=> n = Undefined
         /\ (~schema.mandatory.expression /\ schema.mandatory.holds) \/ m # Undefined
            => Compare(m, n, schema.type, lib)
    [] schema.t = "map" ->
         /\ m.t # "scalar" /\ n.t # "scalar"
         /\ \A key \in DOMAIN schema.m :
              CompareSchema(Child(m, key), Child(n, key), schema.m[key], lib)
    [] OTHER -> TRUE

IsInOptions(node, options, type, lib) ==
  \E i \in DOMAIN options.s : Compare(options.s[i], node, type, lib)

-----------------------------------------------------------------------------
RECURSIVE Apply(_, _, _), ApplyRecursive(_, _, _, _, _), ApplyDerived(_, _, _, _),
          CheckSchema(_, _, _)

\* A sequence, from what its elements give; size 0 in the type allows any number.
ApplyEach(size, elements) ==
  [ok |-> (size = 0 \/ Len(elements) = size) /\ \A i \in DOMAIN elements : elements[i].ok,
   node |-> Seq_([i \in DOMAIN elements |-> elements[i].node])]

\* loadSchema, of a schema that can be read and flattened.
LoadSchema(name, lib) ==
  IF name \in DOMAIN lib THEN CheckSchema(lib[name], lib[name], lib) ELSE Undefined

Apply(input, type, lib) ==
  CASE type.k = "array" /\ input.t # "seq" -> No(input)
    [] type.k = "array" /\ input.t = "seq" ->
         ApplyEach(type.size, [i \in DOMAIN input.s |-> Apply(input.s[i], type.of, lib)])
    [] type.k = "basic" -> IF NodeAs(input, type.name) THEN Yes(input) ELSE No(input)
    [] OTHER -> LET schema == LoadSchema(type.name, lib)
                IN IF schema = Undefined THEN No(input)
                   ELSE ApplyRecursive(input, input, schema, Undefined, lib)

\* Slip: the base schema completes the node before the derived one.
BaseAfter_first(input, derived, base, lib) ==
  LET first == Apply(input, base, lib)
      second == Apply(first.node, derived, lib)
  IN [ok |-> first.ok /\ second.ok, node |-> second.node]

\* The derived schema, then the base schema on what the derived one completed.
BaseAfter(input, derived, base, lib) ==
  LET first == Apply(input, derived, lib)
      second == Apply(first.node, base, lib)
  IN [ok |-> first.ok /\ second.ok, node |-> second.node]

ApplyDerived(input, type, base, lib) ==
  CASE type.k = "array" /\ input.t # "seq" -> No(input)
    [] type.k = "array" /\ input.t = "seq" ->
         ApplyEach(type.size, [i \in DOMAIN input.s |-> ApplyDerived(input.s[i], type.of, base, lib)])
    [] type.k # "array" /\ Child(input, "type").t = "scalar" ->
         BaseAfter(input, Custom(input.m["type"].v), Custom(base), lib)
    [] OTHER -> No(input)

\* Slip: the VALUE of the schema is put in the place of what is there.
ApplyDefined_force(input, spec, lib) ==
  LET typed == IF IsDerivedType(spec.type) THEN ApplyDerived(input, spec.type, spec.base, lib)
                                           ELSE Apply(input, spec.type, lib)
  IN [ok |-> typed.ok, node |-> IF spec.value # Undefined THEN spec.value ELSE typed.node]

\* The parameter is there: its type, then VALUE and OPTIONS.
ApplyDefined(input, spec, lib) ==
  LET typed == IF IsDerivedType(spec.type) THEN ApplyDerived(input, spec.type, spec.base, lib)
                                           ELSE Apply(input, spec.type, lib)
      type == CheckType(spec.type, spec.base)
  IN [ok |-> /\ typed.ok
             /\ spec.value # Undefined => Compare(spec.value, typed.node, type, lib)
             /\ spec.options # Undefined => IsInOptions(typed.node, spec.options, type, lib),
      node |-> typed.node]

\* The parameter is missing: VALUE, or an error, or DEFAULT, or nothing.
ApplyMissing(parent, spec, schema_parent) ==
  CASE spec.value # Undefined -> Yes(spec.value)
    [] spec.value = Undefined /\ Mandatory(spec, parent, schema_parent) = "false" -> Yes(spec.default)
    [] OTHER -> No(Undefined)

\* Slip: all children in one pass.
Passes_one(schema) == <<DOMAIN schema.m>>

\* First the children without an expression, then the ones with.
Passes(schema) ==
  LET expressions == {key \in DOMAIN schema.m : HasExpression(schema.m[key])}
  IN <<DOMAIN schema.m \ expressions, expressions>>

\* Slip: asking for a child adds its key.
Attach_always(children, key, node) == (key :> node) @@ children

\* A child that was missing is in its parent as soon as something is assigned to it.
Attach(children, key, node) == IF node = Undefined THEN children ELSE (key :> node) @@ children

ApplyChildren(input, schema, lib) ==
  LET ApplyChild(key, sofar) ==
        LET child == ApplyRecursive(Child(sofar.node, key), sofar.node, schema.m[key], schema, lib)
        IN [ok |-> child.ok /\ sofar.ok, node |-> Map(Attach(Children(sofar.node), key, child.node))]
      Pass(i, sofar) == FoldSet(ApplyChild, sofar, Passes(schema)[i])
  IN IF Len(Passes(schema)) = 1 THEN Pass(1, Yes(input)) ELSE Pass(2, Pass(1, Yes(input)))

ApplyRecursive(input, parent, schema, schema_parent, lib) ==
  CASE schema.t = "scalar" -> Yes(input)
    [] IsSpecification(schema) /\ input # Undefined -> ApplyDefined(input, schema, lib)
    [] IsSpecification(schema) /\ input = Undefined -> ApplyMissing(parent, schema, schema_parent)
    [] schema.t = "null" -> Yes(IF input = Undefined THEN Null ELSE input)
    [] schema.t = "map" /\ input.t \notin {"undefined", "null", "map"} -> No(input)
    [] OTHER -> ApplyChildren(IF input = Undefined THEN Null ELSE input, schema, lib)

-----------------------------------------------------------------------------
(***************************************************************************)
(* checkSchema: Undefined if it throws, otherwise the schema, in which     *)
(* VALUE, DEFAULT and OPTIONS are completed, since they are checked by     *)
(* applying their own schemas to them in place.                            *)
(***************************************************************************)
\* Slip: copies are checked.
Completed_copy(before, checked) == before
Completed(before, checked) == IF before = Undefined THEN Undefined ELSE checked.node

CheckSpecification(spec, schema_parent, lib) ==
  LET type == CheckType(spec.type, spec.base)
      Checked(node) == IF node = Undefined THEN Yes(Undefined) ELSE Apply(node, type, lib)
      value == Checked(spec.value)
      default == Checked(spec.default)
      each == IF spec.options = Undefined THEN Yes(Undefined)
              ELSE Apply(spec.options, Array(type, 0), lib)
      Listed(node) == node # Undefined => IsInOptions(node, each.node, type, lib)
  IN IF /\ spec.mandatory.expression => CheckExpression(spec.mandatory, schema_parent)
        /\ value.ok /\ default.ok /\ each.ok
        /\ spec.value # Undefined => ~spec.mandatory.expression /\ ~spec.mandatory.holds
        /\ spec.default # Undefined => spec.mandatory.expression \/ ~spec.mandatory.holds
        /\ spec.options # Undefined => Listed(value.node) /\ Listed(default.node)
     THEN [spec EXCEPT !.value = Completed(spec.value, value),
                       !.default = Completed(spec.default, default),
                       !.options = Completed(spec.options, each)]
     ELSE Undefined

CheckSchema(schema, schema_parent, lib) ==
  CASE IsSpecification(schema) -> CheckSpecification(schema, schema_parent, lib)
    [] schema.t = "map" ->
         LET checked == [key \in DOMAIN schema.m |-> CheckSchema(schema.m[key], schema, lib)]
         IN IF \E key \in DOMAIN checked : checked[key] = Undefined THEN Undefined ELSE Map(checked)
    [] schema.t \in {"scalar", "null"} -> schema
    [] OTHER -> Undefined

=============================================================================
