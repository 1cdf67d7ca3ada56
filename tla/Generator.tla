----------------------------- MODULE Generator -----------------------------
(***************************************************************************)
(* The contents of a template (src/src/yaml_generator.cpp: generateYaml,   *)
(* schemaToYaml; src/src/yaml_utils.cpp: sequenceToString, getZeroString), *)
(* as the node that its text is read back as.                              *)
(*                                                                         *)
(* The comments of the template are left out.  Strings are written in      *)
(* double quotes, the elements of a sequence are written as they are.      *)
(***************************************************************************)
EXTENDS ApplySchema, SequencesExt

CONSTANT Reread   \* [texts -> sequences of nodes]: the texts that are something else
                  \* than themselves when they are written bare between brackets

N_SEQUENCE_OUTPUT == 2
ZeroSize == 3

Failed == [t |-> "failed"]   \* an exception

RECURSIVE Reading(_), ZeroNode(_), SchemaToYaml(_, _)

\* What sequenceToString(sequence) is read as.
Reading(sequence) ==
  Seq_(FlattenSeq([i \in DOMAIN sequence.s |->
         LET element == sequence.s[i]
         IN CASE element.t = "seq" -> <<Reading(element)>>
              [] element.t = "scalar" /\ element.v \in DOMAIN Reread -> Reread[element.v]
              [] OTHER -> <<element>>]))

\* What getZeroString(type) is read as.
ZeroNode(type) ==
  CASE type.k = "array" -> Seq_([i \in 1..(IF type.size = 0 THEN ZeroSize ELSE type.size) |-> ZeroNode(type.of)])
    [] type.k # "array" /\ type.name = "int" -> Scalar("0")
    [] type.k # "array" /\ type.name = "bool" -> Scalar("false")
    [] OTHER -> Scalar("whatever")

\* A parameter of a trivial type: DEFAULT, or the first of OPTIONS, or zero.
Trivial(spec) ==
  LET Written(node) == IF spec.type.k = "array" THEN Reading(node) ELSE node
  IN CASE spec.default # Undefined -> Written(spec.default)
       [] spec.default = Undefined /\ spec.options # Undefined ->
            IF spec.options.s = <<>> THEN Failed ELSE Written(spec.options.s[1])
       [] OTHER -> ZeroNode(spec.type)

\* "follow" stands for a path that the user fills in.
DerivedType == Map(("type" :> Scalar("DerivedType")) @@ ("follow" :> Scalar("some/path")))

\* generateYaml, of a schema that can be read and flattened.
GenerateYaml(name, lib) ==
  LET schema == LoadSchema(name, lib)
  IN IF schema = Undefined THEN Failed ELSE SchemaToYaml(schema, lib)

\* Slip: the size that the type says is not looked at.
SizeOutput_fixed(type) == N_SEQUENCE_OUTPUT
SizeOutput(type) == IF type.size = 0 THEN N_SEQUENCE_OUTPUT ELSE type.size

\* An array of a custom or derived type: one template for each element, which
\* takes its part of the first of OPTIONS along.
Elements(spec, lib) ==
  LET n == SizeOutput(spec.type)
      short == spec.options # Undefined /\ (spec.options.s = <<>> \/ Len(spec.options.s[1].s) < n)
      Element(i) == SchemaToYaml(
        [spec EXCEPT !.type = @.of,
                     !.options = IF @ = Undefined THEN @ ELSE Seq_(<<@.s[1].s[i]>>)], lib)
      elements == [i \in 1..n |-> Element(i)]
      pushed == SelectSeq(elements, LAMBDA node : node # Null)
  IN CASE short -> Failed
       [] ~short /\ \E i \in 1..n : elements[i] = Failed -> Failed
       [] OTHER -> IF pushed = <<>> THEN Null ELSE Seq_(pushed)

\* A level of the schema: the children that have something to be filled in.
Level(schema, lib) ==
  LET children == [key \in DOMAIN schema.m |-> SchemaToYaml(schema.m[key], lib)]
      filled == {key \in DOMAIN children : children[key] # Null}
  IN CASE \E key \in filled : children[key] = Failed -> Failed
       [] filled = {} -> Null
       [] OTHER -> Map([key \in filled |-> children[key]])

SchemaToYaml(schema, lib) ==
  CASE schema.t = "scalar" -> Null
    [] IsSpecification(schema) /\ schema.value # Undefined -> Null
    [] IsSpecification(schema) /\ schema.value = Undefined ->
         CASE Lowest(schema.type).k = "basic" -> Trivial(schema)
           [] schema.type.k = "derived" -> DerivedType
           [] schema.type.k = "custom" -> GenerateYaml(schema.type.name, lib)
           [] OTHER -> Elements(schema, lib)
    [] schema.t = "map" -> Level(schema, lib)
    [] OTHER -> Failed

=============================================================================
