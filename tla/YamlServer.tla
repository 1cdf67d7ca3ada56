----------------------------- MODULE YamlServer -----------------------------
(***************************************************************************)
(* The class YamlServer (src/src/yaml_server.cpp): it loads an input file  *)
(* or is given a node, and validates and completes that node against one   *)
(* schema after the other, while folders of schemas are added.             *)
(***************************************************************************)
EXTENDS Generator

CONSTANTS Folders,   \* folders with schemas
          Libraries, \* what may be in the folders: [Folders -> [names -> schemas]]
          Files,     \* paths of input files
          Contents,  \* what may be in the files: [Files -> Content]
          Nodes,     \* nodes that callers pass to setYaml
          Schemas,   \* names that callers pass to applySchema
          Lists,     \* values of folders_schema_ at construction
          NoPath,    \* the empty path_input_
          MaxCalls   \* bound: calls on one server

\* A file is absent, corrupt, or loads as a node; the node of a file that cannot
\* be flattened is left as far as flattenNode got with it.
AbsentFile == [t |-> "absent", node |-> Null]
CorruptFile == [t |-> "corrupt", node |-> Null]
GoodFile(node) == [t |-> "good", node |-> node]
UnflattenableFile(node) == [t |-> "unflattenable", node |-> node]

ASSUME PathAssumption == NoPath \notin Files
ASSUME ListsAssumption == Lists \subseteq Seq(Folders)
ASSUME CallsAssumption == MaxCalls \in Nat

VARIABLES
  library, content, \* the file system
  folders_schema,   \* folders_schema_
  path_input,       \* path_input_
  node_input,       \* node_input_
  origin,           \* history: the file that node_input was read from
  calls,            \* how often the server was called
  last              \* the last call: what it was and how it ended

vars == <<library, content, folders_schema, path_input, node_input, origin, calls, last>>

Outcome(call, schema, ok) == [call |-> call, schema |-> schema, ok |-> ok]

Init ==
  /\ library \in Libraries /\ content \in Contents /\ folders_schema \in Lists
  /\ path_input = NoPath /\ node_input = Null /\ origin = NoPath
  /\ calls = 0 /\ last = Outcome("construct", "", TRUE)

\* The schemas that findSchema finds: in the first folder that has the name.
Found(list) ==
  LET names == UNION {DOMAIN library[folder] : folder \in Range(list)}
      First(name) == SelectSeq(list, LAMBDA folder : name \in DOMAIN library[folder])[1]
  IN [name \in names |-> library[First(name)][name]]
Lib == Found(folders_schema)

Call(call, schema, ok) ==
  /\ calls < MaxCalls
  /\ calls' = calls + 1
  /\ last' = Outcome(call, schema, ok)
  /\ UNCHANGED <<library, content>>

\* loadYaml: path_input_ is assigned before the file is read.
LoadYaml(f) ==
  /\ Call("loadYaml", "", content[f].t = "good")
  /\ IF content[f].t = "absent" THEN UNCHANGED path_input ELSE path_input' = f
  /\ IF content[f].t \in {"absent", "corrupt"}
       THEN UNCHANGED <<node_input, origin>>
       ELSE node_input' = content[f].node /\ origin' = f
  /\ UNCHANGED folders_schema

\* Slip: the path of the file that was loaded before stays.
Given_path(node) == node_input' = node /\ origin' = NoPath /\ UNCHANGED path_input

Given(node) == node_input' = node /\ origin' = NoPath /\ path_input' = NoPath

SetYaml(node) ==
  /\ Call("setYaml", "", TRUE)
  /\ Given(node)
  /\ UNCHANGED folders_schema

\* A template is generated with the folders of the server, read back, and set.
SetTemplate(name) ==
  LET template == GenerateYaml(name, Lib)
  IN /\ Call("setTemplate", name, template # Failed)
     /\ IF template = Failed THEN UNCHANGED <<path_input, node_input, origin>> ELSE Given(template)
     /\ UNCHANGED folders_schema

AddFolderSchema(folder, before) ==
  /\ Call("addFolderSchema", "", TRUE)
  /\ folders_schema' = IF before THEN <<folder>> \o folders_schema ELSE Append(folders_schema, folder)
  /\ UNCHANGED <<path_input, node_input, origin>>

\* applySchema: what was completed stays, also if the verdict is negative.
ApplySchema_(name) ==
  /\ LET applied == Apply(node_input, Custom(name), Lib)
     IN /\ Call("applySchema", name, applied.ok)
        /\ node_input' = applied.node
  /\ UNCHANGED <<folders_schema, path_input, origin>>

\* The server is destroyed and another one constructed.
Construct(list) ==
  /\ calls > 0
  /\ folders_schema' = list /\ path_input' = NoPath /\ node_input' = Null /\ origin' = NoPath
  /\ calls' = 0 /\ last' = Outcome("construct", "", TRUE)
  /\ UNCHANGED <<library, content>>

Next ==
  \/ \E list \in Lists : Construct(list)
  \/ \E f \in Files : LoadYaml(f)
  \/ \E node \in Nodes : SetYaml(node)
  \/ \E name \in Schemas : SetTemplate(name)
  \/ \E folder \in Folders, before \in BOOLEAN : AddFolderSchema(folder, before)
  \/ \E name \in Schemas : ApplySchema_(name)

Spec == Init /\ [][Next]_vars

-----------------------------------------------------------------------------
RECURSIVE IsTree(_), Extends(_, _), Conforms(_, _, _), ConformsTo(_, _, _, _)

IsTree(n) ==
  /\ n.t \in {"null", "scalar", "seq", "map"}
  /\ n.t = "map" => \A key \in DOMAIN n.m : IsTree(n.m[key])
  /\ n.t = "seq" => \A i \in DOMAIN n.s : IsTree(n.s[i])

(***************************************************************************)
(* The input node is a tree of defined nodes: looking for a parameter that *)
(* is missing and stays missing leaves no key without a value behind.      *)
(***************************************************************************)
TypeOK ==
  /\ folders_schema \in Seq(Folders)
  /\ path_input \in Files \cup {NoPath}
  /\ IsTree(node_input)
  /\ calls \in 0..MaxCalls

\* Everything that is in m is in n, at its place.
Extends(n, m) ==
  CASE m.t = "map" -> n.t = "map" /\ \A key \in DOMAIN m.m :
                        key \in DOMAIN n.m /\ Extends(n.m[key], m.m[key])
    [] m.t = "seq" -> n.t = "seq" /\ Len(n.s) = Len(m.s)
                      /\ \A i \in DOMAIN m.s : Extends(n.s[i], m.s[i])
    [] m.t = "scalar" -> n = m
    [] OTHER -> n.t \in {"null", "map"}

(***************************************************************************)
(* Applying a schema only adds: no value of the input is ever changed or   *)
(* removed, in whatever order schemas are applied, whether they find the   *)
(* input valid or not, and however the folders change in between.          *)
(***************************************************************************)
OnlyAdds == [][last'.call \in {"applySchema", "addFolderSchema"} =>
                 Extends(node_input', node_input)]_vars

(***************************************************************************)
(* A node that is valid and complete, said without order: every parameter  *)
(* that is there has its type, VALUE and OPTIONS, and one that is not      *)
(* there is not mandatory, seen from the final values of the parameters    *)
(* around it, and has neither VALUE nor DEFAULT.                           *)
(***************************************************************************)
Conforms(node, type, lib) ==
  CASE type.k = "array" ->
         /\ node.t = "seq" /\ (type.size = 0 \/ Len(node.s) = type.size)
         /\ \A i \in DOMAIN node.s : Conforms(node.s[i], type.of, lib)
    [] type.k = "basic" -> NodeAs(node, type.name)
    [] OTHER -> LoadSchema(type.name, lib) # Undefined
                /\ ConformsTo(node, node, LoadSchema(type.name, lib), lib)

RECURSIVE ConformsDerived(_, _, _, _)
ConformsDerived(node, type, base, lib) ==
  IF type.k = "array"
    THEN /\ node.t = "seq" /\ (type.size = 0 \/ Len(node.s) = type.size)
         /\ \A i \in DOMAIN node.s : ConformsDerived(node.s[i], type.of, base, lib)
    ELSE /\ Child(node, "type").t = "scalar"
         /\ Conforms(node, Custom(node.m["type"].v), lib) /\ Conforms(node, Custom(base), lib)

ConformsToSpecification(node, parent, spec, schema_parent, lib) ==
  IF node = Undefined
    THEN /\ spec.value = Undefined /\ spec.default = Undefined
         /\ Mandatory(spec, parent, schema_parent) = "false"
    ELSE /\ IF IsDerivedType(spec.type) THEN ConformsDerived(node, spec.type, spec.base, lib)
                                        ELSE Conforms(node, spec.type, lib)
         /\ LET type == CheckType(spec.type, spec.base)
            IN /\ spec.value # Undefined => Compare(spec.value, node, type, lib)
               /\ spec.options # Undefined => IsInOptions(node, spec.options, type, lib)

ConformsTo(node, parent, schema, lib) ==
  CASE IsSpecification(schema) -> ConformsToSpecification(node, parent, schema, Undefined, lib)
    [] schema.t = "map" ->
         /\ node.t = "map"
         /\ \A key \in DOMAIN schema.m :
              LET child == schema.m[key]
              IN IF IsSpecification(child)
                   THEN ConformsToSpecification(Child(node, key), node, child, schema, lib)
                   ELSE ConformsTo(Child(node, key), node, child, lib)
    [] OTHER -> TRUE

(***************************************************************************)
(* The verdict of applySchema says whether the node as it is now conforms: *)
(* in two passes over the children, with defaults filled in between, the   *)
(* code finds what the definition without order says.                      *)
(***************************************************************************)
VerdictIsConformity ==
  last.call = "applySchema" => (last.ok <=> Conforms(node_input, Custom(last.schema), Lib))

(***************************************************************************)
(* "Validate and complete": what a schema accepted and completed it        *)
(* accepts again, and finds complete.                                      *)
(***************************************************************************)
CompleteAtOnce ==
  last.call = "applySchema" /\ last.ok => Apply(node_input, Custom(last.schema), Lib) = Yes(node_input)

\* Every VALUE of the derived schema is in the node, where the input had nothing.
SpecifiesBase(before, after) ==
  Child(before, "type").t = "scalar" /\ LoadSchema(before.m["type"].v, Lib) # Undefined =>
    LET derived == LoadSchema(before.m["type"].v, Lib)
    IN \A key \in DOMAIN derived.m :
         derived.m[key].value # Undefined /\ Child(before, key) = Undefined =>
           Child(after, key) = derived.m[key].value

(***************************************************************************)
(* "_value is useful for derived classes, to specify some parameters of    *)
(* its base class": whatever default the base has for a parameter that the *)
(* input leaves out, the VALUE of the derived schema is taken.             *)
(***************************************************************************)
DerivedSpecifiesBase ==
  [][last'.call = "applySchema" /\ LoadSchema(last'.schema, Lib) # Undefined
       /\ node_input.t = "map" =>
     LET schema == LoadSchema(last'.schema, Lib)
     IN \A key \in DOMAIN schema.m \cap DOMAIN node_input.m :
          IsSpecification(schema.m[key]) /\ schema.m[key].type = Derived =>
            SpecifiesBase(node_input.m[key], node_input'.m[key])]_vars

(***************************************************************************)
(* "All parameters involved in an expression have to be mandatory or have  *)
(* a default": in a schema that passed its check every expression can be   *)
(* evaluated, as soon as the parameters without expressions are valid.     *)
(***************************************************************************)
ExpressionsEvaluate ==
  last.call = "applySchema" /\ LoadSchema(last.schema, Lib) # Undefined =>
    LET schema == LoadSchema(last.schema, Lib)
        Plain == {key \in DOMAIN schema.m : IsSpecification(schema.m[key]) /\ ~HasExpression(schema.m[key])}
    IN (\A key \in Plain :
          ConformsToSpecification(Child(node_input, key), node_input, schema.m[key], schema, Lib))
       => \A key \in DOMAIN schema.m :
            HasExpression(schema.m[key]) =>
              EvalExpression(schema.m[key].mandatory, node_input, schema) # "error"

(***************************************************************************)
(* "compare: if both nodes are equal": a node that a schema accepts is     *)
(* equal to itself as a node of that type.                                 *)
(***************************************************************************)
EqualToItself ==
  last.call = "applySchema" /\ last.ok => Compare(node_input, node_input, Custom(last.schema), Lib)

(***************************************************************************)
(* path_input_: "path of the input YAML file (empty if set via setYaml())" *)
(* names the file that the input node was read from, whatever was done     *)
(* with the node since, unless that file could not be parsed: then the     *)
(* path is already the new one, and the node still the old one.            *)
(***************************************************************************)
PathNamesInput == path_input # NoPath => path_input = origin \/ content[path_input].t = "corrupt"

\* Written bare between brackets, the elements are read as what they are.
ReadsBack(node) == node = Undefined \/ Reading(node) = node

RECURSIVE Fillable(_, _), FillableFrom(_, _)

\* Parameters for which any template that follows the types will do.
FillableFrom(schema, lib) ==
  IF IsSpecification(schema)
    THEN \/ schema.value # Undefined
         \/ /\ Lowest(schema.type).k = "basic"
            /\ schema.options # Undefined => schema.options.s # <<>>
            /\ schema.type.k = "array" =>
                 /\ ReadsBack(schema.default)
                 /\ schema.options # Undefined => ReadsBack(schema.options.s[1])
         \/ /\ Lowest(schema.type).k = "custom" /\ schema.options = Undefined
            /\ Fillable(Lowest(schema.type).name, lib)
            /\ schema.mandatory # Bool(FALSE) => GenerateYaml(Lowest(schema.type).name, lib) # Null
    ELSE \/ schema.t = "scalar"
         \/ schema.t = "map" /\ \A key \in DOMAIN schema.m : FillableFrom(schema.m[key], lib)

Fillable(name, lib) == LoadSchema(name, lib) # Undefined /\ FillableFrom(LoadSchema(name, lib), lib)

(***************************************************************************)
(* A template is a valid input of the schema it was generated from: every  *)
(* parameter has a value of its type, arrays have the size of the type,    *)
(* and VALUE and OPTIONS are respected at all levels.  The exceptions are  *)
(* in Fillable: derived types, of which the user chooses one, OPTIONS of   *)
(* custom types, a custom type of which everything is fixed, empty         *)
(* OPTIONS, null leaves, and strings in sequences that need quotes.        *)
(***************************************************************************)
TemplateFits ==
  last.call = "setTemplate" /\ Fillable(last.schema, Lib) =>
    last.ok /\ Apply(node_input, Custom(last.schema), Lib).ok

=============================================================================
