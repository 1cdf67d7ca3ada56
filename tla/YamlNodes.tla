----------------------------- MODULE YamlNodes -----------------------------
(***************************************************************************)
(* How a node is added to another one while files are flattened:           *)
(* addNodeYaml for input files and addNodeSchema for schemas               *)
(* (src/src/yaml_utils.cpp, src/src/yaml_schema.cpp).                      *)
(*                                                                         *)
(* Exceptions are values: Thrown is what an addition that throws returns,  *)
(* and what every caller passes on.  The node that was being built is      *)
(* lost with the exception, since it is a local of flattenMap.             *)
(*                                                                         *)
(* Of the reserved keys, "R" stands for all required ones together, which  *)
(* make a map a specification, and "O" for those that are not required.    *)
(***************************************************************************)
EXTENDS YamlTree, SequencesExt

CONSTANT Height  \* bound: how many keys lead from the root of a node to what is deepest in it

ASSUME HeightAssumption == Height \in Nat

Thrown == [t |-> "thrown"]

ReservedKeys == {"R", "O"}
IsSpecification(node) == node.t = "map" /\ "R" \in DOMAIN node.m
HasAnyReservedKey(node) == node.t = "map" /\ DOMAIN node.m \cap ReservedKeys # {}

\* Slip: the elements replace the ones that are there.
PushBack_replace(node, elements) == Seq_(elements)

\* node.push_back for each of the elements.
PushBack(node, elements) ==
  CASE elements = <<>> -> node
    [] elements # <<>> /\ node.t = "null" -> Seq_(elements)
    [] elements # <<>> /\ node.t = "seq" -> Seq_(node.s \o elements)
    [] OTHER -> Thrown

\* Slips: the flag gets lost on the way; the value that is there stays.
Replace_always(old, value, override) == value
Replace_keep(old, value, override) == IF override THEN old ELSE Thrown

\* What is there is replaced, with 'override'.
Replace(old, value, override) == IF override THEN value ELSE Thrown

-----------------------------------------------------------------------------
\* Slip: an exception is caught and what was being added is kept.
AddChildren_swallow(node, children, inner) ==
  Map([key \in DOMAIN children |-> IF key \in DOMAIN Children(node)
                                     THEN inner[<<Children(node)[key], children[key]>>]
                                     ELSE children[key]] @@ Children(node))

(***************************************************************************)
(* Children are added one after the other: a key that is new gets its      *)
(* value, and what becomes of one that exists is inner, of what is there   *)
(* and what is added.  No two of them have the same key, so none sees what *)
(* another one did.                                                        *)
(***************************************************************************)
AddChildren(node, children, inner) ==
  LET there == Children(node)
      added == [key \in DOMAIN children |-> IF key \in DOMAIN there
                                              THEN inner[<<there[key], children[key]>>]
                                              ELSE children[key]]
  IN CASE DOMAIN children = {} -> node
       [] DOMAIN children # {} /\ (node.t = "scalar" \/ \E key \in DOMAIN children : added[key] = Thrown) ->
            Thrown
       [] OTHER -> Map([key \in DOMAIN there \cup DOMAIN children |->
                          IF key \in DOMAIN children THEN added[key] ELSE there[key]])

\* The case of addNodeYaml in which the key exists.
MergeYaml(old, value, override, inner) ==
  CASE value.t = "scalar" -> Replace(old, value, override)
    [] value.t = "seq" -> PushBack(old, value.s)
    [] value.t = "map" -> AddChildren(old, value.m, inner)
    [] OTHER -> Thrown

(***************************************************************************)
(* The case of addNodeSchema in which the key exists.  Only the children   *)
(* of a map are added to a map: a scalar or null value is dropped, and an  *)
(* element of a sequence has no key.                                       *)
(***************************************************************************)
MergeSchema(old, value, override, inner) ==
  CASE IsSpecification(old) \/ old.t \in {"scalar", "seq"} -> Replace(old, value, override)
    [] ~IsSpecification(old) /\ HasAnyReservedKey(old) -> Thrown
    [] OTHER -> CASE value.t = "map" -> AddChildren(old, value.m, inner)
                  [] value.t = "seq" /\ value.s # <<>> -> Thrown
                  [] OTHER -> old

Merge(old, value, override, is_schema, inner) ==
  IF is_schema THEN MergeSchema(old, value, override, inner) ELSE MergeYaml(old, value, override, inner)

-----------------------------------------------------------------------------
\* What is in both nodes at the same place, level by level; nothing is looked for in
\* what is added unless it is a map.
Shared(old, value) == IF value.t = "map" THEN DOMAIN Children(old) \cap DOMAIN value.m ELSE {}
PairLevels(old, value) ==
  LET level[h \in 0..Height] ==
        IF h = 0 THEN {<<old, value>>}
        ELSE UNION {{<<Children(x[1])[key], x[2].m[key]>> : key \in Shared(x[1], x[2])} : x \in level[h - 1]}
  IN level
Pairs(old, value) == UNION {PairLevels(old, value)[h] : h \in 0..Height}

\* The children of another node are added: the loops of addNodeYaml, addNodeSchema
\* and insertNodes, with the recursion.
Merged(node, children, override, is_schema) ==
  LET merged[x \in Pairs(node, Map(children))] == Merge(x[1], x[2], override, is_schema, merged)
  IN merged
AddMap(node, children, override, is_schema) ==
  AddChildren(node, children, Merged(node, children, override, is_schema))

Entry(key, value) == [k \in {key} |-> value]

\* addNodeYaml, up to the treatment of relative paths.
AddNodeYaml(node, key, value, override) == AddMap(node, Entry(key, value), override, FALSE)

\* addNodeSchema; nobody gives it a parent_path.
AddNodeSchema(node, key, value, override) == AddMap(node, Entry(key, value), override, TRUE)

-----------------------------------------------------------------------------
\* What is looked into: everything, the elements of a sequence under their indices;
\* maps alone; or maps that are no specifications.
Inside(n, how) ==
  CASE how = "nodes" -> Children(n)
    [] how = "maps" /\ n.t = "map" -> n.m
    [] how = "namespaces" /\ n.t = "map" /\ ~IsSpecification(n) -> n.m
    [] OTHER -> << >>

\* Where something stands in a node and what it is, level by level.
Levels(n, how) ==
  LET level[h \in 0..(Height + 1)] ==
        IF h = 0 THEN {<< <<>>, n >>}
        ELSE UNION {{<<Append(x[1], key), Inside(x[2], how)[key]>> : key \in DOMAIN Inside(x[2], how)} :
                      x \in level[h - 1]}
  IN level
Places(n, how) == UNION {Levels(n, how)[h] : h \in 0..Height}

\* An exception is never stored in a tree, and nothing is deeper than Height.
IsNode(n) == n.t \in {"null", "scalar", "seq", "map"} /\ (n.t = "seq" => n.s \in Seq(Range(n.s)))
IsTree(n) ==
  /\ \A x \in Places(n, "nodes") : IsNode(x[2])
  /\ Levels(n, "nodes")[Height + 1] = {}

=============================================================================
