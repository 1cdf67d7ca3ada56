------------------------------ MODULE MCMerge ------------------------------
(***************************************************************************)
(* Instances of NodeMerge for TLC: every value of a few scalars, short     *)
(* sequences, also of a map, and maps of at most two keys, one of them an  *)
(* index.                                                                  *)
(***************************************************************************)
EXTENDS NodeMerge

MCKeys == {"k"}
One == Scalar("one")
Two == Scalar("two")
MapsOver(keys, nodes) == {Map(m) : m \in UNION {[d -> nodes] : d \in (SUBSET keys) \ {{}}}}

YamlLeaves == {Null, One, Two, Seq_(<<>>), Seq_(<<One>>), Seq_(<<Two, One>>), Seq_(<<Map("a" :> One)>>)}
YamlInner == {Null, One, Seq_(<<Two>>), Map("a" :> One), Map("b" :> Two)}
MCYamlValues == YamlLeaves \cup MapsOver({"a", "0"}, YamlInner) \cup MapsOver({"a", "b"}, {One, Seq_(<<Two>>)})

\* Two specifications, one with an optional key; a map with only the optional
\* key, which checkSchema would reject; namespaces of them.
SpecOne == Map("R" :> One)
SpecTwo == Map([key \in {"R", "O"} |-> Two])
Partial == Map("O" :> One)
SchemaLeaves == {Null, One, Seq_(<<One>>), SpecOne, SpecTwo, Partial}
MCSchemaValues == SchemaLeaves \cup MapsOver({"a", "b"}, SchemaLeaves \cup {Map("a" :> SpecOne)})

=============================================================================
