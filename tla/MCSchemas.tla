----------------------------- MODULE MCSchemas -----------------------------
(***************************************************************************)
(* Instances of SchemaStack for TLC: three schemas, of which a is any of   *)
(* two parameters, b any of one, and c is good, wrong, or missing.         *)
(***************************************************************************)
EXTENDS SchemaStack, TLC

CONSTANTS a, b, c

MCNames == {a, b, c}
MCListing == <<b, a>>

Empty == Fields(<< >>)
One(node) == Fields(<<node>>)
MCInputs == [op : {"load", "generate"}, type : {a, b}, node : {Leaf}]
            \cup [op : {"apply"}, type : {a}, node : {Leaf, Empty, One(Empty), Fields(2 :> Empty)}]
            \cup {Request("apply", Malformed, Leaf), Request("validate", Trivial, Leaf)}
\* Of height 1 at most, so that MaxDepth > 3 * (1 + 1) is enough where nothing is cyclic.
MCNodes == {Leaf, Empty, One(Empty), Fields(2 :> Empty)}

Required(type) == Param(type, TRUE, None)
Optional(type, default) == Param(type, FALSE, default)
Forms(type) == {Required(type)} \cup {Optional(type, default) : default \in {None, Empty, One(Empty)}}

Pairs == {<<p, q>> : p \in Forms(b) \cup {Optional(Trivial, Leaf), Required(Malformed)},
                     q \in Forms(c) \cup {Optional(a, None), Required(Trivial)}}
Ones == {<<p>> : p \in Forms(a) \cup Forms(c) \cup {Optional(b, Empty), Optional(Malformed, Leaf)}}
Lasts == {<<>>, <<Required(Trivial)>>, <<Param(Trivial, TRUE, Leaf)>>, Missing}

MCLibraries == {(a :> x) @@ (b :> y) @@ (c :> z) :
                  x \in {<<>>} \cup Pairs, y \in {<<>>, Missing} \cup Ones, z \in Lasts}

=============================================================================
