----------------------------- MODULE MCFlatten -----------------------------
(***************************************************************************)
(* Instances of Flatten for TLC: input files x in folder a and y and z in  *)
(* folder b, whose path is a dotted one, and schemas s in c and r in b.    *)
(***************************************************************************)
EXTENDS PastedText

MCFolder == {"a", "b", "c"}
MCDotted == {"b"}
MCSchemaFolders == <<"c", "b">>
MCSchemaNames == {"s", "r", "none.schema"}
X == <<"a", "x">>
Y == <<"b", "y">>
Z == <<"b", "z">>
S == <<"c", "s">>
R == <<"b", "r">>

\* Parts of documents, each one entry or several.  z is named relative to the folder of
\* the follower, y by an absolute path.
YamlEntries(f) ==
  {<<<<"p", Value(f, TRUE)>>>>, <<<<"p", Value(f, FALSE)>>>>, <<<<"q", Seq_(<<Element(f, TRUE)>>)>>>>,
   <<<<"m", Doc(<<<<"p", Value(f, TRUE)>>>>)>>>>, <<<<"m", Doc(<<<<"follow", ToFile("z")>>>>)>>>>,
   <<<<"q", Seq_(<<Doc(<<<<"follow", ToFile("z")>>>>)>>)>>>>,
   <<<<"follow", ToFile("z")>>>>, <<<<"follow", ToFileIn("b", "y")>>, <<"follow", ToFileIn("b", "z")>>>>}
Docs(parts, n) ==
  {Doc(FlattenSeq(text)) : text \in {t \in SeqOf(parts, n) :
     \A i, j \in DOMAIN t : t[i][1][1] = t[j][1][1] /\ t[i][1][1] # "follow" => i = j}}

\* z adds a map to the sequences of the others.
ZDocs ==
  {Doc(text) : text \in (YamlEntries(Z) \cup {<<>>, <<<<"q", Doc(<<<<"k", Value(Z, TRUE)>>>>)>>>>})
     \ {<<<<"p", Value(Z, FALSE)>>>>, <<<<"q", Seq_(<<Doc(<<<<"follow", ToFile("z")>>>>)>>)>>>>,
        <<<<"follow", ToFileIn("b", "y")>>, <<"follow", ToFileIn("b", "z")>>>>}}

Spec1(f) == Doc(<<<<"R", Value(f, FALSE)>>>>)
SchemaEntries(f) ==
  {<<<<"p", Spec1(f)>>>>, <<<<"m", Doc(<<<<"p", Spec1(f)>>>>)>>>>, <<<<"m", Doc(<<<<"follow", ToFile("r")>>>>)>>>>,
   <<<<"follow", ToFile("r")>>>>, <<<<"follow", ToFile("none.schema")>>>>}

\* Input files in all shapes and one schema, or the other way round.
YamlDisks ==
  {(X :> x) @@ (Y :> y) @@ (Z :> z) @@ (S :> Doc(<<>>)) :
     x \in Docs(YamlEntries(X), 2), y \in Docs(YamlEntries(Y), 2), z \in ZDocs}
SchemaDisks ==
  {(X :> Doc(<<<<"follow", ToFile("s")>>>>)) @@ (S :> s) @@ (R :> r) :
     s \in Docs(SchemaEntries(S), 2), r \in Docs(SchemaEntries(R), 2)}
MCDisks == YamlDisks \cup SchemaDisks

\* A schema that follows an input file next to it.
OwnFolderDisks ==
  {(S :> Doc(<<<<"follow", ToFile("r")>>>>)) @@ (R :> Doc(<<<<"follow", ToFile("z")>>>>))
     @@ (Z :> Doc(<<<<"p", Value(Z, TRUE)>>>>))}

=============================================================================
