------------------------------ MODULE MCServer ------------------------------
(***************************************************************************)
(* Instances of YamlServer for TLC.  Schema A has a parameter p and a      *)
(* parameter q, each in many forms, and one of them in a nested map; B is  *)
(* a custom type and the base of the derived type D; E is a base whose     *)
(* defaults D does not know.  Folder g2 has another schema A.              *)
(***************************************************************************)
EXTENDS YamlServer

CONSTANTS g1, g2, good, corrupt, absent, unflattenable

MCFolders == {g1, g2}
MCFiles == {good, corrupt, absent, unflattenable}
MCInts == {"0", "1", "2"}
MCBools == {"true", "false"}
MCSchemas == {"A", "B"}
MCLists == {<<g1>>}

One == Scalar("1")
Two == Scalar("2")
Word == Scalar("word")
Number == Basic("int")
Text == Basic("string")
Par(type, mandatory, default, value) == Spec_(type, "B", mandatory, default, value, Undefined)
Required(type) == Par(type, Bool(TRUE), Undefined, Undefined)
Optional(type, default) == Par(type, Bool(FALSE), default, Undefined)
Fixed(type, value) == Par(type, Bool(FALSE), Undefined, value)
OneOf(spec, options) == [spec EXCEPT !.options = Seq_(options)]

PForms == {Required(Number), Optional(Number, Undefined), Optional(Number, One), Optional(Number, Word),
           Fixed(Number, One), OneOf(Optional(Number, Two), <<One, Two>>), OneOf(Required(Number), <<Two>>),
           Required(Array(Number, 0))}
WhenOne == Expression("p", "1")
QForms == {Required(Text), Optional(Text, Word), Fixed(Text, Word),
           Par(Text, WhenOne, Undefined, Undefined), Par(Text, WhenOne, Word, Undefined),
           Optional(Array(Number, 2), Undefined), Optional(Custom("B"), Null),
           OneOf(Required(Custom("B")), <<Map("r" :> One), Null>>),
           Optional(Derived, Undefined), Required(Array(Derived, 0)), Optional(Custom("none"), Undefined)}

B == Map(("r" :> Optional(Number, One)) @@ ("s" :> Optional(Text, Undefined)))
D == Map(("r" :> Fixed(Number, Two)) @@ ("s" :> Optional(Text, Undefined)) @@ ("type" :> Required(Text))
         @@ ("e" :> Required(Number)))
Other == Map(("p" :> Required(Basic("bool"))) @@ ("m" :> Scalar("note")))

\* "x, y" is read as two elements, "null" is no string.
MCReread == ("x, y" :> <<Scalar("x"), Scalar("y")>>) @@ ("null" :> <<Null>>)
Bare == {Scalar("x, y"), Scalar("null")}

\* Schemas of which only the templates are interesting.
Generated ==
  {Optional(Array(Text, 1), Seq_(<<n>>)) : n \in Bare} \cup
  {OneOf(Required(Array(Text, 0)), <<Seq_(<<n, Word>>)>>) : n \in Bare \cup {Word}} \cup
  {OneOf(Required(Text), <<>>), Null, Required(Array(Custom("B"), 1)), Required(Array(Array(Custom("B"), 3), 0)),
   Required(Custom("V")), Optional(Array(Custom("V"), 2), Undefined), Optional(Array(Number, 2), Undefined),
   OneOf(Required(Array(Custom("B"), 0)), <<Seq_(<<Map("r" :> One)>>)>>)}
V == Map("r" :> Fixed(Number, One))

LibraryOf(A) == (g1 :> (("A" :> A) @@ ("B" :> B) @@ ("D" :> D) @@ ("V" :> V))) @@ (g2 :> ("A" :> Other))
MCLibraries ==
  {LibraryOf(Map(("p" :> p) @@ ("q" :> q))) : p \in PForms, q \in QForms}
  \cup {LibraryOf(Map(("p" :> p) @@ ("m" :> Map(("p" :> Optional(Number, Two)) @@ ("q" :> q))))) :
          p \in {Required(Number)}, q \in QForms}
  \cup {LibraryOf(Map("p" :> p)) : p \in Generated}

Pair(key, node) == IF node = Undefined THEN << >> ELSE key :> node
DerivedNodes == {Map("type" :> Scalar("D")), Map(("type" :> Scalar("D")) @@ ("e" :> One)),
                 Map(("type" :> Scalar("D")) @@ ("e" :> One) @@ ("r" :> One)), Map("e" :> One)}
QNodes == {Undefined, Null, Word, Seq_(<<One, Two>>), Seq_(<<One>>), Seq_(<<Word, One>>), Map("r" :> Two)}
          \cup DerivedNodes \cup {Seq_(<<n>>) : n \in DerivedNodes}
MCNodes == {Null, Word} \cup {Map(Pair("p", p) @@ Pair("q", q)) : p \in {Undefined, One, Word}, q \in QNodes}
           \cup {Map(("p" :> One) @@ Pair("m", m)) : m \in {Word, Null, Map("q" :> Word), Map("p" :> One)}}
MCContents ==
  {(good :> GoodFile(Map("p" :> Two))) @@ (corrupt :> CorruptFile) @@ (absent :> AbsentFile)
     @@ (unflattenable :> UnflattenableFile(Map("p" :> Word)))}

\* Schemas of which the code does not what its documentation says.
FewNodes == {Map("p" :> One), Map(<<>>)}
PlainLibrary == {LibraryOf(Map("p" :> Optional(Number, One)))}
DerivedDefault ==
  {LibraryOf(Map(("p" :> Required(Number)) @@ ("q" :> Optional(Derived, Map("r" :> Two)))))}
NestedDerived ==
  {LibraryOf(Map(("p" :> Required(Number)) @@ ("q" :> Required(Derived))))}
NestedNodes == {Map(("p" :> One) @@ ("q" :> n)) : n \in DerivedNodes}

=============================================================================
