------------------------------ MODULE TypeText ------------------------------
(***************************************************************************)
(* Types are texts: "int", "string[3][]", "derived[]", the name of a       *)
(* schema.  How they are taken apart (src/src/yaml_utils.cpp), how a node  *)
(* is checked against one (src/src/type_check.cpp, and applySchema in      *)
(* src/src/yaml_schema.cpp), and the values that stand for one in a        *)
(* template (getZeroString).                                               *)
(*                                                                         *)
(* A text is a sequence of tokens: brackets, digits and pieces of names.   *)
(* The scalars of nodes hold texts as well.                                *)
(***************************************************************************)
EXTENDS EigenConversion, SequencesExt

CONSTANTS Digit,      \* the tokens that are digits, and their values: [tokens -> 0..9]
          UlongMax,   \* the largest unsigned long
          Basics,     \* how each basic type reads texts: [names -> [texts -> values]]
          Strings,    \* the names of the string type
          Eigens,     \* the dimensions of each Eigen type: [names -> pairs]
          Zeros,      \* the zero values of basic types: [names -> texts]
          ZeroNumber, \* "0.0" in a matrix
          SizeNumber, \* the texts of the dimensions in the zero value of a dynamic matrix
          ZeroString  \* "whatever"

ASSUME UlongAssumption == UlongMax \in Nat

\* The first place of a token in a text, 0 if it is not there.
Find(text, token) == SelectInSeq(text, LAMBDA each : each = token)
Open(text) == Find(text, "[")
Close(text) == Find(text, "]")

\* Slip: the closing bracket is taken for a part of the size.
SizeText_closed(text) == SubSeq(text, Open(text) + 1, Close(text))
SizeText(text) == SubSeq(text, Open(text) + 1, Close(text) - 1)
SizeOf(digits) == FoldLeft(LAMBDA number, digit : 10 * number + Digit[digit], 0, digits)

\* isArrayType: whether it throws, whether it is true, and the size (0: not given).
MalformedArray(text) ==
  \/ (Open(text) = 0) # (Close(text) = 0)
  \/ Open(text) # 0 /\ (\/ Close(text) < Open(text)
                        \/ ~(Range(SizeText(text)) \subseteq DOMAIN Digit)
                        \/ SizeOf(SizeText(text)) > UlongMax)
IsArray(text) == Open(text) # 0
Size(text) == SizeOf(SizeText(text))

\* getLowerElementType and getLowestElementType, of a text that has both brackets or none.
Lower(text) ==
  IF IsArray(text) THEN SubSeq(text, 1, Open(text) - 1) \o SubSeq(text, Close(text) + 1, Len(text)) ELSE text
Lowest(text) == IF IsArray(text) THEN SubSeq(text, 1, Open(text) - 1) ELSE text

IsDerivedType(text) == Lowest(text) = <<"derived">>

\* Slip: the brackets after "derived" are lost.
CheckType_base(text, base) == IF text # << >> /\ text[1] = "derived" THEN base ELSE text

\* getCheckType: what follows "derived" is appended to the base, whatever it is.
CheckType(text, base) == IF text # << >> /\ text[1] = "derived" THEN base \o Tail(text) ELSE text

-----------------------------------------------------------------------------
RECURSIVE IsWellFormed(_), CheckNodeAs(_, _, _)

\* isWellFormedType
IsWellFormed(text) == ~MalformedArray(text) /\ (IsArray(text) => IsWellFormed(Lower(text)))

\* Slip: a sequence may be longer than its type says.
CheckSizes_least(node, text) == IsArray(text) => node.t = "seq" /\ Size(text) <= Len(node.s)

\* checkSizes, of a text of which isArrayType does not throw.
CheckSizes(node, text) == IsArray(text) => node.t = "seq" /\ Size(text) \in {0, Len(node.s)}

\* The first answer that is not "true" ends a loop that returns early.
FirstNotTrue(answers) ==
  LET i == SelectInSeq(answers, LAMBDA answer : answer # "true") IN IF i = 0 THEN "true" ELSE answers[i]

\* CHECK_TYPE_CASE: node.as<T>() of a known type throws or is good.  A null node
\* is read as the string "null".
ReadAs(node, name, known) ==
  CASE name \notin known -> "false"
    [] name \in known /\ name \in Strings -> IF node.t \in {"scalar", "null"} THEN "true" ELSE "throw"
    [] name \in known /\ name \in DOMAIN Basics ->
         IF node.t = "scalar" /\ node.v \in DOMAIN Basics[name] THEN "true" ELSE "throw"
    [] OTHER -> IF Decode(node, Eigens[name][1], Eigens[name][2]).ok THEN "true" ELSE "throw"

Trivials == DOMAIN Basics \cup Strings \cup DOMAIN Eigens

\* isTrivialType, and with fewer names isBasicType, isStringType and isEigenType:
\* the null node is tried.
IsKnown(text, known) == IsWellFormed(text) /\ CheckNodeAs(Null, text, known) # "false"
IsTrivialType(text) == IsKnown(text, Trivials)
IsStringType(text) == IsKnown(text, Strings)

\* checkNodeAs, and with fewer names checkNodeAsBasic, -String and -Eigen.
CheckNodeAs(node, text, known) ==
  CASE MalformedArray(text) -> "throw"
    [] ~MalformedArray(text) /\ ~CheckSizes(node, text) -> "false"
    [] ~MalformedArray(text) /\ CheckSizes(node, text) /\ IsArray(text) ->
         IF IsKnown(Lowest(text), known)
           THEN FirstNotTrue([i \in DOMAIN node.s |-> CheckNodeAs(node.s[i], Lower(text), known)])
           ELSE "false"
    [] OTHER -> ReadAs(node, text, known)

TryNodeAs(node, text) == CheckNodeAs(node, text, Trivials) = "true"

-----------------------------------------------------------------------------
RECURSIVE ApplySchema(_, _), ApplyDerived(_, _, _), ZeroNode(_), Compare(_, _, _), CompareAuto(_, _)

\* Slip: a later element of a sequence makes up for an earlier one.
AllOf_last(answers) ==
  CASE "throw" \in Range(answers) -> "throw"
    [] OTHER -> IF answers = << >> THEN "true" ELSE answers[Len(answers)]

\* A loop that looks at all elements, until one throws.
AllOf(answers) ==
  CASE "throw" \in Range(answers) -> "throw"
    [] "throw" \notin Range(answers) /\ "false" \in Range(answers) -> "false"
    [] OTHER -> "true"

\* applySchema, where no schema has the name of a type that is not trivial.
ApplySchema(node, text) ==
  CASE MalformedArray(text) -> "throw"
    [] ~MalformedArray(text) /\ IsArray(text) ->
         IF node.t # "seq" THEN "false"
         ELSE AllOf(<<Answer(Size(text) \in {0, Len(node.s)})>>
                    \o [i \in DOMAIN node.s |-> ApplySchema(node.s[i], Lower(text))])
    [] OTHER -> Answer(/\ IsTrivialType(text) /\ TryNodeAs(node, text)
                       /\ ~(node.t = "null" /\ IsStringType(text)))

\* applySchemaDerived: the type that the input names is a text like any other.
ApplyDerived(node, text, base) ==
  CASE MalformedArray(text) -> "throw"
    [] ~MalformedArray(text) /\ IsArray(text) ->
         IF node.t # "seq" THEN "false"
         ELSE AllOf(<<Answer(Size(text) \in {0, Len(node.s)})>>
                    \o [i \in DOMAIN node.s |-> ApplyDerived(node.s[i], Lower(text), base)])
    [] OTHER ->
         IF node.t = "map" /\ "type" \in DOMAIN node.m /\ node.m["type"].t \in {"scalar", "null"}
         THEN LET derived == IF node.m["type"].t = "null" THEN <<"null">> ELSE node.m["type"].v
              IN AllOf(<<ApplySchema(node, derived), ApplySchema(node, base)>>)
         ELSE "false"

\* Slip: values are equal when their texts are.
ReadAlike_text(m, n, name) == m = n

\* COMPARE_TYPE: equal as the values that are read.
ReadAlike(m, n, name) ==
  CASE name \in DOMAIN Basics -> Basics[name][m.v] = Basics[name][n.v]
    [] name \in Strings -> m = n
    [] OTHER -> LET As(node) == Decode(node, Eigens[name][1], Eigens[name][2])
                    Numbers(matrix) == [ij \in DOMAIN matrix.at |-> Number[matrix.at[ij].v]]
                IN /\ As(m).rows = As(n).rows /\ As(m).cols = As(n).cols
                   /\ Numbers(As(m)) = Numbers(As(n))

\* compare, of values of the types that need no schema: equal when they are read alike.
Compare(m, n, text) ==
  CASE m.t = "null" \/ n.t = "null" -> "false"
    [] m.t # "null" /\ n.t # "null" /\ MalformedArray(text) -> "throw"
    [] m.t # "null" /\ n.t # "null" /\ ~MalformedArray(text) /\ IsArray(text) ->
         IF CheckSizes(m, text) /\ CheckSizes(n, text) /\ Len(m.s) = Len(n.s)
         THEN FirstNotTrue([i \in DOMAIN m.s |-> Compare(m.s[i], n.s[i], Lower(text))])
         ELSE "false"
    [] OTHER -> Answer(/\ IsTrivialType(text) /\ TryNodeAs(m, text) /\ TryNodeAs(n, text)
                       /\ ReadAlike(m, n, text))

\* compareNodesAutoType of scalars: as integers, else as doubles, else as strings.
ScalarsAlike(m, n) ==
  LET Both(name) == {m.v, n.v} \subseteq DOMAIN Basics[name]
      Alike(name) == Basics[name][m.v] = Basics[name][n.v]
  IN CASE Both(<<"int">>) -> Alike(<<"int">>)
       [] ~Both(<<"int">>) /\ Both(<<"double">>) -> Alike(<<"double">>)
       [] OTHER -> m.v = n.v

\* compareNodesAutoType
CompareAuto(m, n) ==
  /\ m.t = n.t
  /\ m.t = "scalar" => ScalarsAlike(m, n)
  /\ m.t = "seq" => Len(m.s) = Len(n.s) /\ \A i \in DOMAIN m.s : CompareAuto(m.s[i], n.s[i])
  /\ m.t = "map" => DOMAIN m.m = DOMAIN n.m /\ \A key \in DOMAIN m.m : CompareAuto(m.m[key], n.m[key])

\* Slip: the last element is left out.
ZeroSize_less(text) == IF Size(text) = 0 THEN 3 ELSE Size(text) - 1
ZeroSize(text) == IF Size(text) = 0 THEN 3 ELSE Size(text)

ZeroMatrix(rows, cols) ==
  LET Zeroes(number) == Seq_([i \in 1..number |-> Scalar(ZeroNumber)])
  IN IF rows = Dynamic /\ cols = Dynamic
       THEN Seq_(<<Seq_(<<Scalar(SizeNumber[3]), Scalar(SizeNumber[2])>>), Zeroes(6)>>)
       ELSE Zeroes((IF rows = Dynamic THEN 3 ELSE rows) * cols)

\* getZeroString, of a well-formed type, read again as YAML.
ZeroNode(text) ==
  CASE IsArray(text) -> Seq_([i \in 1..ZeroSize(text) |-> ZeroNode(Lower(text))])
    [] ~IsArray(text) /\ text \in DOMAIN Zeros -> Scalar(Zeros[text])
    [] ~IsArray(text) /\ text \in Strings -> Scalar(ZeroString)
    [] ~IsArray(text) /\ text \in DOMAIN Eigens -> ZeroMatrix(Eigens[text][1], Eigens[text][2])
    [] OTHER -> Scalar(<<"type unknown!">>)

=============================================================================
