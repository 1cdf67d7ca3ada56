----------------------------- MODULE TypeCalls -----------------------------
(***************************************************************************)
(* Calls of the functions on types, one after the other, with one type     *)
(* and a node that is checked against it, compared, converted, or made     *)
(* the zero value of the type.                                             *)
(***************************************************************************)
EXTENDS TypeText, EigenCalls

CONSTANTS Types, \* texts of types
          Bases, \* texts of BASE
          Others \* nodes that input nodes are compared with

VARIABLES type, base, \* TYPE and BASE of a specification
          other       \* the node that the input node is compared with

vars == <<type, base, node, other, call, answer>>

Init ==
  /\ InitConversions /\ type \in Types /\ base \in Bases /\ other = Null

Answered(function, with, what) ==
  /\ call' = function /\ answer' = what /\ other' = with
  /\ UNCHANGED base

CallTryNodeAs ==
  /\ Answered("tryNodeAs", Null, Answer(TryNodeAs(node, type)))
  /\ UNCHANGED <<type, node>>

CallApplySchema ==
  /\ Answered("applySchema", Null, ApplySchema(node, type))
  /\ UNCHANGED <<type, node>>

\* checkSchema has looked at the type before applySchemaDerived is called.
CallApplyDerived ==
  /\ (Open(type) = 0 <=> Close(type) = 0) /\ IsDerivedType(type)
  /\ Answered("applySchemaDerived", Null, ApplyDerived(node, type, base))
  /\ UNCHANGED <<type, node>>

\* VALUE, DEFAULT and OPTIONS are checked as this type, and so are the next nodes here.
CallGetCheckType ==
  /\ Answered("getCheckType", Null, "true")
  /\ type' = CheckType(type, base)
  /\ UNCHANGED node

CallCompare(with) ==
  /\ Answered("compare", with, Compare(node, with, type))
  /\ UNCHANGED <<type, node>>

\* The zero value goes into a template, and the template becomes the input.
CallGetZeroString ==
  /\ IF IsWellFormed(type)
       THEN Answered("getZeroString", Null, "true") /\ node' = ZeroNode(type)
       ELSE Answered("getZeroString", Null, "throw") /\ UNCHANGED node
  /\ UNCHANGED type

\* A matrix or a quaternion is read, and written back.
CallConvert == Conversion /\ other' = Null /\ UNCHANGED <<type, base>>

Next ==
  \/ CallTryNodeAs
  \/ CallApplySchema
  \/ CallApplyDerived
  \/ CallGetCheckType
  \/ \E with \in Others : CallCompare(with)
  \/ CallGetZeroString
  \/ CallConvert

Spec == Init /\ [][Next]_vars

-----------------------------------------------------------------------------
(***************************************************************************)
(* What a type says, without taking it apart one dimension at a time: the  *)
(* brackets alternate, with a size or nothing in each pair.                *)
(***************************************************************************)
Brackets(text) == {i \in DOMAIN text : text[i] \in {"[", "]"}}
Before(text, i) == {j \in Brackets(text) : j < i}
InBrackets(text, i) == Cardinality(Before(text, i)) % 2 = 1 /\ i \notin Brackets(text)

\* Where the k-th dimension of a text begins and ends, and its size.
Opens(text) == SetToSortSeq({i \in DOMAIN text : text[i] = "["}, <)
Closes(text) == SetToSortSeq({i \in DOMAIN text : text[i] = "]"}, <)
DimensionText(text, k) == SubSeq(text, Opens(text)[k] + 1, Closes(text)[k] - 1)

(***************************************************************************)
(* A zero that is written as a size.  The code takes it for no size at     *)
(* all, the comment on lengths and the message of the exception say that   *)
(* it throws: the properties leave such texts open.                        *)
(***************************************************************************)
WrittenZero(text) ==
  \E i, j \in DOMAIN text :
    /\ i + 1 < j /\ text[i] = "[" /\ text[j] = "]"
    /\ \A k \in i + 1..j - 1 : text[k] \in DOMAIN Digit /\ Digit[text[k]] = 0

Paired(text) ==
  /\ ~WrittenZero(text)
  /\ Cardinality(Brackets(text)) % 2 = 0
  /\ \A i \in Brackets(text) : text[i] = IF Cardinality(Before(text, i)) % 2 = 0 THEN "[" ELSE "]"
  /\ \A i \in DOMAIN text : InBrackets(text, i) => text[i] \in DOMAIN Digit
  /\ \A k \in DOMAIN Opens(text) : SizeOf(DimensionText(text, k)) <= UlongMax

\* A name and then its dimensions.
Regular(text) ==
  Paired(text) /\ \A i \in DOMAIN text : Before(text, i) # {} => i \in Brackets(text) \/ InBrackets(text, i)
Dimensions(text) == [k \in DOMAIN Opens(text) |-> SizeOf(DimensionText(text, k))]
Name(text) == SubSeq(text, 1, Cardinality({i \in DOMAIN text \ Brackets(text) : Before(text, i) = {}}))

RECURSIVE HasShape(_, _, _), Leaves(_, _), ReadsTo(_, _)

\* A node of these dimensions, and what is innermost is good for the name.
HasShape(n, dimensions, name) ==
  IF dimensions = << >> THEN ReadAs(n, name, Trivials) = "true"
  ELSE /\ n.t = "seq" /\ Head(dimensions) \in {0, Len(n.s)}
       /\ \A i \in DOMAIN n.s : HasShape(n.s[i], Tail(dimensions), name)

\* The nodes at a depth.
Leaves(n, depth) ==
  IF depth = 0 \/ n.t # "seq" THEN {n} ELSE UNION {Leaves(n.s[i], depth - 1) : i \in DOMAIN n.s}

(***************************************************************************)
(* tryNodeAs takes a node for an array of a trivial type exactly when it   *)
(* has the dimensions in the order in which they are written and all that  *)
(* is innermost can be read as the type.  A text that is no such type      *)
(* accepts at most sequences with nothing in them.  Nothing is said of a   *)
(* zero that is written as a size.                                         *)
(***************************************************************************)
ShapeDecides ==
  call = "tryNodeAs" /\ ~WrittenZero(type) =>
    IF Regular(type)
      THEN answer = "true" <=> Name(type) \in Trivials /\ HasShape(node, Dimensions(type), Name(type))
      ELSE answer = "true" => Leaves(node, 3) = {}

(***************************************************************************)
(* The two recursions over the text of a type agree: applySchema accepts   *)
(* what tryNodeAs accepts, but for a null in the place of a string.        *)
(***************************************************************************)
ApplyAgrees ==
  call = "applySchema" /\ Regular(type) /\ Name(type) \in Trivials =>
    (answer = "true" <=>
       /\ TryNodeAs(node, type)
       /\ Name(type) \in Strings => Null \notin Leaves(node, Len(Dimensions(type))))

(***************************************************************************)
(* An exception that leaves applySchema is about a text whose brackets or  *)
(* sizes are not in order, in the schema or under the key type of the      *)
(* input.                                                                  *)
(***************************************************************************)
ThrowsIfMalformed ==
  answer = "throw" =>
    \/ ~Paired(type)
    \/ /\ call = "applySchemaDerived"
       /\ \E n \in Leaves(node, Len(Dimensions(type))) : ~Paired(n.m["type"].v) \/ ~Paired(base)

(***************************************************************************)
(* isDerivedType and getCheckType speak of the same types: what is checked *)
(* against BASE is an array of the same dimensions of BASE.  (But for the  *)
(* names of schemas that begin with "derived".)                            *)
(***************************************************************************)
CheckTypeOfDerived ==
  [][call' = "getCheckType" /\ Regular(type) /\ (Len(Name(type)) > 1 => Name(type)[1] # "derived") =>
       /\ Dimensions(type') = Dimensions(type)
       /\ Name(type') = IF IsDerivedType(type) THEN base ELSE Name(type)]_vars

(***************************************************************************)
(* The value that stands for a type in a template is valid for the type.   *)
(***************************************************************************)
ZeroFits ==
  call = "getZeroString" /\ Regular(type) /\ Name(type) \in Trivials =>
    answer = "true" /\ TryNodeAs(node, type) /\ ApplySchema(node, type) = "true"

\* What a node is read as: an array of what its elements are read as.
ReadsTo(n, t) ==
  LET name == Name(t)
  IN IF IsArray(t) THEN [i \in DOMAIN n.s |-> ReadsTo(n.s[i], Lower(t))]
     ELSE CASE name \in DOMAIN Basics -> Basics[name][n.v]
            [] name \in DOMAIN Eigens ->
                 LET read == Indexed(n)
                     values == IF read.s # << >> /\ read.s[1].t = "seq" THEN read.s[2].s ELSE read.s
                     rows == Decode(n, Eigens[name][1], Eigens[name][2]).rows
                 IN <<rows, [i \in DOMAIN values |-> Number[values[i].v]]>>
            [] OTHER -> n.v

(***************************************************************************)
(* Two nodes are equal as a type when they read to the same value: the     *)
(* innermost scalars, or the matrices whatever their notation.  Equal      *)
(* numbers, characters and strings are equal for compareNodesAutoType too, *)
(* which is told no type.  (Those equal as bool, "yes" and "true", are     *)
(* not: Basics without bool.)                                              *)
(***************************************************************************)
EqualAsRead ==
  call = "compare" /\ Regular(type) /\ Name(type) \in Trivials =>
    /\ answer = "true" <=>
         /\ \A n \in {node, other} : /\ HasShape(n, Dimensions(type), Name(type))
                                     /\ Null \notin Leaves(n, Len(Dimensions(type)))
         /\ ReadsTo(node, type) = ReadsTo(other, type)
    /\ answer = "true" /\ Name(type) \in DOMAIN Basics \cup Strings =>
         CompareAuto(node, other) /\ CompareAuto(other, node)

=============================================================================
