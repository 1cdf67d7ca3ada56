-------------------------- MODULE EigenConversion --------------------------
(***************************************************************************)
(* The conversions between YAML nodes and Eigen matrices and quaternions   *)
(* (src/include/yaml-schema-cpp/yaml_conversion.hpp).                      *)
(*                                                                         *)
(* A matrix is read from a flat sequence of its values, row after row, or  *)
(* from a sequence of two sequences, the dimensions and the values.  The   *)
(* text of a scalar stands for its number, if it is one.                   *)
(***************************************************************************)
EXTENDS YamlTree, Sequences, FiniteSets

CONSTANTS Number,   \* the number that a text stands for: [texts -> Nat]
          UintMod,  \* 2^w, for an unsigned int of w bits
          Dynamic   \* Eigen::Dynamic, in the place of a dimension

ASSUME NumberAssumption == \A text \in DOMAIN Number : Number[text] \in Nat
ASSUME UintAssumption == UintMod \in Nat \ {0}
ASSUME DynamicAssumption == Dynamic \notin Nat

\* The outcome of decode: a matrix, or false or an exception, of which as<>()
\* makes an exception in either case.
Rejected == [ok |-> FALSE]
Matrix(rows, cols, at) == [ok |-> TRUE, rows |-> rows, cols |-> cols, at |-> at]

\* What a function answers that is true or false (or throws).
Answer(holds) == IF holds THEN "true" ELSE "false"

\* node.as<unsigned int>() and node.as<int>() do not throw.
IsNumber(node) == node.t = "scalar" /\ node.v \in DOMAIN Number
IsUint(node) == IsNumber(node) /\ Number[node.v] < UintMod
IsInt(node) == IsNumber(node) /\ Number[node.v] < UintMod \div 2

\* A product of two unsigned ints, or of two dimensions that is cast to one.
Product(a, b) == (a * b) % UintMod

\* Slip: column after column.
Position_columns(i, j, rows, cols) == (j - 1) * rows + i
Position(i, j, rows, cols) == (i - 1) * cols + j

\* Slip: the values that are there are put into the matrix.
Fill_lenient(rows, cols, values) ==
  IF \A k \in DOMAIN values : IsNumber(values[k])
  THEN Matrix(rows, cols, [ij \in (1..rows) \X (1..cols) |->
                             LET k == Position(ij[1], ij[2], rows, cols)
                             IN IF k \in DOMAIN values THEN values[k] ELSE Null])
  ELSE Rejected

\* The matrix is filled row after row; a value that is missing or no number throws.
Fill(rows, cols, values) ==
  IF \A i \in 1..rows, j \in 1..cols :
       LET k == Position(i, j, rows, cols) IN k \in DOMAIN values /\ IsNumber(values[k])
  THEN Matrix(rows, cols, [ij \in (1..rows) \X (1..cols) |-> values[Position(ij[1], ij[2], rows, cols)]])
  ELSE Rejected

\* The last check of the sizes, before the matrix is filled.
Sized(rows, cols, values) ==
  IF Len(values) = Product(rows, cols) THEN Fill(rows, cols, values) ELSE Rejected

Given(dimension, static) == static \in {Dynamic, dimension}

\* "sizes given by YAML"
DecodeGiven(node, rows, cols) ==
  IF /\ Len(node.s) = 2 /\ Len(node.s[1].s) = 2 /\ node.s[2].t = "seq"
     /\ \A i \in 1..2 : IsUint(node.s[1].s[i]) /\ IsInt(node.s[1].s[i])
     /\ LET r == Number[node.s[1].s[1].v]
            c == Number[node.s[1].s[2].v]
        IN Len(node.s[2].s) = Product(r, c) /\ Given(r, rows) /\ Given(c, cols)
  THEN Sized(Number[node.s[1].s[1].v], Number[node.s[1].s[2].v], node.s[2].s)
  ELSE Rejected

\* "sizes deduced"
DecodeDeduced(node, rows, cols) ==
  CASE rows = Dynamic /\ cols = Dynamic -> Rejected
    [] rows = Dynamic /\ cols # Dynamic ->
         IF Len(node.s) % cols = 0 THEN Sized(Len(node.s) \div cols, cols, node.s) ELSE Rejected
    [] rows # Dynamic /\ cols = Dynamic ->
         IF Len(node.s) % rows = 0 THEN Sized(rows, Len(node.s) \div rows, node.s) ELSE Rejected
    [] OTHER -> Sized(rows, cols, node.s)

\* "Special case empty vector/matrix"
DecodeEmpty(rows, cols) ==
  LET Resized(static) == IF static = Dynamic THEN 0 ELSE static
  IN IF Dynamic \in {rows, cols} THEN Sized(Resized(rows), Resized(cols), << >>) ELSE Rejected

\* A map from indices is read as the sequence: node[i] finds the key i.
Indexed(node) ==
  LET n == Cardinality(DOMAIN node.m)
  IN IF node.t = "map" /\ n > 0 /\ DOMAIN node.m = {IndexKey[i] : i \in 1..n}
       THEN Seq_([i \in 1..n |-> node.m[IndexKey[i]]])
       ELSE node

\* decode, of a matrix type with these dimensions.  Of a node that is no sequence
\* node[0] throws, or its Type().
DecodeSequence(node, rows, cols) ==
  CASE node.t # "seq" -> Rejected
    [] node.t = "seq" /\ node.s = << >> -> DecodeEmpty(rows, cols)
    [] node.t = "seq" /\ node.s # << >> /\ node.s[1].t = "seq" -> DecodeGiven(node, rows, cols)
    [] OTHER -> DecodeDeduced(node, rows, cols)
Decode(node, rows, cols) == DecodeSequence(Indexed(node), rows, cols)

\* encode, of a matrix and of an expression: a node to which nothing is pushed stays null.
Encode(matrix) ==
  IF matrix.rows * matrix.cols = 0 THEN Null
  ELSE Seq_([k \in 1..(matrix.rows * matrix.cols) |->
               matrix.at[<<((k - 1) \div matrix.cols) + 1, ((k - 1) % matrix.cols) + 1>>]])

\* Quaternions, in the order x, y, z, w.
DecodeQuaternion(node) ==
  LET read == Indexed(node)
  IN IF read.t = "seq" /\ Len(read.s) = 4 /\ \A i \in 1..4 : IsNumber(read.s[i])
     THEN [ok |-> TRUE, x |-> read.s[1], y |-> read.s[2], z |-> read.s[3], w |-> read.s[4]]
     ELSE Rejected
EncodeQuaternion(q) == Seq_(<<q.x, q.y, q.z, q.w>>)

=============================================================================
