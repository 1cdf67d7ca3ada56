----------------------------- MODULE EigenCalls -----------------------------
(***************************************************************************)
(* A node is read as matrices and quaternions and written back, time after *)
(* time (node.as<Eigen::MatrixXd>(), and node = matrix).                   *)
(***************************************************************************)
EXTENDS EigenConversion

CONSTANTS Nodes,   \* input nodes
          Matrices \* dimensions of the matrices that callers convert

\* Sequences that an unsigned int can count, of nodes that are such sequences.
Sound(n) ==
  /\ n.t = "seq" => n = Seq_(n.s) /\ n.s \in Seq({n.s[i] : i \in DOMAIN n.s}) /\ Len(n.s) < UintMod
  /\ n.t = "map" => IsFiniteSet(DOMAIN n.m) /\ Cardinality(DOMAIN n.m) < UintMod
IsNode(n) ==
  /\ Sound(n)
  /\ n.t = "seq" => \A i \in DOMAIN n.s : Sound(n.s[i])
  /\ n.t = "map" => \A key \in DOMAIN n.m : Sound(n.m[key])
Dims == (Nat \ {0}) \cup {Dynamic}

ASSUME NodesAssumption == \A n \in Nodes : IsNode(n)
ASSUME MatricesAssumption == Matrices \subseteq Dims \X Dims

VARIABLES node,  \* the node
          call,  \* the function that was called last
          answer \* "true", or "false" (of which as<>() makes an exception)

InitConversions == node \in Nodes /\ call = "none" /\ answer = "true"

\* A matrix or a quaternion is read, and written back.
Convert(rows, cols) ==
  LET matrix == Decode(node, rows, cols)
  IN /\ call' = "convert" /\ answer' = Answer(matrix.ok)
     /\ node' = IF matrix.ok THEN Encode(matrix) ELSE node

ConvertQuaternion ==
  LET q == DecodeQuaternion(node)
  IN /\ call' = "convertQuaternion" /\ answer' = Answer(q.ok)
     /\ node' = IF q.ok THEN EncodeQuaternion(q) ELSE node

Conversion ==
  \/ \E dims \in Matrices : Convert(dims[1], dims[2])
  \/ ConvertQuaternion

Conversions == InitConversions /\ [][Conversion]_<<node, call, answer>>

-----------------------------------------------------------------------------
(***************************************************************************)
(* A matrix is read only from as many numbers as it has places, whatever   *)
(* dimensions are written in the file: an unsigned product that wraps lets *)
(* nothing else pass.                                                      *)
(***************************************************************************)
Flat(n, rows, cols) ==
  /\ \A i \in DOMAIN n.s : IsNumber(n.s[i])
  /\ Len(n.s) > 0 => <<rows, cols>> # <<Dynamic, Dynamic>>
  /\ \E r, c \in 0..Len(n.s) \cup ({rows, cols} \ {Dynamic}) : r * c = Len(n.s) /\ Given(r, rows) /\ Given(c, cols)
WithSizes(n, rows, cols) ==
  /\ Len(n.s) = 2 /\ n.s[1].t = "seq" /\ n.s[2].t = "seq" /\ Len(n.s[1].s) = 2
  /\ \A i \in 1..2 : IsInt(n.s[1].s[i])
  /\ \A i \in DOMAIN n.s[2].s : IsNumber(n.s[2].s[i])
  /\ LET r == Number[n.s[1].s[1].v]
         c == Number[n.s[1].s[2].v]
     IN r * c = Len(n.s[2].s) /\ Given(r, rows) /\ Given(c, cols)
MatrixFits ==
  \A dims \in Matrices :
    Decode(node, dims[1], dims[2]).ok <=>
      LET n == Indexed(node)
      IN n.t = "seq" /\ (Flat(n, dims[1], dims[2]) \/ WithSizes(n, dims[1], dims[2]))

(***************************************************************************)
(* A matrix that is written back and read again is the same matrix, if it  *)
(* has places and not both dimensions are dynamic; a quaternion always is. *)
(***************************************************************************)
RoundTrip ==
  [][/\ call' = "convertQuaternion" => node' \in {node, Indexed(node)}
     /\ call' = "convert" /\ answer' = "true" /\ node' # Null =>
          \A dims \in Matrices \ {<<Dynamic, Dynamic>>} :
            LET Read(n) == Decode(n, dims[1], dims[2])
            IN Convert(dims[1], dims[2]) => Read(node') = Read(node)]_<<node, call, answer>>

=============================================================================
