------------------------------ MODULE YamlTree ------------------------------
(***************************************************************************)
(* Nodes of a YAML tree, as the library sees them through yaml-cpp.        *)
(***************************************************************************)
EXTENDS Integers, TLC

CONSTANT IndexKey  \* the keys of the elements of a sequence, one for each position

ASSUME IndexAssumption == \A i, j \in DOMAIN IndexKey : IndexKey[i] = IndexKey[j] => i = j

Digits == <<"0", "1", "2", "3", "4", "5">>

Undefined == [t |-> "undefined"]
Null == [t |-> "null"]
Scalar(v) == [t |-> "scalar", v |-> v]
Seq_(s) == [t |-> "seq", s |-> s]
Map(m) == [t |-> "map", m |-> m]

(***************************************************************************)
(* What node[key] sees.  A null node is an empty map in the making, and a  *)
(* sequence that is asked for a string key becomes a map from its indices. *)
(* (A scalar throws BadSubscript.)                                         *)
(***************************************************************************)
Children(node) ==
  CASE node.t = "map" -> node.m
    [] node.t = "seq" -> [key \in {IndexKey[i] : i \in DOMAIN node.s} |->
                            node.s[CHOOSE i \in DOMAIN node.s : IndexKey[i] = key]]
    [] OTHER -> << >>

=============================================================================
