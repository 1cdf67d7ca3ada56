----------------------------- MODULE NodeMerge -----------------------------
(***************************************************************************)
(* A node that is put together by flattenMap: Null at first, then one      *)
(* entry or followed document after the other is added, until one addition *)
(* throws or the node is complete and the next load begins.                *)
(***************************************************************************)
EXTENDS YamlNodes

CONSTANTS Keys,         \* keys of the node
          YamlValues,   \* flattened nodes that input files have under a key
          SchemaValues, \* and those that schemas have
          MaxAdds       \* bound: additions to one node

ASSUME AddsAssumption == MaxAdds \in Nat

VARIABLES override,  \* the parameters of flattenMap
          is_schema,
          node,      \* its node_aux
          added,     \* the additions so far, <<key, value>>
          thrown     \* whether the last addition threw

vars == <<override, is_schema, node, added, thrown>>

Init ==
  /\ override \in BOOLEAN /\ is_schema \in BOOLEAN
  /\ node = Null /\ added = <<>> /\ thrown = FALSE

Added(to, key, value) ==
  IF is_schema THEN AddNodeSchema(to, key, value, override)
               ELSE AddNodeYaml(to, key, value, override)

Add(key, value) ==
  /\ ~thrown /\ Len(added) < MaxAdds
  /\ added' = Append(added, <<key, value>>)
  /\ thrown' = (Added(node, key, value) = Thrown)
  /\ node' = IF thrown' THEN Null ELSE Added(node, key, value)
  /\ UNCHANGED <<override, is_schema>>

\* flattenMap returned or let the exception out; the next one starts afresh.
Restart ==
  /\ added # <<>>
  /\ node' = Null /\ added' = <<>> /\ thrown' = FALSE
  /\ override' \in BOOLEAN /\ is_schema' \in BOOLEAN

Next ==
  \/ Restart
  \/ \E key \in Keys, value \in IF is_schema THEN SchemaValues ELSE YamlValues : Add(key, value)

Spec == Init /\ [][Next]_vars

-----------------------------------------------------------------------------
\* With the key under which it is added, a value is no higher than the nodes may be.
ASSUME ValuesAssumption ==
  \A key \in Keys, value \in YamlValues \cup SchemaValues : IsTree(Map(Entry(key, value)))

\* The node is a tree, a map as soon as something was added, or nothing after a throw.
TypeOK ==
  /\ IsTree(node)
  /\ node.t = IF thrown \/ added = <<>> THEN "null" ELSE "map"

(***************************************************************************)
(* Equal, but for the order of the elements of sequences, also of those    *)
(* that became maps.                                                       *)
(***************************************************************************)
Elements(n) == Restrict(Children(n), DOMAIN Children(n) \cap Range(IndexKey))
Times(f) == [e \in Range(f) |-> Cardinality({i \in DOMAIN f : f[i] = e})]
Named(path) == Range(path) \cap Range(IndexKey) = {}
Unordered(n) ==
  {<<x[1], x[2].t, IF x[2].t = "scalar" THEN x[2] ELSE Null, Times(Elements(x[2]))>> :
     x \in {y \in Places(n, "nodes") : Named(y[1])}}

\* A node to which all of this is added, and the same additions in other orders.
AddAll(additions) ==
  LET sum[i \in 0..Len(additions)] ==
        IF i = 0 THEN Null
        ELSE IF sum[i - 1] = Thrown THEN Thrown
        ELSE Added(sum[i - 1], additions[i][1], additions[i][2])
  IN sum[Len(additions)]
Orders(s) == {[i \in DOMAIN s |-> s[p[i]]] : p \in {q \in [DOMAIN s -> DOMAIN s] : IsInjective(q)}}

\* No key of a map is the index of an element, unless within one, and no map is empty
\* (flattenMap makes a null node of an empty one).
Plain(n) ==
  \A x \in Places(n, "nodes") : Named(x[1]) /\ x[2].t = "map" =>
    DOMAIN x[2].m # {} /\ DOMAIN x[2].m \cap Range(IndexKey) = {}

(***************************************************************************)
(* Without 'override' the order in which documents are added does not      *)
(* matter for the outcome: two orders that both succeed give the same      *)
(* node, but for the order inside sequences.  (One order may throw where   *)
(* the other does not; and what is added under the index of an element     *)
(* goes to the element that the order put there.)                          *)
(***************************************************************************)
OrderFree ==
  /\ ~is_schema /\ ~override /\ ~thrown
  /\ \A i \in DOMAIN added : Plain(Map(Entry(added[i][1], added[i][2])))
  => \A other \in Orders(added) : AddAll(other) # Thrown => Unordered(AddAll(other)) = Unordered(node)

-----------------------------------------------------------------------------
\* Where a scalar stands and which one it is; all specifications within a node,
\* wherever they stand.
Leaves(n) == {<<x[1], x[2].v>> : x \in {y \in Places(n, "nodes") : y[2].t = "scalar"}}
AllSpecifications(n) == {<<x[1], x[2].m>> : x \in {y \in Places(n, "nodes") : y[1] # <<>> /\ IsSpecification(y[2])}}

(***************************************************************************)
(* Without 'override' an addition never changes, moves or removes a value  *)
(* that is there, at any depth, not even when it turns a sequence into a   *)
(* map, and never adds anything to a specification or takes it away: a     *)
(* repeated key is an error and no loss (addNodeYaml, addNodeSchema).      *)
(***************************************************************************)
NothingOverwritten ==
  [][~override /\ ~thrown' /\ added' # <<>> =>
       IF is_schema THEN AllSpecifications(node) \subseteq AllSpecifications(node')
                    ELSE Leaves(node) \subseteq Leaves(node')]_vars

\* All scalars of the value are in n, at their places, and its elements are the last ones.
HeldBy(value, n) ==
  /\ value.t = "scalar" => n = value
  /\ value.t = "seq" /\ value.s # <<>> => n.t = "seq" /\ IsSuffix(value.s, n.s)
Holds(n, value) ==
  \A x \in Places(value, "maps") : \E y \in Places(n, "maps") : y[1] = x[1] /\ HeldBy(x[2], y[2])

\* The specifications in force, by path: what stands inside one is never looked at.
Reserved(n) == Restrict(n.m, DOMAIN n.m \cap ReservedKeys)
InForce(n) ==
  {<<x[1], Reserved(x[2])>> : x \in {y \in Places(n, "namespaces") : IsSpecification(y[2])}}

(***************************************************************************)
(* With 'override' the last one wins: after an addition every scalar of    *)
(* the added value is in force at its place, the elements of a sequence at *)
(* the end of the sequence that they were appended to, and so is every     *)
(* specification of an added schema, as that schema states it.             *)
(***************************************************************************)
LastOneWins ==
  override /\ added # <<>> /\ ~thrown =>
    LET key == Last(added)[1]
        value == Last(added)[2]
    IN IF is_schema THEN InForce(value) \subseteq InForce(node.m[key])
                    ELSE Holds(node.m[key], value)

(***************************************************************************)
(* "override: if true, repeated keys are overridden, otherwise it is an    *)
(* error": without it, a specification that was in force stays in force.   *)
(***************************************************************************)
NoSpecificationLost ==
  [][is_schema /\ ~override /\ ~thrown' /\ added' # <<>> =>
       InForce(node) \subseteq InForce(node')]_vars

=============================================================================
