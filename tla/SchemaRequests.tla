--------------------------- MODULE SchemaRequests ---------------------------
(***************************************************************************)
(* What a call on schemas promises: one step from the request to the       *)
(* answer, and the answer is a function of the library of schemas.         *)
(*                                                                         *)
(* A schema is a sequence of parameters.  The type of a parameter is that  *)
(* of a value (Trivial), a text whose brackets make no size (Malformed:    *)
(* "int[x]"), or the name of a schema.  DEFAULT stands for all that        *)
(* checkSchema applies schemas to; VALUE and OPTIONS, the comparisons with *)
(* them and derived types are the subject of ApplySchema.                  *)
(***************************************************************************)
EXTENDS Integers, Sequences

CONSTANTS Names,      \* names of schemas
          Trivial, Malformed,
          Missing,    \* a schema that cannot be found, read or flattened
          None,       \* no DEFAULT; no request
          Libraries,  \* libraries: [Names -> schemas and Missing]
          Nodes,      \* the nodes that appear as inputs and as DEFAULT
          Listing,    \* the schema files in the order of the folders
          Inputs,     \* the calls that are made
          MaxDepth    \* how many calls the native stack has room for

Types == Names \cup {Trivial, Malformed}
Leaf == [t |-> "leaf"]
Fields(f) == [t |-> "map", f |-> f]   \* f: nodes by the number of the parameter
Param(type, mandatory, default) == [type |-> type, mandatory |-> mandatory, default |-> default]

Request(op, type, node) == [op |-> op, type |-> type, node |-> node]
Requests == [op : {"load", "generate"}, type : Names, node : {Leaf}]
            \cup [op : {"apply"}, type : Types, node : Nodes]
            \cup {Request("validate", Trivial, Leaf)}

(***************************************************************************)
(* Answers(lib)[d][r] is the answer to r if there is room for d calls.     *)
(* "throw" is an exception that reaches the caller, "crash" the end of     *)
(* the process.                                                            *)
(***************************************************************************)
Gone == {"throw", "crash"}   \* nothing goes on behind it
Said(b) == IF b THEN "true" ELSE "false"

\* One call after the other, up to one of which the outcome stops the rest.
InTurn(outcome, stops) ==
  LET stopping == {i \in DOMAIN outcome : outcome[i] \in stops}
      first == CHOOSE i \in stopping : \A j \in stopping : i <= j
  IN IF stopping = {} THEN Said(\A i \in DOMAIN outcome : outcome[i] = "true") ELSE outcome[first]

(***************************************************************************)
(* What becomes of one parameter, where inner has the answers to the calls *)
(* that are made on its way: its DEFAULT is accepted, and belongs to a     *)
(* parameter that may be missing; a node is what it says; its part of a    *)
(* template is written.                                                    *)
(***************************************************************************)
Given(p, inner) ==
  CASE p.default = None -> "true"
    [] p.default # None /\ p.mandatory -> "throw"
    [] OTHER -> inner[Request("apply", p.type, p.default)]

Child(p, i, node, inner) ==
  IF i \in DOMAIN node.f THEN inner[Request("apply", p.type, node.f[i])] ELSE Said(~p.mandatory)

Part(p, inner) ==
  CASE p.type = Trivial -> "true"
    [] p.type = Malformed -> "throw"
    [] OTHER -> inner[Request("generate", p.type, Leaf)]

\* The walks through the parameters of a schema, and through the schema files.
GivenAll(schema, inner) == [i \in DOMAIN schema |-> Given(schema[i], inner)]
Children(schema, node, inner) == [i \in DOMAIN schema |-> Child(schema[i], i, node, inner)]
Parts(schema, inner) == [i \in DOMAIN schema |-> Part(schema[i], inner)]
Files(inner) == [i \in DOMAIN Listing |-> inner[Request("load", Listing[i], Leaf)]]

\* A schema is found and checked, with room for d calls.
Checked(schema, d, inner) ==
  CASE schema = Missing -> "false"
    [] schema # Missing /\ d = 0 -> "crash"
    [] OTHER -> InTurn(GivenAll(schema, inner), Gone \cup {"false"})

\* What is said of r when its schema has been checked.
Served(schema, r, inner) ==
  CASE r.op = "load" -> "true"
    [] r.op = "generate" -> InTurn(Parts(schema, inner), Gone)
    [] OTHER -> IF r.node = Leaf THEN "false" ELSE InTurn(Children(schema, r.node, inner), Gone)

Outcome(schema, d, inner, r) ==
  CASE r.op = "apply" /\ r.type = Trivial -> Said(r.node = Leaf)
    [] r.op = "apply" /\ r.type = Malformed -> "throw"
    [] r.op = "validate" -> IF d = 0 THEN "crash" ELSE InTurn(Files(inner), Gone)
    [] OTHER -> CASE Checked(schema, d, inner) = "true" -> Served(schema, r, inner)
                  [] Checked(schema, d, inner) = "crash" -> "crash"
                  [] OTHER -> IF r.op = "generate" THEN "throw" ELSE "false"

Answers(lib) ==
  LET answer[d \in 0..MaxDepth] ==
        [r \in Requests |-> Outcome(lib[r.type], d, IF d = 0 THEN <<>> ELSE answer[d - 1], r)]
  IN answer

VARIABLES lib,      \* the schemas in the folders
          request,  \* the call that is running
          answer    \* the last call and its answer
vars == <<lib, request, answer>>

NoAnswer == [request |-> None, is |-> "none"]

Init == lib \in Libraries /\ request = None /\ answer = NoAnswer

Call(r) ==
  /\ request = None
  /\ request' = r
  /\ answer' = NoAnswer
  /\ UNCHANGED lib

Reply ==
  /\ request # None
  /\ answer' = [request |-> request, is |-> Answers(lib)[MaxDepth][request]]
  /\ request' = None
  /\ UNCHANGED lib

Next == Reply \/ \E r \in Inputs : Call(r)

Spec == Init /\ [][Next]_vars

=============================================================================
