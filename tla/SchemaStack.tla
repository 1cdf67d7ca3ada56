---------------------------- MODULE SchemaStack ----------------------------
(***************************************************************************)
(* How schemas are loaded while schemas are checked and applied            *)
(* (src/src/yaml_schema.cpp: loadSchema, checkSchema, applySchema,         *)
(* applySchemaRecursive, validateAllSchemas; src/src/yaml_generator.cpp:   *)
(* generateYaml, schemaToYaml), call by call: the recursion goes on as     *)
(* long as the native stack has room for it, and exceptions go up to the   *)
(* next try block.                                                         *)
(*                                                                         *)
(* A frame is the walk through the parameters of one schema.               *)
(***************************************************************************)
EXTENDS Integers, Sequences, FiniteSets

\* As in SchemaRequests, with which they are documented.
CONSTANTS Names, Trivial, Malformed, Missing, None, Libraries, Nodes, Listing, Inputs, MaxDepth

Types == Names \cup {Trivial, Malformed}
Leaf == [t |-> "leaf"]
Fields(f) == [t |-> "map", f |-> f]
Param(type, mandatory, default) == [type |-> type, mandatory |-> mandatory, default |-> default]

Params == [type : Types, mandatory : BOOLEAN, default : Nodes \cup {None}]
ASSUME DepthAssumption == MaxDepth \in Nat \ {0}
ASSUME ListingAssumption == Listing \in Seq(Names)
ASSUME LibrariesAssumption == Libraries \subseteq [Names -> Seq(Params) \cup {Missing}]
ASSUME NodesAssumption ==
  /\ Leaf \in Nodes
  /\ \A node \in Nodes \ {Leaf} : \A i \in DOMAIN node.f : node.f[i] \in Nodes
ASSUME DistinctAssumption ==
  /\ Trivial \notin Names /\ Malformed \notin Names /\ Trivial # Malformed
  /\ Missing \notin Seq(Params) /\ None \notin Nodes

VARIABLES
  lib,      \* the schemas in the folders
  request,  \* the call that is running
  frames,   \* the walks through schemas, the innermost last
  ret,      \* what the innermost call that has just ended gave
  answer    \* the last call and its answer

vars == <<lib, request, frames, ret, answer>>

Request(op, type, node) == [op |-> op, type |-> type, node |-> node]
Requests == [op : {"load", "generate"}, type : Names, node : {Leaf}]
            \cup [op : {"apply"}, type : Types, node : Nodes]
            \cup {Request("validate", Trivial, Leaf)}
ASSUME InputsAssumption == Inputs \subseteq Requests

(***************************************************************************)
(* op   "check" (checkSchema), "apply" (applySchemaRecursive), "generate"  *)
(*      (schemaToYaml) or "validate" (validateAllSchemas)                  *)
(* by   for whom the schema is checked, whose try block it is in           *)
(* name, at   the schema and its next parameter                            *)
(* node, ok   what it is applied to, and the verdict so far                *)
(***************************************************************************)
Frame(op, by, name, node) == [op |-> op, by |-> by, name |-> name, node |-> node, at |-> 1, ok |-> TRUE]
Top == frames[Len(frames)]
Below == SubSeq(frames, 1, Len(frames) - 1)
Schema == lib[Top.name]
Parameter == Schema[Top.at]
Said(b) == IF b THEN "true" ELSE "false"

NoAnswer == [request |-> None, is |-> "none"]

Init ==
  /\ lib \in Libraries
  /\ request = None /\ frames = <<>> /\ ret = "none" /\ answer = NoAnswer

End(is) ==
  /\ answer' = [request |-> request, is |-> is]
  /\ request' = None /\ frames' = <<>> /\ ret' = "none"

\* One more activation, if the stack has room; otherwise the process dies.
Push(frame) ==
  IF Len(frames) < MaxDepth
    THEN frames' = Append(frames, frame) /\ ret' = "none" /\ UNCHANGED <<request, answer>>
    ELSE End("crash")
Continue(frame) ==
  frames' = [frames EXCEPT ![Len(frames)] = frame] /\ ret' = "none" /\ UNCHANGED <<request, answer>>
Pop(r) == frames' = Below /\ ret' = r /\ UNCHANGED <<request, answer>>
Return(r) == ret' = r /\ UNCHANGED <<frames, request, answer>>

\* Slip: only validateAllSchemas catches what checkSchema throws.
Failed_uncaught(by) == IF by = "validate" THEN "false" ELSE "throw"

\* loadSchema and validateAllSchemas catch what checkSchema throws and go on with
\* "no schema"; generateYaml catches it and throws another exception.
Failed(by) == IF by = "generate" THEN "throw" ELSE "false"

\* Slip: that there is no schema is not noticed.
Load_unchecked(by, name, node) == Push(Frame("check", by, name, node))

\* findSchema, LoadFile and flattenNode, then checkSchema.
Load(by, name, node) ==
  IF lib[name] = Missing THEN Return(Failed(by)) ELSE Push(Frame("check", by, name, node))

\* applySchema
Apply(type, node) ==
  CASE type = Trivial -> Return(Said(node = Leaf))
    [] type = Malformed -> Return("throw")   \* isArrayType
    [] OTHER -> Load("apply", type, node)

Call(r) ==
  /\ request = None
  /\ request' = r
  /\ answer' = NoAnswer
  /\ UNCHANGED <<lib, frames, ret>>

\* Slip: what the calls before said is forgotten.
Verdict_last(ok, r) == r = "true"
Verdict(ok, r) == r = "true" /\ ok

Start ==
  /\ request # None /\ frames = <<>> /\ ret = "none"
  /\ CASE request.op = "apply" -> Apply(request.type, request.node)
       [] request.op = "validate" -> Push(Frame("validate", "none", "none", Leaf))
       [] OTHER -> Load(request.op, request.type, Leaf)

Finish == request # None /\ frames = <<>> /\ ret # "none" /\ End(ret)

\* Slips: a parameter without DEFAULT is checked with an empty node; DEFAULT is
\* checked only where the type is that of a value.
Default_empty(p) == IF p.default = None THEN Leaf ELSE p.default
Default_trivial(p) == IF p.type = Trivial THEN p.default ELSE None

\* What checkSchema applies the type of a parameter to.
Default(p) == p.default

\* checkSchema: the next parameter, or the end of the check.
Check ==
  /\ frames # <<>> /\ ret = "none" /\ Top.op = "check"
  /\ CASE Top.at > Len(Schema) ->
            CASE Top.by \in {"load", "validate"} -> Pop("true")
              [] Top.by = "apply" /\ Top.node = Leaf -> Pop("false")   \* should be a map
              [] OTHER -> Continue([Top EXCEPT !.op = Top.by, !.at = 1])
       [] Top.at <= Len(Schema) /\ Default(Parameter) = None -> Continue([Top EXCEPT !.at = @ + 1])
       [] Top.at <= Len(Schema) /\ Default(Parameter) # None /\ Parameter.mandatory -> Return("throw")
       [] OTHER -> Apply(Parameter.type, Default(Parameter))

\* applySchemaRecursive: the next parameter, which is there or not.
ApplyRecursive ==
  /\ frames # <<>> /\ ret = "none" /\ Top.op = "apply"
  /\ CASE Top.at > Len(Schema) -> Pop(Said(Top.ok))
       [] Top.at <= Len(Schema) /\ Top.at \in DOMAIN Top.node.f ->
            Apply(Parameter.type, Top.node.f[Top.at])
       [] OTHER -> Return(Said(~Parameter.mandatory))

\* schemaToYaml: a value, or the template of the parameter's schema.
SchemaToYaml ==
  /\ frames # <<>> /\ ret = "none" /\ Top.op = "generate"
  /\ CASE Top.at > Len(Schema) -> Pop("true")
       [] Top.at <= Len(Schema) /\ Parameter.type = Trivial -> Return("true")
       [] Top.at <= Len(Schema) /\ Parameter.type = Malformed -> Return("throw")
       [] OTHER -> Load("generate", Parameter.type, Leaf)

\* validateAllSchemas: the next file.
Validate ==
  /\ frames # <<>> /\ ret = "none" /\ Top.op = "validate"
  /\ IF Top.at > Len(Listing) THEN Pop(Said(Top.ok)) ELSE Load("validate", Listing[Top.at], Leaf)

\* Slip: after an error the same file is validated again.
Behind_retry(frame, r) == IF r = "false" THEN frame.at ELSE frame.at + 1
Behind(frame, r) == frame.at + 1

\* The innermost call has ended: the walk that made it goes on, or is left.
Resume ==
  /\ frames # <<>> /\ ret # "none"
  /\ CASE Top.op = "check" /\ ret # "true" -> Pop(Failed(Top.by))
       [] Top.op # "check" /\ ret = "throw" -> Pop("throw")
       [] OTHER -> Continue([Top EXCEPT !.at = Behind(Top, ret), !.ok = Verdict(@, ret)])

Step == (Start \/ Check \/ ApplyRecursive \/ SchemaToYaml \/ Validate \/ Resume \/ Finish) /\ UNCHANGED lib
Next == Step \/ \E r \in Inputs : Call(r)

Spec == Init /\ [][Next]_vars
FairSpec == Spec /\ WF_vars(Step)

-----------------------------------------------------------------------------
Outcomes == {"true", "false", "throw"}
Walk == [op : {"check", "apply", "generate"}, by : {"load", "apply", "generate", "validate"},
         name : Names, node : Nodes, at : Nat \ {0}, ok : BOOLEAN]
Validation == [op : {"validate"}, by : {"none"}, name : {"none"}, node : {Leaf},
               at : Nat \ {0}, ok : BOOLEAN]
Loaded(frame) == lib[frame.name] # Missing /\ (frame.op = "apply" => frame.node # Leaf)

(***************************************************************************)
(* The types; a walk is through a schema that could be loaded, a node that *)
(* a schema is applied to is a map, and there is room for all walks.       *)
(***************************************************************************)
TypeOK ==
  /\ lib \in [Names -> Seq(Params) \cup {Missing}]
  /\ request \in Requests \cup {None}
  /\ ret \in Outcomes \cup {"none"}
  /\ answer \in [request : Requests, is : Outcomes \cup {"crash"}] \cup {NoAnswer}
  /\ frames \in Seq(Walk \cup Validation)
  /\ Len(frames) <= MaxDepth
  /\ \A i \in 1..Len(frames) : IF frames[i].op = "validate" THEN i = 1 ELSE Loaded(frames[i])

(***************************************************************************)
(* Every call ends, with an answer or, when the stack has no more room,    *)
(* with the process.                                                       *)
(***************************************************************************)
EveryCallEnds == request # None ~> request = None

(***************************************************************************)
(* Reached[<<node, type>>]: the schemas that applying type to node loads,  *)
(* level by level, as far as there is room for the calls; Depends: which   *)
(* schemas are loaded to check a schema, or, for a template, also because  *)
(* they are the type of a parameter.                                       *)
(***************************************************************************)
Levels ==
  LET reached[d \in 0..MaxDepth] ==
        [x \in Nodes \X Types |->
           IF x[2] \notin Names THEN {}
           ELSE IF d = 0 \/ lib[x[2]] = Missing \/ x[1] = Leaf THEN {x[2]}
           ELSE {x[2]} \cup UNION {reached[d - 1][<<x[1].f[i], lib[x[2]][i].type>>] :
                                     i \in DOMAIN lib[x[2]] \cap DOMAIN x[1].f}]
  IN reached
Reached == Levels[MaxDepth]

Depends(op) ==
  LET reached == Reached
  IN {d \in Names \X Names :
        lib[d[1]] # Missing /\ \E i \in DOMAIN lib[d[1]] :
          LET p == lib[d[1]][i]
          IN \/ p.default # None /\ d[2] \in reached[<<p.default, p.type>>]
             \/ op = "generate" /\ p.type = d[2]}

\* The schemas that a chain of dependencies leads to from one of a set.
Closed(depends, set) == \A d \in depends : d[1] \in set => d[2] \in set
From(depends, set) ==
  {t \in Names : \A closed \in SUBSET Names : set \subseteq closed /\ Closed(depends, closed) => t \in closed}
Successors(depends, t) == {d[2] : d \in {e \in depends : e[1] = t}}

\* The schemas that a request begins with.
Roots(r) ==
  CASE r.op = "apply" -> Reached[<<r.node, r.type>>]
    [] r.op = "validate" -> {Listing[i] : i \in DOMAIN Listing}
    [] OTHER -> {r.type}

\* A closed chain of dependencies that r leads to.
Cyclic(r) ==
  LET depends == Depends(r.op)
  IN \E s \in From(depends, Roots(r)) : s \in From(depends, Successors(depends, s))

(***************************************************************************)
(* The recursion ends by itself unless a schema has, to be checked itself, *)
(* to be checked first: only then the stack is exhausted.                  *)
(***************************************************************************)
CrashIsCyclic == answer.is = "crash" => Cyclic(answer.request)

(***************************************************************************)
(* What is accepted does not depend on itself: no schema is found valid by *)
(* assuming that it is valid.                                              *)
(***************************************************************************)
AcceptedIsAcyclic == answer.is = "true" => ~Cyclic(answer.request)

(***************************************************************************)
(* An exception about a schema does not leave loadSchema and               *)
(* validateAllSchemas, from whatever depth of the recursion it comes.      *)
(***************************************************************************)
LoadsCatch == answer.is = "throw" => answer.request.op \notin {"load", "validate"}

(***************************************************************************)
(* It leaves applySchema only for a malformed type that the input itself   *)
(* meets: what is wrong within the check of a schema is a negative answer. *)
(***************************************************************************)
Meets(r) ==
  \/ r.type = Malformed
  \/ \E name \in Reached[<<r.node, r.type>>] :
       lib[name] # Missing /\ \E i \in DOMAIN lib[name] : lib[name][i].type = Malformed
ApplyThrowsForInput == answer.is = "throw" /\ answer.request.op = "apply" => Meets(answer.request)

-----------------------------------------------------------------------------
\* What a caller sees of a call is its request and its answer.
Abstract == INSTANCE SchemaRequests WITH lib <- lib, request <- request, answer <- answer

(***************************************************************************)
(* The recursion of loads and checks, with the exceptions that are thrown  *)
(* and caught on its way, computes what the library of schemas stands for. *)
(***************************************************************************)
ImplementsRequests == Abstract!Spec

=============================================================================
