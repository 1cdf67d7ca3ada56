------------------------- MODULE SchemaStackProofs -------------------------
(***************************************************************************)
(* Theorems about SchemaStack, for any schemas, inputs and depth: first    *)
(* that the recursion stays within the native stack or ends the process,   *)
(* and that no exception about a schema leaves loadSchema or               *)
(* validateAllSchemas; then that it implements SchemaRequests.             *)
(***************************************************************************)
EXTENDS SchemaStack, Recursion, SequenceTheorems, FiniteSetTheorems, TLAPS

Any == Walk \cup Validation

\* What pushing, popping and replacing do to a stack.
LEMMA PushProperties ==
  ASSUME NEW S, NEW s \in Seq(S), NEW e \in S
  PROVE  /\ Append(s, e) \in Seq(S)
         /\ Append(s, e) # <<>>
         /\ Len(Append(s, e)) = Len(s) + 1
         /\ \A i \in 1..Len(s) : Append(s, e)[i] = s[i]
         /\ Append(s, e)[Len(s) + 1] = e
  OBVIOUS

LEMMA PopProperties ==
  ASSUME NEW S, NEW s \in Seq(S), s # <<>>
  PROVE  LET p == SubSeq(s, 1, Len(s) - 1)
         IN /\ p \in Seq(S)
            /\ Len(p) = Len(s) - 1
            /\ \A i \in 1..Len(p) : p[i] = s[i]
<1>1. Len(s) \in Nat /\ Len(s) # 0
  BY EmptySeq
<1>2. \A i \in 1..Len(s) - 1 : s[i] \in S
  BY <1>1, ElementOfSeq
<1>3. PICK n \in Int : n = Len(s) - 1
  BY <1>1
<1>4. /\ SubSeq(s, 1, n) \in Seq(S)
      /\ Len(SubSeq(s, 1, n)) = IF 1 <= n THEN n - 1 + 1 ELSE 0
      /\ \A i \in 1..(n - 1 + 1) : SubSeq(s, 1, n)[i] = s[1 + i - 1]
  BY <1>2, <1>3, SubSeqProperties
<1>5. PICK p : p = SubSeq(s, 1, n)
  OBVIOUS
<1>6. Len(p) = n
  BY <1>1, <1>3, <1>4, <1>5
<1>7. \A i \in 1..n : p[i] = s[i]
  <2>1. \A i \in 1..(n - 1 + 1) : p[i] = s[1 + i - 1]
    BY <1>4, <1>5
  <2>2. n - 1 + 1 = n
    OBVIOUS
  <2> QED
    BY <2>1, <2>2
<1> QED
  BY <1>3, <1>4, <1>5, <1>6, <1>7

LEMMA ReplaceProperties ==
  ASSUME NEW S, NEW s \in Seq(S), s # <<>>, NEW e \in S
  PROVE  LET r == [s EXCEPT ![Len(s)] = e]
         IN /\ r \in Seq(S)
            /\ r # <<>>
            /\ Len(r) = Len(s)
            /\ \A i \in 1..Len(s) - 1 : r[i] = s[i]
            /\ r[Len(s)] = e
<1>1. Len(s) \in 1..Len(s)
  BY EmptySeq
<1> QED
  BY <1>1, ExceptSeq, EmptySeq

-----------------------------------------------------------------------------
\* Whatever runs, runs for a request.
Running == frames # <<>> \/ ret # "none" => request # None

TInv == TypeOK /\ Running

\* A frame that may lie at place i of the stack.
Fits(frame, i) ==
  /\ frame \in Any
  /\ IF frame.op = "validate" THEN i = 1 ELSE Loaded(frame)

\* What lies at place i may lie there.
Placed(i) == IF frames[i].op = "validate" THEN i = 1 ELSE Loaded(frames[i])

\* The innermost walk, and the schema and the parameter where it is.
LEMMA TopTypes ==
  ASSUME TypeOK, frames # <<>>
  PROVE  /\ Len(frames) \in Nat \ {0} /\ Top \in Any /\ Fits(Top, Len(frames))
         /\ Top.op # "validate" => Top \in Walk
         /\ Top.op = "validate" => Top \in Validation
<1>1. Len(frames) \in Nat \ {0} /\ Len(frames) \in 1..Len(frames)
  BY EmptySeq DEF TypeOK
<1>2. Top \in Any
  BY <1>1, ElementOfSeq DEF TypeOK, Any, Top
<1>3. Fits(Top, Len(frames))
  BY <1>1, <1>2 DEF TypeOK, Fits, Top
<1>4. /\ Top.op # "validate" => Top \in Walk
      /\ Top.op = "validate" => Top \in Validation
  BY <1>2 DEF Any, Walk, Validation
<1> QED
  BY <1>1, <1>2, <1>3, <1>4

LEMMA ParameterTypes ==
  ASSUME TypeOK, frames # <<>>, Top.op # "validate"
  PROVE  /\ Schema \in Seq(Params) /\ Len(Schema) \in Nat /\ Top.at \in Nat \ {0}
         /\ Top.at <= Len(Schema) => Parameter \in Params
<1>1. Top \in Walk /\ Loaded(Top)
  BY TopTypes DEF Fits
<1>2. Schema \in Seq(Params)
  BY <1>1 DEF Schema, Loaded, Walk, TypeOK
<1>3. Top.at \in Nat \ {0}
  BY <1>1 DEF Walk
<1> QED
  BY <1>2, <1>3, ElementOfSeq DEF Parameter

\* Initially nothing runs.
LEMMA InitTInv == Init => TInv
  BY LibrariesAssumption, DepthAssumption DEF Init, TInv, TypeOK, Running, NoAnswer

\* The process ends, or the outermost call returns.
LEMMA EndTypes ==
  ASSUME TInv, request # None, NEW is \in Outcomes \cup {"crash"}, End(is), lib' = lib
  PROVE  TInv'
<1>1. request \in Requests
  BY DEF TInv, TypeOK
<1>2. answer' \in [request : Requests, is : Outcomes \cup {"crash"}]
  BY <1>1 DEF End
<1> QED
  BY <1>2, DepthAssumption DEF End, TInv, TypeOK, Running

\* A call begins, or there is no room for it.
LEMMA PushTypes ==
  ASSUME TInv, request # None, NEW frame, Fits(frame, Len(frames) + 1), Push(frame), lib' = lib
  PROVE  TInv'
<1>1. CASE Len(frames) < MaxDepth
  <2>0. frames \in Seq(Any) /\ Len(frames) \in Nat /\ frame \in Any
    BY DEF TInv, TypeOK, Any, Fits
  <2>1. frames' = Append(frames, frame) /\ ret' = "none" /\ request' = request /\ answer' = answer
    BY <1>1 DEF Push
  <2>2. /\ frames' \in Seq(Any)
        /\ Len(frames') = Len(frames) + 1
        /\ \A i \in 1..Len(frames) : frames'[i] = frames[i]
        /\ frames'[Len(frames) + 1] = frame
    BY <2>0, <2>1, PushProperties
  <2>3. \A i \in 1..Len(frames') : Placed(i)'
    <3>1. ASSUME NEW i \in 1..Len(frames')
          PROVE  Placed(i)'
      <4>1. CASE i = Len(frames) + 1
        BY <4>1, <2>2 DEF Fits, Loaded, Placed
      <4>2. CASE i # Len(frames) + 1
        <5>1. i \in 1..Len(frames)
          BY <4>2, <2>0, <2>2
        <5> QED
          BY <5>1, <2>2 DEF TInv, TypeOK, Loaded, Placed
      <4> QED
        BY <4>1, <4>2
    <3> QED
      BY <3>1
  <2>4. Len(frames') <= MaxDepth
    BY <1>1, <2>0, <2>2, DepthAssumption
  <2> QED
    BY <2>1, <2>2, <2>3, <2>4 DEF TInv, TypeOK, Running, Any, Placed
<1>2. CASE ~(Len(frames) < MaxDepth)
  BY <1>2, EndTypes DEF Push
<1> QED
  BY <1>1, <1>2

\* The innermost walk goes on.
LEMMA ContinueTypes ==
  ASSUME TInv, frames # <<>>, NEW frame, Fits(frame, Len(frames)), Continue(frame), lib' = lib
  PROVE  TInv'
<1>0. frames \in Seq(Any) /\ Len(frames) \in Nat \ {0} /\ frame \in Any
  BY TopTypes DEF TInv, TypeOK, Any, Fits
<1>1. /\ frames' \in Seq(Any)
      /\ Len(frames') = Len(frames)
      /\ \A i \in 1..Len(frames) - 1 : frames'[i] = frames[i]
      /\ frames'[Len(frames)] = frame
  BY <1>0, ReplaceProperties DEF Continue
<1>2. ASSUME NEW i \in 1..Len(frames')
      PROVE  Placed(i)'
  <2>1. CASE i = Len(frames)
    BY <2>1, <1>1 DEF Fits, Loaded, Placed
  <2>2. CASE i # Len(frames)
    <3>1. i \in 1..Len(frames) - 1 /\ i \in 1..Len(frames)
      BY <2>2, <1>0, <1>1
    <3> QED
      BY <3>1, <1>1 DEF TInv, TypeOK, Loaded, Placed
  <2> QED
    BY <2>1, <2>2
<1> QED
  BY <1>1, <1>2 DEF Continue, TInv, TypeOK, Running, Any, Placed

\* The innermost walk is left.
LEMMA PopTypes ==
  ASSUME TInv, frames # <<>>, NEW r \in Outcomes, Pop(r), lib' = lib
  PROVE  TInv'
<1>0. frames \in Seq(Any) /\ Len(frames) \in Nat \ {0}
  BY TopTypes DEF TInv, TypeOK, Any
<1>1. /\ frames' \in Seq(Any)
      /\ Len(frames') = Len(frames) - 1
      /\ \A i \in 1..Len(frames') : frames'[i] = frames[i]
  BY <1>0, PopProperties DEF Pop, Below
<1>2. ASSUME NEW i \in 1..Len(frames')
      PROVE  Placed(i)'
  <2>1. i \in 1..Len(frames)
    BY <1>0, <1>1
  <2> QED
    BY <2>1, <1>1 DEF TInv, TypeOK, Loaded, Placed
<1>3. Len(frames') <= MaxDepth
  BY <1>0, <1>1, DepthAssumption DEF TInv, TypeOK
<1> QED
  BY <1>1, <1>2, <1>3 DEF Pop, TInv, TypeOK, Running, Any, Placed

\* A call has ended at once.
LEMMA ReturnTypes ==
  ASSUME TInv, request # None, NEW r \in Outcomes, Return(r), lib' = lib
  PROVE  TInv'
  BY DEF Return, TInv, TypeOK, Running, Loaded

\* loadSchema, and the loads of generateYaml and validateAllSchemas
LEMMA LoadTypes ==
  ASSUME TInv, request # None, NEW by \in {"load", "apply", "generate", "validate"},
         NEW name \in Names, NEW node \in Nodes, Load(by, name, node), lib' = lib
  PROVE  TInv'
<1>1. CASE lib[name] = Missing
  <2>1. Failed(by) \in Outcomes
    BY DEF Failed, Outcomes
  <2> QED
    BY <1>1, <2>1, ReturnTypes DEF Load
<1>2. CASE lib[name] # Missing
  <2>1. Fits(Frame("check", by, name, node), Len(frames) + 1)
    BY <1>2 DEF Fits, Frame, Any, Walk, Loaded
  <2> QED
    BY <1>2, <2>1, PushTypes DEF Load
<1> QED
  BY <1>1, <1>2

\* applySchema
LEMMA ApplyTypes ==
  ASSUME TInv, request # None, NEW type \in Types, NEW node \in Nodes, Apply(type, node), lib' = lib
  PROVE  TInv'
<1>1. CASE type = Trivial
  <2>1. Said(node = Leaf) \in Outcomes
    BY DEF Said, Outcomes
  <2>2. Return(Said(node = Leaf))
    BY <1>1, DistinctAssumption DEF Apply
  <2> QED
    BY <2>1, <2>2, ReturnTypes
<1>2. CASE type # Trivial /\ type = Malformed
  BY <1>2, ReturnTypes DEF Apply, Outcomes
<1>3. CASE type # Trivial /\ type # Malformed
  BY <1>3, LoadTypes DEF Apply, Types
<1> QED
  BY <1>1, <1>2, <1>3

-----------------------------------------------------------------------------
\* The steps, one by one.
LEMMA StartTypes == ASSUME TInv, Start, lib' = lib PROVE TInv'
<1>1. request \in Requests /\ request # None /\ frames = <<>>
  BY DEF Start, TInv, TypeOK
<1>2. CASE request.op = "apply"
  <2>1. request.type \in Types /\ request.node \in Nodes
    BY <1>1, <1>2 DEF Requests, Request
  <2>2. Apply(request.type, request.node)
    BY <1>2 DEF Start
  <2> QED
    BY <1>1, <2>1, <2>2, ApplyTypes
<1>3. CASE request.op = "validate"
  <2>1. Frame("validate", "none", "none", Leaf) \in Validation
    BY DEF Frame, Validation
  <2>2. Fits(Frame("validate", "none", "none", Leaf), Len(frames) + 1)
    BY <1>1, <2>1 DEF Fits, Any, Frame
  <2>3. Push(Frame("validate", "none", "none", Leaf))
    BY <1>3 DEF Start
  <2> QED
    BY <1>1, <2>2, <2>3, PushTypes
<1>4. CASE request.op # "apply" /\ request.op # "validate"
  <2>1. request.op \in {"load", "generate"} /\ request.type \in Names
    BY <1>1, <1>4 DEF Requests, Request
  <2>2. Load(request.op, request.type, Leaf)
    BY <1>4 DEF Start
  <2> QED
    BY <1>1, <2>1, <2>2, NodesAssumption, LoadTypes
<1> QED
  BY <1>2, <1>3, <1>4

\* The next parameter is where the walk can be.
LEMMA NextParameter ==
  ASSUME TInv, frames # <<>>, Top.op # "validate"
  PROVE  Fits([Top EXCEPT !.at = @ + 1], Len(frames))
<1>1. Top \in Walk /\ Loaded(Top)
  BY TopTypes DEF TInv, Fits
<1> QED
  BY <1>1 DEF Fits, Any, Walk, Loaded

LEMMA CheckTypes == ASSUME TInv, Check, lib' = lib PROVE TInv'
<1>1. frames # <<>> /\ ret = "none" /\ Top.op = "check" /\ request # None
  BY DEF Check, TInv, Running
<1>2. Top \in Walk /\ Loaded(Top) /\ Len(Schema) \in Nat /\ Top.at \in Nat
  BY <1>1, TopTypes, ParameterTypes DEF TInv, Fits
<1>3. CASE Top.at > Len(Schema)
  <2>1. CASE Top.by \in {"load", "validate"}
    <3>1. Pop("true")
      BY <1>2, <1>3, <2>1 DEF Check
    <3> QED
      BY <1>1, <3>1, PopTypes DEF Outcomes
  <2>2. CASE Top.by = "apply" /\ Top.node = Leaf
    <3>1. Pop("false")
      BY <1>2, <1>3, <2>2 DEF Check
    <3> QED
      BY <1>1, <3>1, PopTypes DEF Outcomes
  <2>3. CASE Top.by \notin {"load", "validate"} /\ ~(Top.by = "apply" /\ Top.node = Leaf)
    <3>1. Fits([Top EXCEPT !.op = Top.by, !.at = 1], Len(frames))
      <4>1. Top.by \in {"apply", "generate"} /\ (Top.by = "apply" => Top.node # Leaf)
        BY <1>2, <2>3 DEF Walk
      <4>2. PICK walk : walk = [Top EXCEPT !.op = Top.by, !.at = 1]
        OBVIOUS
      <4>3. walk \in Walk /\ walk.op = Top.by /\ walk.name = Top.name /\ walk.node = Top.node
        <5>1. PICK op, at : op = Top.by /\ at = 1
          OBVIOUS
        <5>2. op \in {"check", "apply", "generate"} /\ at \in Nat \ {0}
          BY <4>1, <5>1
        <5>3. walk = [Top EXCEPT !.op = op, !.at = at]
          BY <4>2, <5>1
        <5> QED
          BY <1>2, <5>1, <5>2, <5>3 DEF Walk
      <4>4. Fits(walk, Len(frames))
        BY <1>2, <4>1, <4>3 DEF Fits, Any, Loaded
      <4> QED
        BY <4>2, <4>4
    <3>2. Continue([Top EXCEPT !.op = Top.by, !.at = 1])
      BY <1>2, <1>3, <2>3 DEF Check
    <3> QED
      BY <1>1, <3>1, <3>2, ContinueTypes
  <2> QED
    BY <2>1, <2>2, <2>3
<1>4. CASE Top.at <= Len(Schema)
  <2>0. Parameter \in Params
    BY <1>1, <1>4, ParameterTypes DEF TInv
  <2>1. CASE Default(Parameter) = None
    <3>1. Continue([Top EXCEPT !.at = @ + 1])
      BY <1>2, <1>4, <2>1 DEF Check
    <3> QED
      BY <1>1, <3>1, NextParameter, ContinueTypes
  <2>2. CASE Default(Parameter) # None /\ Parameter.mandatory
    <3>1. Return("throw")
      BY <1>2, <1>4, <2>2 DEF Check
    <3> QED
      BY <1>1, <3>1, ReturnTypes DEF Outcomes
  <2>3. CASE Default(Parameter) # None /\ ~Parameter.mandatory
    <3>1. Apply(Parameter.type, Default(Parameter))
      BY <1>2, <1>4, <2>3 DEF Check
    <3>2. Parameter.type \in Types /\ Default(Parameter) \in Nodes
      BY <2>0, <2>3 DEF Params, Default
    <3> QED
      BY <1>1, <3>1, <3>2, ApplyTypes
  <2> QED
    BY <2>1, <2>2, <2>3
<1> QED
  BY <1>2, <1>3, <1>4

LEMMA ApplyRecursiveTypes == ASSUME TInv, ApplyRecursive, lib' = lib PROVE TInv'
<1>1. frames # <<>> /\ ret = "none" /\ Top.op = "apply" /\ request # None
  BY DEF ApplyRecursive, TInv, Running
<1>2. Top \in Walk /\ Top.node # Leaf /\ Len(Schema) \in Nat /\ Top.at \in Nat
  BY <1>1, TopTypes, ParameterTypes DEF TInv, Fits, Loaded
<1>3. CASE Top.at > Len(Schema)
  <2>1. Pop(Said(Top.ok)) /\ Said(Top.ok) \in Outcomes
    BY <1>2, <1>3 DEF ApplyRecursive, Said, Outcomes
  <2> QED
    BY <1>1, <2>1, PopTypes
<1>4. CASE Top.at <= Len(Schema) /\ Top.at \in DOMAIN Top.node.f
  <2>1. Apply(Parameter.type, Top.node.f[Top.at])
    BY <1>2, <1>4 DEF ApplyRecursive
  <2>2. Parameter \in Params
    BY <1>1, <1>4, ParameterTypes DEF TInv
  <2>3. Parameter.type \in Types /\ Top.node.f[Top.at] \in Nodes
    BY <1>2, <1>4, <2>2, NodesAssumption DEF Params, Walk
  <2> QED
    BY <1>1, <2>1, <2>3, ApplyTypes
<1>5. CASE Top.at <= Len(Schema) /\ Top.at \notin DOMAIN Top.node.f
  <2>1. Return(Said(~Parameter.mandatory)) /\ Said(~Parameter.mandatory) \in Outcomes
    BY <1>2, <1>5 DEF ApplyRecursive, Said, Outcomes
  <2> QED
    BY <1>1, <2>1, ReturnTypes
<1> QED
  BY <1>2, <1>3, <1>4, <1>5

LEMMA SchemaToYamlTypes == ASSUME TInv, SchemaToYaml, lib' = lib PROVE TInv'
<1>1. frames # <<>> /\ ret = "none" /\ Top.op = "generate" /\ request # None
  BY DEF SchemaToYaml, TInv, Running
<1>2. Len(Schema) \in Nat /\ Top.at \in Nat
  BY <1>1, ParameterTypes DEF TInv
<1>3. CASE Top.at > Len(Schema)
  BY <1>1, <1>2, <1>3, PopTypes DEF SchemaToYaml, Outcomes
<1>4. CASE Top.at <= Len(Schema) /\ Parameter.type = Trivial
  <2>1. Return("true")
    BY <1>2, <1>4, DistinctAssumption DEF SchemaToYaml
  <2> QED
    BY <1>1, <2>1, ReturnTypes DEF Outcomes
<1>5. CASE Top.at <= Len(Schema) /\ Parameter.type = Malformed
  <2>1. Return("throw")
    BY <1>2, <1>5, DistinctAssumption DEF SchemaToYaml
  <2> QED
    BY <1>1, <2>1, ReturnTypes DEF Outcomes
<1>6. CASE Top.at <= Len(Schema) /\ Parameter.type \notin {Trivial, Malformed}
  <2>1. Load("generate", Parameter.type, Leaf)
    BY <1>2, <1>6 DEF SchemaToYaml
  <2>2. Parameter.type \in Names
    BY <1>1, <1>6, ParameterTypes DEF TInv, Params, Types
  <2> QED
    BY <1>1, <2>1, <2>2, NodesAssumption, LoadTypes
<1> QED
  BY <1>2, <1>3, <1>4, <1>5, <1>6

LEMMA ValidateTypes == ASSUME TInv, Validate, lib' = lib PROVE TInv'
<1>1. frames # <<>> /\ ret = "none" /\ Top.op = "validate" /\ request # None
  BY DEF Validate, TInv, Running
<1>2. Top \in Validation /\ Top.at \in Nat \ {0} /\ Len(Listing) \in Nat
  BY <1>1, TopTypes, ListingAssumption DEF TInv, Validation
<1>3. CASE Top.at > Len(Listing)
  <2>1. Pop(Said(Top.ok)) /\ Said(Top.ok) \in Outcomes
    BY <1>3 DEF Validate, Said, Outcomes
  <2> QED
    BY <1>1, <2>1, PopTypes
<1>4. CASE ~(Top.at > Len(Listing))
  <2>1. Load("validate", Listing[Top.at], Leaf)
    BY <1>4 DEF Validate
  <2>2. Listing[Top.at] \in Names
    BY <1>2, <1>4, ListingAssumption, ElementOfSeq
  <2> QED
    BY <1>1, <2>1, <2>2, NodesAssumption, LoadTypes
<1> QED
  BY <1>3, <1>4

LEMMA ResumeTypes == ASSUME TInv, Resume, lib' = lib PROVE TInv'
<1>1. frames # <<>> /\ ret \in Outcomes /\ request # None
  BY DEF Resume, TInv, TypeOK, Running
<1>2. CASE Top.op = "check" /\ ret # "true"
  <2>1. Pop(Failed(Top.by)) /\ Failed(Top.by) \in Outcomes
    BY <1>2 DEF Resume, Failed, Outcomes
  <2> QED
    BY <1>1, <2>1, PopTypes
<1>3. CASE Top.op # "check" /\ ret = "throw"
  BY <1>1, <1>3, PopTypes DEF Resume, Outcomes
<1>4. CASE ~(Top.op = "check" /\ ret # "true") /\ ~(Top.op # "check" /\ ret = "throw")
  <2>1. Continue([Top EXCEPT !.at = Behind(Top, ret), !.ok = Verdict(@, ret)])
    BY <1>4 DEF Resume
  <2>2. Fits([Top EXCEPT !.at = Behind(Top, ret), !.ok = Verdict(@, ret)], Len(frames))
    <3>1. Behind(Top, ret) \in Nat \ {0} /\ Verdict(Top.ok, ret) \in BOOLEAN
      BY <1>1, TopTypes DEF TInv, Behind, Verdict, Any, Walk, Validation
    <3>2. CASE Top \in Walk /\ Top.op # "validate"
      BY <1>1, <3>1, <3>2, TopTypes DEF TInv, Fits, Any, Walk, Loaded
    <3>3. CASE Top \in Validation
      BY <1>1, <3>1, <3>3, TopTypes DEF TInv, Fits, Any, Validation
    <3> QED
      BY <1>1, <3>2, <3>3, TopTypes DEF TInv
  <2> QED
    BY <1>1, <2>1, <2>2, ContinueTypes
<1> QED
  BY <1>2, <1>3, <1>4

\* Every step keeps TInv.
LEMMA NextTInv == TInv /\ [Next]_vars => TInv'
<1> SUFFICES ASSUME TInv, [Next]_vars PROVE TInv'
  OBVIOUS
<1>1. ASSUME NEW r \in Inputs, Call(r) PROVE TInv'
  <2>1. r \in Requests
    BY InputsAssumption
  <2> QED
    BY <1>1, <2>1 DEF Call, TInv, TypeOK, Running, Loaded, NoAnswer
<1>2. CASE Step
  <2>1. CASE Finish
    BY <1>2, <2>1, EndTypes DEF Step, Finish, TInv, TypeOK
  <2> QED
    BY <1>2, <2>1, StartTypes, CheckTypes, ApplyRecursiveTypes, SchemaToYamlTypes, ValidateTypes,
       ResumeTypes DEF Step
<1>3. CASE UNCHANGED vars
  BY <1>3 DEF vars, TInv, TypeOK, Running, Loaded
<1> QED
  BY <1>1, <1>2, <1>3 DEF Next

\* The types, with the bound on the walks that are open at once: a recursion
\* that does not end ends the process (applySchema, checkSchema, generateYaml).
THEOREM TypeCorrect == Spec => []TypeOK
<1>1. TInv => TypeOK
  BY DEF TInv
<1> QED
  BY <1>1, InitTInv, NextTInv, PTL DEF Spec

-----------------------------------------------------------------------------
(***************************************************************************)
(* The try blocks at the bottom of the stack: loadSchema has its own, and  *)
(* validateAllSchemas one for each file.  What they catch is not thrown    *)
(* any further.                                                            *)
(***************************************************************************)
LoadGuarded ==
  request # None /\ request.op = "load" =>
    IF frames = <<>> THEN ret # "throw" ELSE frames[1].op = "check" /\ frames[1].by = "load"

ValidateGuarded ==
  request # None /\ request.op = "validate" =>
    /\ Len(frames) <= 1 => ret # "throw"
    /\ Len(frames) >= 1 => frames[1].op = "validate"
    /\ Len(frames) >= 2 => frames[2].op = "check" /\ frames[2].by = "validate"

Guarded == LoadGuarded /\ ValidateGuarded

GInv == TInv /\ Guarded /\ LoadsCatch

\* An empty stack has length 0.
LEMMA Lengths ==
  ASSUME TInv
  PROVE  frames \in Seq(Any) /\ Len(frames) \in Nat /\ (frames = <<>> <=> Len(frames) = 0)
  BY EmptySeq DEF TInv, TypeOK, Any

\* A frame that is pushed next to the bottom is that of the try block.
LEMMA PushGuarded ==
  ASSUME GInv, NEW frame \in Any, Push(frame), request # None,
         request.op = "load" /\ frames = <<>> => frame.op = "check" /\ frame.by = "load",
         request.op = "validate" /\ Len(frames) = 0 => frame.op = "validate",
         request.op = "validate" /\ Len(frames) = 1 => frame.op = "check" /\ frame.by = "validate"
  PROVE  Guarded' /\ LoadsCatch'
<1>0. TInv /\ frames \in Seq(Any) /\ Len(frames) \in Nat /\ (frames = <<>> <=> Len(frames) = 0)
  BY Lengths DEF GInv
<1>1. CASE Len(frames) < MaxDepth
  <2>1. frames' = Append(frames, frame) /\ ret' = "none" /\ request' = request /\ answer' = answer
    BY <1>1 DEF Push
  <2>2. /\ Len(frames') = Len(frames) + 1 /\ frames' # <<>>
        /\ \A i \in 1..Len(frames) : frames'[i] = frames[i]
        /\ frames'[Len(frames) + 1] = frame
    BY <1>0, <2>1, PushProperties
  <2>3. LoadGuarded'
    BY <1>0, <2>1, <2>2 DEF GInv, Guarded, LoadGuarded
  <2>4. ValidateGuarded'
    <3> SUFFICES ASSUME request.op = "validate"
        PROVE  /\ frames'[1].op = "validate"
               /\ Len(frames') >= 2 => frames'[2].op = "check" /\ frames'[2].by = "validate"
      BY <1>0, <2>1, <2>2 DEF ValidateGuarded
    <3>1. /\ Len(frames) >= 1 => frames[1].op = "validate"
          /\ Len(frames) >= 2 => frames[2].op = "check" /\ frames[2].by = "validate"
      BY DEF GInv, Guarded, ValidateGuarded
    <3>2. CASE Len(frames) = 0
      BY <2>2, <3>2
    <3>3. CASE Len(frames) = 1
      BY <2>2, <3>1, <3>3
    <3>4. CASE Len(frames) >= 2
      BY <1>0, <2>2, <3>1, <3>4
    <3>5. Len(frames) = 0 \/ Len(frames) = 1 \/ Len(frames) >= 2
      <4>1. \A n \in Nat : n = 0 \/ n = 1 \/ n >= 2
        OBVIOUS
      <4> QED
        BY <1>0, <4>1
    <3> QED
      BY <3>2, <3>3, <3>4, <3>5
  <2> QED
    BY <2>1, <2>3, <2>4 DEF GInv, Guarded, LoadsCatch
<1>2. CASE ~(Len(frames) < MaxDepth)
  BY <1>2 DEF Push, End, Guarded, LoadGuarded, ValidateGuarded, LoadsCatch
<1> QED
  BY <1>1, <1>2

\* The try blocks stay where they are.
LEMMA ContinueGuarded ==
  ASSUME GInv, frames # <<>>, NEW frame \in Any, Continue(frame),
         \/ frame.op = Top.op /\ frame.by = Top.by
         \/ Top.op = "check" /\ Top.by \in {"apply", "generate"}
  PROVE  Guarded' /\ LoadsCatch'
<1>0. TInv /\ frames \in Seq(Any) /\ Len(frames) \in Nat \ {0}
  BY Lengths DEF GInv
<1>1. /\ Len(frames') = Len(frames) /\ frames' # <<>>
      /\ \A i \in 1..Len(frames) - 1 : frames'[i] = frames[i]
      /\ frames'[Len(frames)] = frame
  BY <1>0, ReplaceProperties DEF Continue
<1>2. ret' = "none" /\ request' = request /\ answer' = answer
  BY DEF Continue
<1>3. LoadGuarded'
  BY <1>0, <1>1, <1>2 DEF GInv, Guarded, LoadGuarded, Top
<1>4. ValidateGuarded'
  BY <1>0, <1>1, <1>2 DEF GInv, Guarded, ValidateGuarded, Top
<1> QED
  BY <1>2, <1>3, <1>4 DEF GInv, Guarded, LoadsCatch

\* What leaves the outermost try block is no exception.
LEMMA PopGuarded ==
  ASSUME GInv, frames # <<>>, NEW r \in Outcomes, Pop(r), request # None,
         request.op = "load" /\ Len(frames) = 1 => r # "throw",
         request.op = "validate" /\ Len(frames) <= 2 => r # "throw"
  PROVE  Guarded' /\ LoadsCatch'
<1>0. TInv /\ frames \in Seq(Any) /\ Len(frames) \in Nat \ {0}
  BY Lengths DEF GInv
<1>1. /\ frames' \in Seq(Any)
      /\ Len(frames') = Len(frames) - 1
      /\ \A i \in 1..Len(frames') : frames'[i] = frames[i]
  BY <1>0, PopProperties DEF Pop, Below
<1>2. frames' = <<>> <=> Len(frames') = 0
  BY <1>1, EmptySeq
<1>3. ret' = r /\ request' = request /\ answer' = answer
  BY DEF Pop
<1>4. LoadGuarded'
  BY <1>0, <1>1, <1>2, <1>3 DEF GInv, Guarded, LoadGuarded
<1>5. ValidateGuarded'
  <2> SUFFICES ASSUME request.op = "validate"
      PROVE  /\ Len(frames') <= 1 => r # "throw"
             /\ Len(frames') >= 1 => frames'[1].op = "validate"
             /\ Len(frames') >= 2 => frames'[2].op = "check" /\ frames'[2].by = "validate"
    BY <1>3 DEF ValidateGuarded
  <2>1. /\ Len(frames) >= 1 => frames[1].op = "validate"
        /\ Len(frames) >= 2 => frames[2].op = "check" /\ frames[2].by = "validate"
    BY DEF GInv, Guarded, ValidateGuarded
  <2>2. Len(frames') \in Nat /\ (Len(frames') <= 1 => Len(frames) <= 2)
    BY <1>0, <1>1
  <2>3. Len(frames') >= 1 => frames'[1] = frames[1] /\ Len(frames) >= 1
    BY <1>0, <1>1
  <2>4. Len(frames') >= 2 => frames'[2] = frames[2] /\ Len(frames) >= 2
    BY <1>0, <1>1
  <2> QED
    BY <2>1, <2>2, <2>3, <2>4
<1> QED
  BY <1>3, <1>4, <1>5 DEF GInv, Guarded, LoadsCatch

\* A call that ends at once within the try blocks throws to them.
LEMMA ReturnGuarded ==
  ASSUME GInv, NEW r \in Outcomes, Return(r),
         request.op = "load" /\ frames = <<>> => r # "throw",
         request.op = "validate" /\ Len(frames) <= 1 => r # "throw"
  PROVE  Guarded' /\ LoadsCatch'
  BY DEF GInv, Guarded, LoadGuarded, ValidateGuarded, LoadsCatch, Return

\* Loading a schema keeps what lies at the bottom, and fails without throwing.
LEMMA LoadGuards ==
  ASSUME GInv, NEW by \in {"load", "apply", "generate", "validate"},
         NEW name \in Names, NEW node \in Nodes, Load(by, name, node), request # None,
         request.op = "load" /\ frames = <<>> => by = "load",
         request.op = "validate" => Len(frames) # 0,
         request.op = "validate" /\ Len(frames) = 1 => by = "validate"
  PROVE  Guarded' /\ LoadsCatch'
<1>1. CASE lib[name] = Missing
  <2>1. Failed(by) \in Outcomes /\ (by \in {"load", "validate"} => Failed(by) # "throw")
    BY DEF Failed, Outcomes
  <2>2. Return(Failed(by))
    BY <1>1 DEF Load
  <2>3. request.op = "validate" /\ Len(frames) <= 1 => by = "validate"
    <3>1. Len(frames) \in Nat /\ \A n \in Nat : n <= 1 => n = 0 \/ n = 1
      BY Lengths DEF GInv
    <3> QED
      BY <3>1
  <2> QED
    BY <2>1, <2>2, <2>3, ReturnGuarded
<1>2. CASE lib[name] # Missing
  <2>1. PICK frame : frame = Frame("check", by, name, node)
    OBVIOUS
  <2>2. frame \in Any /\ frame.op = "check" /\ frame.by = by
    BY <2>1 DEF Frame, Any, Walk
  <2>3. Push(frame)
    BY <1>2, <2>1 DEF Load
  <2>4. /\ request.op = "load" /\ frames = <<>> => frame.op = "check" /\ frame.by = "load"
        /\ request.op = "validate" /\ Len(frames) = 0 => frame.op = "validate"
        /\ request.op = "validate" /\ Len(frames) = 1 => frame.op = "check" /\ frame.by = "validate"
    BY <2>2
  <2> QED
    BY <2>2, <2>3, <2>4, PushGuarded
<1> QED
  BY <1>1, <1>2

\* applySchema runs above the try blocks, or for a request of its own.
LEMMA ApplyGuards ==
  ASSUME GInv, NEW type \in Types, NEW node \in Nodes, Apply(type, node), request # None,
         request.op = "load" => frames # <<>>,
         request.op = "validate" => Len(frames) >= 2
  PROVE  Guarded' /\ LoadsCatch'
<1>0. Len(frames) \in Nat
  BY Lengths DEF GInv
<1>1. CASE type = Trivial
  <2>1. Said(node = Leaf) \in Outcomes
    BY DEF Said, Outcomes
  <2>2. Return(Said(node = Leaf))
    BY <1>1, DistinctAssumption DEF Apply
  <2> QED
    BY <1>0, <2>1, <2>2, ReturnGuarded
<1>2. CASE type # Trivial /\ type = Malformed
  <2>1. Return("throw")
    BY <1>2 DEF Apply
  <2> QED
    BY <1>0, <2>1, ReturnGuarded DEF Outcomes
<1>3. CASE type # Trivial /\ type # Malformed
  <2>1. type \in Names /\ Load("apply", type, node)
    BY <1>3 DEF Apply, Types
  <2>2. request.op = "validate" => Len(frames) # 0 /\ Len(frames) # 1
    <3>1. \A n \in Nat : n >= 2 => n # 0 /\ n # 1
      OBVIOUS
    <3> QED
      BY <1>0, <3>1
  <2>3. "apply" \in {"load", "apply", "generate", "validate"}
    OBVIOUS
  <2> QED
    BY <2>1, <2>2, <2>3, LoadGuards
<1> QED
  BY <1>1, <1>2, <1>3

\* Where the walks of a load and of a validation can be.
LEMMA Above ==
  ASSUME GInv, frames # <<>>, request # None
  PROVE  /\ Len(frames) \in Nat \ {0}
         /\ request.op = "load" /\ Len(frames) = 1 => Top.op = "check" /\ Top.by = "load"
         /\ request.op = "validate" /\ Len(frames) = 1 => Top.op = "validate" /\ ret # "throw"
         /\ request.op = "validate" /\ Len(frames) = 2 => Top.op = "check" /\ Top.by = "validate"
         /\ Top.op = "validate" => Len(frames) = 1
<1>0. TInv /\ Len(frames) \in Nat \ {0}
  BY Lengths DEF GInv
<1> QED
  BY <1>0, TopTypes DEF GInv, Guarded, LoadGuarded, ValidateGuarded, Top, Fits, TInv

-----------------------------------------------------------------------------
\* The steps, one by one.
LEMMA StartGuarded == ASSUME GInv, Start PROVE Guarded' /\ LoadsCatch'
<1>0. TInv
  BY DEF GInv
<1>1. request \in Requests /\ request # None /\ frames = <<>> /\ Len(frames) = 0
  BY <1>0, Lengths DEF Start, TInv, TypeOK
<1>2. CASE request.op = "apply"
  <2>1. request.type \in Types /\ request.node \in Nodes /\ Apply(request.type, request.node)
    BY <1>1, <1>2 DEF Requests, Request, Start
  <2> QED
    BY <1>1, <1>2, <2>1, ApplyGuards
<1>3. CASE request.op = "validate"
  <2>1. /\ Frame("validate", "none", "none", Leaf) \in Any
        /\ Frame("validate", "none", "none", Leaf).op = "validate"
    BY DEF Frame, Validation, Any
  <2>2. Push(Frame("validate", "none", "none", Leaf))
    BY <1>1, <1>3 DEF Start
  <2> QED
    BY <1>1, <1>3, <2>1, <2>2, PushGuarded
<1>4. CASE request.op # "apply" /\ request.op # "validate"
  <2>1. request.op \in {"load", "generate"} /\ request.type \in Names /\ Load(request.op, request.type, Leaf)
    BY <1>1, <1>4 DEF Requests, Request, Start
  <2> QED
    BY <1>1, <1>4, <2>1, NodesAssumption, LoadGuards
<1> QED
  BY <1>2, <1>3, <1>4


LEMMA FinishGuarded == ASSUME GInv, Finish PROVE Guarded' /\ LoadsCatch'
<1>1. answer' = [request |-> request, is |-> ret] /\ request' = None
  BY DEF Finish, End
<1>2. Len(frames) = 0
  BY Lengths DEF GInv, Finish
<1>3. ret = "throw" => request.op \notin {"load", "validate"}
  BY <1>2 DEF Finish, GInv, Guarded, LoadGuarded, ValidateGuarded
<1> QED
  BY <1>1, <1>3 DEF Guarded, LoadGuarded, ValidateGuarded, LoadsCatch

\* A walk through a schema lies above the try blocks, or is the one in them.
LEMMA WithinGuards ==
  ASSUME GInv, frames # <<>>, Top.op # "validate"
  PROVE  /\ request # None /\ TInv /\ Top \in Walk
         /\ Len(Schema) \in Nat /\ Top.at \in Nat \ {0} /\ Len(frames) \in Nat \ {0}
         /\ request.op = "validate" => Len(frames) >= 2
<1>1. TInv /\ request # None
  BY DEF GInv, TInv, Running
<1>2. Top \in Walk /\ Len(Schema) \in Nat /\ Top.at \in Nat \ {0}
  BY <1>1, TopTypes, ParameterTypes DEF TInv
<1>3. /\ Len(frames) \in Nat \ {0}
      /\ request.op = "validate" /\ Len(frames) = 1 => Top.op = "validate"
  BY <1>1, Above
<1>4. \A n \in Nat \ {0} : n # 1 => n >= 2
  OBVIOUS
<1>5. request.op = "validate" => Len(frames) >= 2
  BY <1>3, <1>4
<1> QED
  BY <1>1, <1>2, <1>3, <1>5

LEMMA CheckGuarded == ASSUME GInv, Check PROVE Guarded' /\ LoadsCatch'
<1>0. frames # <<>> /\ Top.op = "check" /\ ret = "none"
  BY DEF Check
<1>1. /\ request # None /\ TInv /\ Top \in Walk
      /\ Len(Schema) \in Nat /\ Top.at \in Nat \ {0} /\ Len(frames) \in Nat \ {0}
      /\ request.op = "validate" => Len(frames) >= 2
  BY <1>0, WithinGuards
<1>2. ASSUME NEW r \in {"true", "false"}, Pop(r) PROVE Guarded' /\ LoadsCatch'
  BY <1>0, <1>1, <1>2, PopGuarded DEF Outcomes
<1>3. CASE Top.at > Len(Schema)
  <2>1. CASE Top.by \in {"load", "validate"}
    BY <1>0, <1>1, <1>2, <1>3, <2>1 DEF Check
  <2>2. CASE Top.by = "apply" /\ Top.node = Leaf
    BY <1>0, <1>1, <1>2, <1>3, <2>2 DEF Check
  <2>3. CASE Top.by \notin {"load", "validate"} /\ ~(Top.by = "apply" /\ Top.node = Leaf)
    <3>1. Top.by \in {"apply", "generate"}
      BY <1>1, <2>3 DEF Walk
    <3>2. PICK op, at : op = Top.by /\ at = 1
      OBVIOUS
    <3>3. op \in {"check", "apply", "generate"} /\ at \in Nat \ {0}
      BY <3>1, <3>2
    <3>4. [Top EXCEPT !.op = op, !.at = at] \in Any
      BY <1>1, <3>3 DEF Any, Walk
    <3>5. Continue([Top EXCEPT !.op = op, !.at = at])
      BY <1>0, <1>1, <1>3, <2>3, <3>2 DEF Check
    <3> QED
      BY <1>0, <3>1, <3>4, <3>5, ContinueGuarded
  <2> QED
    BY <2>1, <2>2, <2>3
<1>4. CASE Top.at <= Len(Schema)
  <2>0. Parameter \in Params
    BY <1>0, <1>1, <1>4, ParameterTypes DEF TInv
  <2>1. CASE Default(Parameter) = None
    <3>1. Continue([Top EXCEPT !.at = @ + 1])
      BY <1>0, <1>1, <1>4, <2>1 DEF Check
    <3>2. /\ [Top EXCEPT !.at = @ + 1] \in Any
          /\ [Top EXCEPT !.at = @ + 1].op = Top.op /\ [Top EXCEPT !.at = @ + 1].by = Top.by
      BY <1>1 DEF Any, Walk
    <3> QED
      BY <1>0, <3>1, <3>2, ContinueGuarded
  <2>2. CASE Default(Parameter) # None /\ Parameter.mandatory
    <3>1. Return("throw")
      BY <1>0, <1>1, <1>4, <2>2 DEF Check
    <3>2. ~(request.op = "validate" /\ Len(frames) <= 1)
      BY <1>1
    <3> QED
      BY <1>0, <3>1, <3>2, ReturnGuarded DEF Outcomes
  <2>3. CASE Default(Parameter) # None /\ ~Parameter.mandatory
    <3>1. Apply(Parameter.type, Default(Parameter))
      BY <1>0, <1>1, <1>4, <2>3 DEF Check
    <3>2. Parameter.type \in Types /\ Default(Parameter) \in Nodes
      BY <2>0, <2>3 DEF Params, Default
    <3> QED
      BY <1>0, <1>1, <3>1, <3>2, ApplyGuards
  <2> QED
    BY <2>1, <2>2, <2>3
<1> QED
  BY <1>1, <1>3, <1>4

LEMMA ApplyRecursiveGuarded == ASSUME GInv, ApplyRecursive PROVE Guarded' /\ LoadsCatch'
<1>0. frames # <<>> /\ Top.op = "apply" /\ ret = "none"
  BY DEF ApplyRecursive
<1>1. /\ request # None /\ TInv /\ Top \in Walk
      /\ Len(Schema) \in Nat /\ Top.at \in Nat \ {0} /\ Len(frames) \in Nat \ {0}
      /\ request.op = "validate" => Len(frames) >= 2
  BY <1>0, WithinGuards
<1>2. \A b : Said(b) \in Outcomes /\ Said(b) # "throw"
  BY DEF Said, Outcomes
<1>3. CASE Top.at > Len(Schema)
  <2>1. Pop(Said(Top.ok))
    BY <1>0, <1>1, <1>3 DEF ApplyRecursive
  <2> QED
    BY <1>0, <1>1, <1>2, <2>1, PopGuarded
<1>4. CASE Top.at <= Len(Schema) /\ Top.at \in DOMAIN Top.node.f
  <2>1. Apply(Parameter.type, Top.node.f[Top.at])
    BY <1>0, <1>1, <1>4 DEF ApplyRecursive
  <2>2. Parameter \in Params
    BY <1>0, <1>1, <1>4, ParameterTypes DEF TInv
  <2>3. Top.node # Leaf
    BY <1>0, <1>1, TopTypes DEF TInv, Fits, Loaded
  <2>4. Parameter.type \in Types /\ Top.node.f[Top.at] \in Nodes
    BY <1>1, <1>4, <2>2, <2>3, NodesAssumption DEF Params, Walk
  <2> QED
    BY <1>0, <1>1, <2>1, <2>4, ApplyGuards
<1>5. CASE Top.at <= Len(Schema) /\ Top.at \notin DOMAIN Top.node.f
  <2>1. Return(Said(~Parameter.mandatory))
    BY <1>0, <1>1, <1>5 DEF ApplyRecursive
  <2> QED
    BY <1>2, <2>1, ReturnGuarded
<1> QED
  BY <1>1, <1>3, <1>4, <1>5

LEMMA SchemaToYamlGuarded == ASSUME GInv, SchemaToYaml PROVE Guarded' /\ LoadsCatch'
<1>0. frames # <<>> /\ Top.op = "generate" /\ ret = "none"
  BY DEF SchemaToYaml
<1>1. /\ request # None /\ TInv /\ Top \in Walk
      /\ Len(Schema) \in Nat /\ Top.at \in Nat \ {0} /\ Len(frames) \in Nat \ {0}
      /\ request.op = "validate" => Len(frames) >= 2
  BY <1>0, WithinGuards
<1>2. ~(request.op = "load" /\ frames = <<>>) /\ ~(request.op = "validate" /\ Len(frames) <= 1)
  BY <1>0, <1>1
<1>3. CASE Top.at > Len(Schema)
  <2>1. Pop("true")
    BY <1>0, <1>1, <1>3 DEF SchemaToYaml
  <2> QED
    BY <1>0, <1>1, <2>1, PopGuarded DEF Outcomes
<1>4. CASE Top.at <= Len(Schema) /\ Parameter.type \in {Trivial, Malformed}
  <2>1. Return("true") \/ Return("throw")
    BY <1>0, <1>1, <1>4, DistinctAssumption DEF SchemaToYaml
  <2> QED
    BY <1>2, <2>1, ReturnGuarded DEF Outcomes
<1>5. CASE Top.at <= Len(Schema) /\ Parameter.type \notin {Trivial, Malformed}
  <2>1. Load("generate", Parameter.type, Leaf)
    BY <1>0, <1>1, <1>5 DEF SchemaToYaml
  <2>2. Parameter.type \in Names
    BY <1>0, <1>1, <1>5, ParameterTypes DEF TInv, Params, Types
  <2>3. request.op = "validate" => Len(frames) # 0 /\ Len(frames) # 1
    <3>1. \A n \in Nat : n >= 2 => n # 0 /\ n # 1
      OBVIOUS
    <3> QED
      BY <1>1, <3>1
  <2> QED
    BY <1>0, <1>1, <2>1, <2>2, <2>3, NodesAssumption, LoadGuards
<1> QED
  BY <1>1, <1>3, <1>4, <1>5

LEMMA ValidateStepGuarded == ASSUME GInv, Validate PROVE Guarded' /\ LoadsCatch'
<1>0. frames # <<>> /\ Top.op = "validate" /\ ret = "none"
  BY DEF Validate
<1>1. TInv /\ request # None
  BY <1>0 DEF GInv, TInv, Running
<1>2. Len(frames) = 1
  BY <1>0, <1>1, Above
<1>3. Top \in Validation /\ Top.at \in Nat \ {0} /\ Len(Listing) \in Nat
  BY <1>0, <1>1, TopTypes, ListingAssumption DEF TInv, Validation
<1>4. ~(request.op = "load" /\ frames = <<>>) /\ Len(frames) # 0
  BY <1>0, <1>2
<1>5. CASE Top.at > Len(Listing)
  <2>1. Pop(Said(Top.ok)) /\ Said(Top.ok) \in Outcomes /\ Said(Top.ok) # "throw"
    BY <1>5 DEF Validate, Said, Outcomes
  <2> QED
    BY <1>0, <1>1, <2>1, PopGuarded
<1>6. CASE ~(Top.at > Len(Listing))
  <2>1. Load("validate", Listing[Top.at], Leaf)
    BY <1>6 DEF Validate
  <2>2. Listing[Top.at] \in Names
    BY <1>3, <1>6, ListingAssumption, ElementOfSeq
  <2> QED
    BY <1>0, <1>1, <1>4, <2>1, <2>2, NodesAssumption, LoadGuards
<1> QED
  BY <1>5, <1>6

\* The only step that lets exceptions pass, and catches them.
LEMMA ResumeGuarded == ASSUME GInv, Resume PROVE Guarded' /\ LoadsCatch'
<1>0. frames # <<>> /\ ret # "none"
  BY DEF Resume
<1>1. TInv /\ request # None /\ ret \in Outcomes
  BY <1>0 DEF GInv, TInv, TypeOK, Running
<1>2. /\ Len(frames) \in Nat \ {0}
      /\ request.op = "load" /\ Len(frames) = 1 => Top.op = "check" /\ Top.by = "load"
      /\ request.op = "validate" /\ Len(frames) = 1 => Top.op = "validate" /\ ret # "throw"
      /\ request.op = "validate" /\ Len(frames) = 2 => Top.op = "check" /\ Top.by = "validate"
  BY <1>0, <1>1, Above
<1>3. Len(frames) <= 2 => Len(frames) = 1 \/ Len(frames) = 2
  <2>1. \A n \in Nat \ {0} : n <= 2 => n = 1 \/ n = 2
    OBVIOUS
  <2> QED
    BY <1>2, <2>1
<1>4. CASE Top.op = "check" /\ ret # "true"
  <2>1. /\ Pop(Failed(Top.by)) /\ Failed(Top.by) \in Outcomes
        /\ Top.by \in {"load", "validate"} => Failed(Top.by) # "throw"
    BY <1>4 DEF Resume, Failed, Outcomes
  <2>2. request.op = "validate" /\ Len(frames) <= 2 => Top.by = "validate"
    BY <1>2, <1>3, <1>4
  <2>3. request.op = "load" /\ Len(frames) = 1 => Top.by = "load"
    BY <1>2
  <2> QED
    BY <1>0, <1>1, <2>1, <2>2, <2>3, PopGuarded
<1>5. CASE Top.op # "check" /\ ret = "throw"
  <2>1. Pop("throw")
    BY <1>5 DEF Resume
  <2>2. ~(request.op = "validate" /\ Len(frames) <= 2) /\ ~(request.op = "load" /\ Len(frames) = 1)
    BY <1>2, <1>3, <1>5
  <2> QED
    BY <1>0, <1>1, <2>1, <2>2, PopGuarded DEF Outcomes
<1>6. CASE ~(Top.op = "check" /\ ret # "true") /\ ~(Top.op # "check" /\ ret = "throw")
  <2>1. PICK at, ok : at = Behind(Top, ret) /\ ok = Verdict(Top.ok, ret)
    OBVIOUS
  <2>2. at \in Nat \ {0} /\ ok \in BOOLEAN
    BY <1>0, <1>1, <2>1, TopTypes DEF TInv, Behind, Verdict, Any, Walk, Validation
  <2>3. Continue([Top EXCEPT !.at = at, !.ok = ok])
    BY <1>6, <2>1 DEF Resume
  <2>4. Top \in Walk \/ Top \in Validation
    BY <1>0, <1>1, TopTypes DEF TInv, Any
  <2>5. /\ [Top EXCEPT !.at = at, !.ok = ok] \in Any
        /\ [Top EXCEPT !.at = at, !.ok = ok].op = Top.op /\ [Top EXCEPT !.at = at, !.ok = ok].by = Top.by
    BY <2>2, <2>4 DEF Any, Walk, Validation
  <2> QED
    BY <1>0, <2>3, <2>5, ContinueGuarded
<1> QED
  BY <1>4, <1>5, <1>6

-----------------------------------------------------------------------------
LEMMA InitGInv == Init => GInv
<1> SUFFICES ASSUME Init PROVE GInv
  OBVIOUS
<1>1. TInv
  BY InitTInv
<1> QED
  BY <1>1 DEF Init, GInv, Guarded, LoadGuarded, ValidateGuarded, LoadsCatch, NoAnswer

\* Every step keeps the try blocks where they are.
LEMMA NextGInv == GInv /\ [Next]_vars => GInv'
<1> SUFFICES ASSUME GInv, [Next]_vars PROVE GInv'
  OBVIOUS
<1>1. TInv'
  BY NextTInv DEF GInv
<1>2. ASSUME NEW r \in Inputs, Call(r) PROVE Guarded' /\ LoadsCatch'
  <2>1. frames' = <<>> /\ ret' = "none" /\ answer' = NoAnswer
    BY <1>2 DEF Call, GInv, TInv, Running
  <2>2. Len(frames') = 0
    BY <2>1
  <2> QED
    BY <2>1, <2>2 DEF Guarded, LoadGuarded, ValidateGuarded, LoadsCatch, NoAnswer
<1>3. ASSUME Step PROVE Guarded' /\ LoadsCatch'
  BY <1>3, StartGuarded, FinishGuarded, CheckGuarded, ApplyRecursiveGuarded, SchemaToYamlGuarded,
     ValidateStepGuarded, ResumeGuarded DEF Step
<1>4. ASSUME UNCHANGED vars PROVE Guarded' /\ LoadsCatch'
  BY <1>4 DEF vars, GInv, Guarded, LoadGuarded, ValidateGuarded, LoadsCatch
<1> QED
  <2>1. Guarded' /\ LoadsCatch'
    BY <1>2, <1>3, <1>4 DEF Next
  <2> QED
    BY <1>1, <2>1 DEF GInv

\* Whatever is wrong with the schemas and at whatever depth it is found, loadSchema
\* and validateAllSchemas do not throw it on.
THEOREM LoadsAreCaught == Spec => []LoadsCatch
<1>1. GInv => LoadsCatch
  BY DEF GInv
<1> QED
  BY <1>1, InitGInv, NextGInv, PTL DEF Spec

-----------------------------------------------------------------------------
(***************************************************************************)
(* That the recursion of loads and checks computes what SchemaRequests     *)
(* promises, for any schemas, inputs and depth of the stack.               *)
(*                                                                         *)
(* The invariant says what every walk on the stack is for (Goal), that it  *)
(* has gone past nothing that would have stopped it (Walked), and that     *)
(* what it finds is what the walk below waits for (Linked).                *)
(***************************************************************************)

Answers(L) == Abstract!Answers(L)
Gone == Abstract!Gone
Cautious == Gone \cup {"false"}

\* The request that a walk serves.
Goal(frame) ==
  IF frame.op = "validate" THEN Request("validate", Trivial, Leaf)
  ELSE Request(IF frame.by = "validate" THEN "load" ELSE frame.by, frame.name,
               IF frame.by = "apply" THEN frame.node ELSE Leaf)

\* What the calls of a walk give, and which outcomes end it.
Turn(L, frame, inner) ==
  CASE frame.op = "check" -> Abstract!GivenAll(L[frame.name], inner)
    [] frame.op = "apply" -> Abstract!Children(L[frame.name], frame.node, inner)
    [] frame.op = "generate" -> Abstract!Parts(L[frame.name], inner)
    [] OTHER -> Abstract!Files(inner)
Size(L, frame) == IF frame.op = "validate" THEN Len(Listing) ELSE Len(L[frame.name])
Stops(frame) == IF frame.op = "check" THEN Cautious ELSE Gone

\* A walk has gone past nothing that stops it, and knows what it has seen; the
\* schema that is applied, or that a template is made of, has been checked.
Walked(L, frame, inner) ==
  /\ frame.at \in 1..(Size(L, frame) + 1)
  /\ frame.op \in {"apply", "generate"} =>
       frame.by = frame.op /\ Abstract!InTurn(Abstract!GivenAll(L[frame.name], inner), Cautious) = "true"
  /\ \A j \in 1..(frame.at - 1) : Turn(L, frame, inner)[j] \notin Stops(frame)
  /\ frame.ok <=> \A j \in 1..(frame.at - 1) : Turn(L, frame, inner)[j] = "true"

\* The answers to what the walk at place i of a stack asks for.
Inner(L, i) == Answers(L)[MaxDepth - i]

\* What the walk at place i, or the caller at place 0, waits for.
Awaited(L, r, stack, i) ==
  IF i = 0 THEN Answers(L)[MaxDepth][r] ELSE Turn(L, stack[i], Inner(L, i))[stack[i].at]

Linked(L, r, stack, i) == Inner(L, i - 1)[Goal(stack[i])] = Awaited(L, r, stack, i - 1)

Due ==
  /\ \A i \in 1..Len(frames) : Walked(lib, frames[i], Inner(lib, i))
  /\ \A i \in 1..Len(frames) : Linked(lib, request, frames, i)
  /\ \A i \in 1..Len(frames) : i < Len(frames) \/ ret # "none" => frames[i].at <= Size(lib, frames[i])
  /\ ret # "none" => Awaited(lib, request, frames, Len(frames)) = ret

DInv == TInv /\ Due

-----------------------------------------------------------------------------
\* What an answer can be, and all the answers with room for some number of calls:
\* a template is never refused, it is made or an exception is thrown.
Four == {"true", "false", "throw", "crash"}
Table == {g \in [Requests -> Four] : \A r \in Requests : r.op = "generate" => g[r] # "false"}

\* The requests of the two modules are the same.
LEMMA SameRequests ==
  /\ Abstract!Requests = Requests /\ Abstract!Leaf = Leaf
  /\ \A op, type, node : Abstract!Request(op, type, node) = Request(op, type, node)
  BY DEF Abstract!Requests, Abstract!Request, Abstract!Leaf, Abstract!Types, Requests, Request, Leaf, Types

\* The requests there are.
LEMMA RequestTypes ==
  /\ \A type \in Names : Request("load", type, Leaf) \in Requests /\ Request("generate", type, Leaf) \in Requests
  /\ \A type \in Types, node \in Nodes : Request("apply", type, node) \in Requests
  /\ Request("validate", Trivial, Leaf) \in Requests
  /\ \A op, type, node : /\ Request(op, type, node).op = op
                         /\ Request(op, type, node).type = type /\ Request(op, type, node).node = node
  BY DEF Request, Requests

\* The first outcome that stops the calls is what they give.
LEMMA InTurnStops ==
  ASSUME NEW n \in Nat, NEW outcome, DOMAIN outcome = 1..n, NEW stops, NEW k \in 1..n,
         outcome[k] \in stops, \A j \in 1..(k - 1) : outcome[j] \notin stops
  PROVE  Abstract!InTurn(outcome, stops) = outcome[k]
<1> DEFINE stopping == {i \in DOMAIN outcome : outcome[i] \in stops}
           first == CHOOSE i \in stopping : \A j \in stopping : i <= j
<1>1. k \in stopping
  OBVIOUS
<1>2. \A j \in stopping : j \in 1..n /\ k <= j
  OBVIOUS
<1>3. \A i \in stopping : (\A j \in stopping : i <= j) => i = k
  BY <1>1, <1>2
<1>4. first = k
  <2>1. \E i \in stopping : \A j \in stopping : i <= j
    BY <1>1, <1>2
  <2> HIDE DEF stopping
  <2> QED
    BY <1>3, <2>1
<1>5. stopping # {}
  BY <1>1
<1>6. Abstract!InTurn(outcome, stops) =
        IF stopping = {} THEN Abstract!Said(\A i \in DOMAIN outcome : outcome[i] = "true") ELSE outcome[first]
  BY DEF Abstract!InTurn
<1> HIDE DEF stopping, first
<1> QED
  BY <1>4, <1>5, <1>6

\* If none stops them, they are accepted if all are.
LEMMA InTurnAll ==
  ASSUME NEW n \in Nat, NEW outcome, DOMAIN outcome = 1..n, NEW stops,
         \A j \in 1..n : outcome[j] \notin stops
  PROVE  Abstract!InTurn(outcome, stops) = Abstract!Said(\A j \in 1..n : outcome[j] = "true")
  BY DEF Abstract!InTurn

\* One after the other gives what one of them gave, or true or false.
LEMMA InTurnType ==
  ASSUME NEW n \in Nat, NEW outcome, DOMAIN outcome = 1..n, NEW stops, \A j \in 1..n : outcome[j] \in Four
  PROVE  /\ Abstract!InTurn(outcome, stops) \in Four
         /\ (\A j \in 1..n : outcome[j] # "false") /\ stops = Gone => Abstract!InTurn(outcome, stops) # "false"
<1>1. CASE \A j \in 1..n : outcome[j] \notin stops
  <2>1. Abstract!InTurn(outcome, stops) = Abstract!Said(\A j \in 1..n : outcome[j] = "true")
    BY <1>1, InTurnAll
  <2>2. ASSUME \A j \in 1..n : outcome[j] # "false", stops = Gone PROVE \A j \in 1..n : outcome[j] = "true"
    BY <1>1, <2>2 DEF Gone, Abstract!Gone, Four
  <2> QED
    BY <2>1, <2>2 DEF Abstract!Said, Four
<1>2. CASE \E j \in 1..n : outcome[j] \in stops
  <2> DEFINE T == {j \in 1..n : outcome[j] \in stops}
  <2>1. T \in SUBSET Nat /\ T # {}
    BY <1>2
  <2>2. PICK k \in T : \A j \in T : k <= j
    <3> HIDE DEF T
    <3> QED
      BY <2>1, Least
  <2>3. k \in 1..n /\ outcome[k] \in stops /\ \A j \in 1..(k - 1) : outcome[j] \notin stops
    BY <2>2
  <2>4. Abstract!InTurn(outcome, stops) = outcome[k]
    BY <2>3, InTurnStops
  <2> QED
    BY <2>3, <2>4
<1> QED
  BY <1>1, <1>2

\* The parameters of a schema.
LEMMA SchemaTypes ==
  ASSUME NEW schema \in Seq(Params)
  PROVE  /\ Len(schema) \in Nat /\ DOMAIN schema = 1..Len(schema)
         /\ \A i \in 1..Len(schema) :
              /\ schema[i] \in Params /\ schema[i].type \in Types /\ schema[i].mandatory \in BOOLEAN
              /\ schema[i].default \in Nodes \cup {None}
<1>1. Len(schema) \in Nat /\ DOMAIN schema = 1..Len(schema) /\ \A i \in 1..Len(schema) : schema[i] \in Params
  BY ElementOfSeq
<1> QED
  BY <1>1 DEF Params

\* What the parameters give is an answer.
LEMMA TurnTypes ==
  ASSUME NEW schema \in Seq(Params), NEW inner \in Table
  PROVE  /\ DOMAIN Abstract!GivenAll(schema, inner) = 1..Len(schema)
         /\ \A i \in 1..Len(schema) : Abstract!GivenAll(schema, inner)[i] \in Four
         /\ DOMAIN Abstract!Parts(schema, inner) = 1..Len(schema)
         /\ \A i \in 1..Len(schema) : Abstract!Parts(schema, inner)[i] \in Four \ {"false"}
         /\ \A node \in Nodes \ {Leaf} :
              /\ DOMAIN Abstract!Children(schema, node, inner) = 1..Len(schema)
              /\ \A i \in 1..Len(schema) : Abstract!Children(schema, node, inner)[i] \in Four
<1>0. /\ Len(schema) \in Nat /\ DOMAIN schema = 1..Len(schema)
      /\ \A i \in 1..Len(schema) :
           /\ schema[i] \in Params /\ schema[i].type \in Types /\ schema[i].mandatory \in BOOLEAN
           /\ schema[i].default \in Nodes \cup {None}
  BY SchemaTypes
<1>1. /\ \A r \in Requests : inner[r] \in Four
      /\ \A type \in Names : inner[Request("generate", type, Leaf)] # "false"
  BY RequestTypes DEF Table
<1>2. ASSUME NEW i \in 1..Len(schema) PROVE Abstract!GivenAll(schema, inner)[i] \in Four
  <2>1. Abstract!GivenAll(schema, inner)[i] = Abstract!Given(schema[i], inner)
    BY <1>0 DEF Abstract!GivenAll
  <2>2. CASE schema[i].default = None \/ schema[i].mandatory
    BY <2>1, <2>2 DEF Abstract!Given, Four
  <2>3. CASE schema[i].default # None /\ ~schema[i].mandatory
    <3>1. Request("apply", schema[i].type, schema[i].default) \in Requests
      BY <1>0, <2>3, RequestTypes
    <3>2. Abstract!GivenAll(schema, inner)[i] = inner[Request("apply", schema[i].type, schema[i].default)]
      BY <2>1, <2>3, SameRequests DEF Abstract!Given
    <3> QED
      BY <1>1, <3>1, <3>2
  <2> QED
    BY <2>2, <2>3
<1>3. ASSUME NEW i \in 1..Len(schema) PROVE Abstract!Parts(schema, inner)[i] \in Four \ {"false"}
  <2>1. Abstract!Parts(schema, inner)[i] = Abstract!Part(schema[i], inner)
    BY <1>0 DEF Abstract!Parts
  <2>2. CASE schema[i].type \in {Trivial, Malformed}
    BY <2>1, <2>2, DistinctAssumption DEF Abstract!Part, Four
  <2>3. CASE schema[i].type \notin {Trivial, Malformed}
    <3>1. schema[i].type \in Names
      BY <1>0, <2>3 DEF Types
    <3>2. Abstract!Parts(schema, inner)[i] = inner[Request("generate", schema[i].type, Leaf)]
      BY <2>1, <2>3, SameRequests DEF Abstract!Part
    <3> QED
      BY <1>1, <3>1, <3>2, RequestTypes
  <2> QED
    BY <2>2, <2>3
<1>4. ASSUME NEW node \in Nodes \ {Leaf}, NEW i \in 1..Len(schema)
      PROVE  Abstract!Children(schema, node, inner)[i] \in Four
  <2>1. Abstract!Children(schema, node, inner)[i] = Abstract!Child(schema[i], i, node, inner)
    BY <1>0 DEF Abstract!Children
  <2>2. CASE i \in DOMAIN node.f
    <3>1. Request("apply", schema[i].type, node.f[i]) \in Requests
      BY <1>0, <2>2, RequestTypes, NodesAssumption
    <3>2. Abstract!Children(schema, node, inner)[i] = inner[Request("apply", schema[i].type, node.f[i])]
      BY <2>1, <2>2, SameRequests DEF Abstract!Child
    <3> QED
      BY <1>1, <3>1, <3>2
  <2>3. CASE i \notin DOMAIN node.f
    BY <2>1, <2>3 DEF Abstract!Child, Abstract!Said, Four
  <2> QED
    BY <2>2, <2>3
<1> QED
  BY <1>0, <1>2, <1>3, <1>4 DEF Abstract!GivenAll, Abstract!Parts, Abstract!Children

\* So is what the files give.
LEMMA FilesTypes ==
  ASSUME NEW inner \in Table
  PROVE  /\ Len(Listing) \in Nat /\ DOMAIN Abstract!Files(inner) = 1..Len(Listing)
         /\ \A i \in 1..Len(Listing) : /\ Listing[i] \in Names
                                      /\ Abstract!Files(inner)[i] = inner[Request("load", Listing[i], Leaf)]
                                      /\ Abstract!Files(inner)[i] \in Four
<1>1. /\ Len(Listing) \in Nat /\ DOMAIN Listing = 1..Len(Listing)
      /\ \A i \in 1..Len(Listing) : Listing[i] \in Names
  BY ListingAssumption, ElementOfSeq
<1>2. \A i \in 1..Len(Listing) : Request("load", Listing[i], Leaf) \in Requests
  BY <1>1, RequestTypes
<1> QED
  BY <1>1, <1>2, SameRequests DEF Abstract!Files, Table

\* With room for d calls every request has one answer.
LEMMA OutcomeTypes ==
  ASSUME NEW L \in [Names -> Seq(Params) \cup {Missing}], NEW d \in Nat, NEW inner,
         d = 0 \/ inner \in Table, NEW r \in Requests
  PROVE  /\ Abstract!Outcome(L[r.type], d, inner, r) \in Four
         /\ r.op = "generate" => Abstract!Outcome(L[r.type], d, inner, r) # "false"
<1> DEFINE schema == L[r.type]
<1>1. CASE r.op = "validate"
  <2>1. d # 0 => Abstract!InTurn(Abstract!Files(inner), Abstract!Gone) \in Four
    BY FilesTypes, InTurnType
  <2> QED
    BY <1>1, <2>1 DEF Abstract!Outcome, Four
<1>2. CASE r.op = "apply" /\ r.type \in {Trivial, Malformed}
  BY <1>2, DistinctAssumption DEF Abstract!Outcome, Abstract!Said, Four
<1>3. CASE ~(r.op = "apply" /\ r.type \in {Trivial, Malformed}) /\ r.op # "validate"
  <2>1. r.type \in Names /\ r.node \in Nodes /\ r.op \in {"load", "generate", "apply"}
    BY <1>3, NodesAssumption DEF Requests, Request, Types
  <2>2. Abstract!Outcome(schema, d, inner, r) =
          CASE Abstract!Checked(schema, d, inner) = "true" -> Abstract!Served(schema, r, inner)
            [] Abstract!Checked(schema, d, inner) = "crash" -> "crash"
            [] OTHER -> IF r.op = "generate" THEN "throw" ELSE "false"
    BY <1>3 DEF Abstract!Outcome
  <2>3. ASSUME Abstract!Checked(schema, d, inner) = "true"
        PROVE  /\ Abstract!Served(schema, r, inner) \in Four
               /\ r.op = "generate" => Abstract!Served(schema, r, inner) # "false"
    <3>1. schema \in Seq(Params) /\ inner \in Table
      BY <2>1, <2>3 DEF Abstract!Checked
    <3>2. Len(schema) \in Nat
      BY <3>1
    <3>3. CASE r.op = "load"
      BY <3>3 DEF Abstract!Served, Four
    <3>4. CASE r.op = "generate"
      <4>1. Abstract!Served(schema, r, inner) = Abstract!InTurn(Abstract!Parts(schema, inner), Gone)
        BY <3>4 DEF Abstract!Served, Gone
      <4> HIDE DEF schema
      <4>2. /\ DOMAIN Abstract!Parts(schema, inner) = 1..Len(schema)
            /\ \A i \in 1..Len(schema) : Abstract!Parts(schema, inner)[i] \in Four
            /\ \A i \in 1..Len(schema) : Abstract!Parts(schema, inner)[i] # "false"
        BY <3>1, TurnTypes
      <4> QED
        BY <3>2, <4>1, <4>2, InTurnType
    <3>5. CASE r.op = "apply"
      <4>1. Abstract!Served(schema, r, inner) =
              IF r.node = Leaf THEN "false" ELSE Abstract!InTurn(Abstract!Children(schema, r.node, inner), Gone)
        BY <3>5, SameRequests DEF Abstract!Served, Gone
      <4> HIDE DEF schema
      <4>2. r.node # Leaf => Abstract!InTurn(Abstract!Children(schema, r.node, inner), Gone) \in Four
        BY <2>1, <3>1, <3>2, TurnTypes, InTurnType
      <4> QED
        BY <3>5, <4>1, <4>2 DEF Four
    <3> QED
      BY <2>1, <3>3, <3>4, <3>5
  <2> HIDE DEF schema
  <2>4. /\ Abstract!Outcome(schema, d, inner, r) \in Four
        /\ r.op = "generate" => Abstract!Outcome(schema, d, inner, r) # "false"
    BY <2>2, <2>3 DEF Four
  <2> QED
    BY <2>4 DEF schema
<1> QED
  BY <1>1, <1>2, <1>3

\* The answers exist: with room for one call more they come from the answers without.
LEMMA AnswersDefined ==
  ASSUME NEW L \in [Names -> Seq(Params) \cup {Missing}]
  PROVE  /\ Answers(L) \in [0..MaxDepth -> Table]
         /\ \A d \in 0..MaxDepth :
              Answers(L)[d] = [r \in Requests |->
                Abstract!Outcome(L[r.type], d, IF d = 0 THEN <<>> ELSE Answers(L)[d - 1], r)]
<1> DEFINE first == [r \in Requests |-> Abstract!Outcome(L[r.type], 0, <<>>, r)]
           step == [g \in Table |-> [r \in Requests |-> Abstract!Outcome(L[r.type], 1, g, r)]]
           Body(f) == [d \in 0..MaxDepth |-> [r \in Requests |->
                         Abstract!Outcome(L[r.type], d, IF d = 0 THEN <<>> ELSE f[d - 1], r)]]
<1>1. first \in Table
  BY OutcomeTypes DEF Table
<1>2. step \in [Table -> Table]
  <2>1. ASSUME NEW g \in Table PROVE [r \in Requests |-> Abstract!Outcome(L[r.type], 1, g, r)] \in Table
    BY OutcomeTypes DEF Table
  <2> QED
    BY <2>1
<1>3. MaxDepth \in Nat
  BY DepthAssumption
<1>4. PICK f \in [0..MaxDepth -> Table] : f[0] = first /\ \A d \in 1..MaxDepth : f[d] = step[f[d - 1]]
  <2> HIDE DEF first, step
  <2>1. Recursive(Table, first, step, MaxDepth) # {}
    BY <1>1, <1>2, <1>3, RecursiveFunction
  <2> QED
    BY <2>1 DEF Recursive
<1>5. ASSUME NEW d \in 0..MaxDepth
      PROVE  f[d] = [r \in Requests |-> Abstract!Outcome(L[r.type], d, IF d = 0 THEN <<>> ELSE f[d - 1], r)]
  <2>1. CASE d = 0
    BY <1>4, <2>1
  <2>2. CASE d # 0
    <3>1. d \in 1..MaxDepth /\ d - 1 \in 0..MaxDepth
      BY <1>3, <2>2
    <3>2. f[d - 1] \in Table
      BY <1>4, <3>1
    <3>3. f[d] = [r \in Requests |-> Abstract!Outcome(L[r.type], 1, f[d - 1], r)]
      BY <1>4, <3>1, <3>2
    <3>4. ASSUME NEW r \in Requests
          PROVE  Abstract!Outcome(L[r.type], 1, f[d - 1], r) = Abstract!Outcome(L[r.type], d, f[d - 1], r)
      BY <2>2, <3>1 DEF Abstract!Outcome, Abstract!Checked
    <3> QED
      BY <2>2, <3>3, <3>4
  <2> QED
    BY <2>1, <2>2
<1>6. f = Body(f)
  BY <1>4, <1>5
<1>7. Answers(L) = CHOOSE g : g = Body(g)
  BY SameRequests DEF Answers, Abstract!Answers
<1> HIDE DEF Body
<1>8. Answers(L) = Body(Answers(L))
  BY <1>6, <1>7
<1>9. \A d \in 0..MaxDepth : Answers(L)[d] =
        [r \in Requests |-> Abstract!Outcome(L[r.type], d, IF d = 0 THEN <<>> ELSE Answers(L)[d - 1], r)]
  BY <1>8 DEF Body
<1> DEFINE T == {d \in 0..MaxDepth : Answers(L)[d] \in Table}
<1>10. 0 \in T
  BY <1>1, <1>3, <1>9
<1>11. ASSUME NEW d \in 0..MaxDepth, d < MaxDepth, d \in T PROVE d + 1 \in T
  <2>1. d + 1 \in 0..MaxDepth /\ d + 1 # 0 /\ (d + 1) - 1 = d
    BY <1>3, <1>11
  <2>2. Answers(L)[d] \in Table
    BY <1>11
  <2>3. Answers(L)[d + 1] = [r \in Requests |-> Abstract!Outcome(L[r.type], d + 1, Answers(L)[d], r)]
    BY <1>9, <2>1
  <2>4. Answers(L)[d + 1] \in Table
    <3>1. \A r \in Requests :
            /\ Abstract!Outcome(L[r.type], d + 1, Answers(L)[d], r) \in Four
            /\ r.op = "generate" => Abstract!Outcome(L[r.type], d + 1, Answers(L)[d], r) # "false"
      BY <2>1, <2>2, OutcomeTypes
    <3> QED
      BY <2>3, <3>1 DEF Table
  <2> QED
    BY <2>1, <2>4
<1>12. 0..MaxDepth \subseteq T
  <2> HIDE DEF T
  <2> QED
    BY <1>3, <1>10, <1>11, Induction
<1>13. Answers(L) = [d \in 0..MaxDepth |-> Answers(L)[d]]
  BY <1>8 DEF Body
<1>14. \A d \in 0..MaxDepth : Answers(L)[d] \in Table
  BY <1>12
<1> QED
  BY <1>9, <1>13, <1>14

-----------------------------------------------------------------------------
\* A walk through a schema that could be loaded, or through the files.
Sound(L, frame) ==
  /\ frame.op # "validate" => /\ frame \in Walk /\ L[frame.name] \in Seq(Params)
                              /\ frame.op = "apply" => frame.node # Leaf
  /\ frame.op = "validate" => frame \in Validation

\* The calls of a walk, and what they give.
LEMMA TurnOf ==
  ASSUME NEW L, NEW frame, Sound(L, frame), NEW inner \in Table
  PROVE  /\ Size(L, frame) \in Nat /\ DOMAIN Turn(L, frame, inner) = 1..Size(L, frame)
         /\ \A i \in 1..Size(L, frame) :
              /\ Turn(L, frame, inner)[i] \in Four
              /\ frame.op = "generate" => Turn(L, frame, inner)[i] # "false"
<1>1. CASE frame.op = "validate"
  BY <1>1, FilesTypes DEF Turn, Size
<1>2. CASE frame.op # "validate"
  <2>1. L[frame.name] \in Seq(Params) /\ Len(L[frame.name]) \in Nat /\ frame.node \in Nodes
    BY <1>2 DEF Sound, Walk
  <2>2. frame.op \in {"check", "apply", "generate"} /\ (frame.op = "apply" => frame.node # Leaf)
    BY <1>2 DEF Sound, Walk
  <2> QED
    BY <2>1, <2>2, TurnTypes DEF Turn, Size
<1> QED
  BY <1>1, <1>2

\* What a walk is for, and how it is answered.
LEMMA GoalAnswer ==
  ASSUME NEW L \in [Names -> Seq(Params) \cup {Missing}], NEW frame, Sound(L, frame),
         NEW d \in 1..MaxDepth
  PROVE  /\ Answers(L)[d - 1] \in Table /\ Goal(frame) \in Requests
         /\ frame.op = "validate" =>
              Answers(L)[d][Goal(frame)] = Abstract!InTurn(Abstract!Files(Answers(L)[d - 1]), Gone)
         /\ frame.op # "validate" =>
              LET schema == L[frame.name]
                  checked == Abstract!InTurn(Abstract!GivenAll(schema, Answers(L)[d - 1]), Cautious)
              IN Answers(L)[d][Goal(frame)] =
                   CASE checked = "true" -> Abstract!Served(schema, Goal(frame), Answers(L)[d - 1])
                     [] checked = "crash" -> "crash"
                     [] OTHER -> Failed(frame.by)
<1>1. d \in 0..MaxDepth /\ d # 0 /\ d - 1 \in 0..MaxDepth /\ d \in Nat
  BY DepthAssumption
<1>2. Answers(L)[d - 1] \in Table
  BY <1>1, AnswersDefined
<1>3. Answers(L)[d] = [r \in Requests |-> Abstract!Outcome(L[r.type], d, Answers(L)[d - 1], r)]
  BY <1>1, AnswersDefined
<1>4. CASE frame.op = "validate"
  <2>1. Goal(frame) = Request("validate", Trivial, Leaf) /\ Goal(frame) \in Requests
        /\ Goal(frame).op = "validate"
    BY <1>4, RequestTypes DEF Goal
  <2>2. Answers(L)[d][Goal(frame)] = Abstract!Outcome(L[Goal(frame).type], d, Answers(L)[d - 1], Goal(frame))
    BY <1>3, <2>1
  <2>3. Answers(L)[d][Goal(frame)] = Abstract!InTurn(Abstract!Files(Answers(L)[d - 1]), Gone)
    BY <1>1, <2>1, <2>2 DEF Abstract!Outcome, Gone
  <2> QED
    BY <1>2, <1>4, <2>1, <2>3
<1>5. CASE frame.op # "validate"
  <2>1. /\ frame.name \in Names /\ frame.node \in Nodes /\ frame.by \in {"load", "apply", "generate", "validate"}
        /\ L[frame.name] \in Seq(Params) /\ L[frame.name] # Missing
    BY <1>5, DistinctAssumption DEF Sound, Walk
  <2>2. /\ Goal(frame) \in Requests /\ Goal(frame).type = frame.name
        /\ Goal(frame).op = IF frame.by = "validate" THEN "load" ELSE frame.by
    BY <1>5, <2>1, RequestTypes DEF Goal, Types
  <2>3. Answers(L)[d][Goal(frame)] = Abstract!Outcome(L[frame.name], d, Answers(L)[d - 1], Goal(frame))
    BY <1>3, <2>2
  <2>4. Goal(frame).type \notin {Trivial, Malformed} /\ Goal(frame).op # "validate"
    BY <2>1, <2>2, DistinctAssumption
  <2>5. Abstract!Checked(L[frame.name], d, Answers(L)[d - 1]) =
          Abstract!InTurn(Abstract!GivenAll(L[frame.name], Answers(L)[d - 1]), Cautious)
    BY <1>1, <2>1 DEF Abstract!Checked, Cautious, Gone
  <2>6. (IF Goal(frame).op = "generate" THEN "throw" ELSE "false") = Failed(frame.by)
    BY <2>1, <2>2 DEF Failed
  <2> DEFINE checked == Abstract!InTurn(Abstract!GivenAll(L[frame.name], Answers(L)[d - 1]), Cautious)
  <2>7. Answers(L)[d][Goal(frame)] =
          CASE checked = "true" -> Abstract!Served(L[frame.name], Goal(frame), Answers(L)[d - 1])
            [] checked = "crash" -> "crash"
            [] OTHER -> Failed(frame.by)
    BY <2>3, <2>4, <2>5, <2>6 DEF Abstract!Outcome
  <2> QED
    BY <1>2, <1>5, <2>2, <2>7
<1> QED
  BY <1>4, <1>5

\* A call that stops a walk decides the answer to what the walk is for.
LEMMA WalkStops ==
  ASSUME NEW L \in [Names -> Seq(Params) \cup {Missing}], NEW frame, Sound(L, frame),
         NEW d \in 1..MaxDepth, Walked(L, frame, Answers(L)[d - 1]),
         frame.at <= Size(L, frame), Turn(L, frame, Answers(L)[d - 1])[frame.at] \in Stops(frame)
  PROVE  LET found == Turn(L, frame, Answers(L)[d - 1])[frame.at]
         IN Answers(L)[d][Goal(frame)] =
              IF frame.op = "check" /\ found # "crash" THEN Failed(frame.by) ELSE found
<1> DEFINE inner == Answers(L)[d - 1]
           turn == Turn(L, frame, inner)
           found == turn[frame.at]
<1>1. inner \in Table
  BY GoalAnswer
<1> HIDE DEF inner
<1>2. /\ Size(L, frame) \in Nat /\ DOMAIN turn = 1..Size(L, frame)
      /\ \A i \in 1..Size(L, frame) : turn[i] \in Four
  BY <1>1, TurnOf
<1>3. frame.at \in 1..Size(L, frame)
  BY <1>2 DEF Walked, inner
<1>4. Abstract!InTurn(turn, Stops(frame)) = found
  <2>1. \A j \in 1..(frame.at - 1) : turn[j] \notin Stops(frame)
    BY DEF Walked, inner
  <2>2. found \in Stops(frame)
    BY DEF inner
  <2> HIDE DEF turn
  <2> QED
    BY <1>2, <1>3, <2>1, <2>2, InTurnStops
<1>5. found \in Four /\ found \in Stops(frame)
  BY <1>2, <1>3 DEF inner
<1>6. CASE frame.op = "check"
  <2>1. turn = Abstract!GivenAll(L[frame.name], inner) /\ Stops(frame) = Cautious
    BY <1>6 DEF Turn, Stops
  <2>2. found # "true"
    BY <1>5, <2>1 DEF Cautious, Gone, Abstract!Gone
  <2>3. Abstract!InTurn(Abstract!GivenAll(L[frame.name], inner), Cautious) = found
    BY <1>4, <2>1
  <2>4. Answers(L)[d][Goal(frame)] = IF found = "crash" THEN "crash" ELSE Failed(frame.by)
    BY <1>6, <2>2, <2>3, GoalAnswer DEF inner
  <2> QED
    BY <1>6, <2>4 DEF inner
<1>7. CASE frame.op = "validate"
  <2>1. turn = Abstract!Files(inner) /\ Stops(frame) = Gone
    BY <1>7 DEF Turn, Stops
  <2> QED
    BY <1>4, <1>7, <2>1, GoalAnswer DEF inner
<1>8. CASE frame.op \in {"apply", "generate"}
  <2>1. /\ frame.by = frame.op /\ Stops(frame) = Gone
        /\ Abstract!InTurn(Abstract!GivenAll(L[frame.name], inner), Cautious) = "true"
    BY <1>8 DEF Walked, Stops, inner
  <2>2. Answers(L)[d][Goal(frame)] = Abstract!Served(L[frame.name], Goal(frame), inner)
    BY <1>8, <2>1, GoalAnswer DEF inner
  <2>3. Goal(frame).op = frame.op /\ (frame.op = "apply" => Goal(frame).node = frame.node)
    BY <1>8, <2>1, RequestTypes DEF Goal
  <2>4. frame.op = "apply" => frame.node # Leaf
    BY <1>8 DEF Sound
  <2>5. Abstract!Served(L[frame.name], Goal(frame), inner) = Abstract!InTurn(turn, Stops(frame))
    BY <1>8, <2>1, <2>3, <2>4, SameRequests DEF Abstract!Served, Turn, Gone
  <2> QED
    BY <1>4, <1>8, <2>2, <2>5 DEF inner
<1> QED
  <2>1. frame.op = "check" \/ frame.op = "validate" \/ frame.op \in {"apply", "generate"}
    BY DEF Sound, Walk
  <2> QED
    BY <1>6, <1>7, <1>8, <2>1

\* A walk that has reached its end has seen what it is for.
LEMMA WalkEnds ==
  ASSUME NEW L \in [Names -> Seq(Params) \cup {Missing}], NEW frame, Sound(L, frame),
         NEW d \in 1..MaxDepth, Walked(L, frame, Answers(L)[d - 1]), frame.at > Size(L, frame)
  PROVE  /\ frame.op = "check" =>
              /\ Abstract!InTurn(Abstract!GivenAll(L[frame.name], Answers(L)[d - 1]), Cautious) = "true"
              /\ frame.ok
              /\ frame.by \in {"load", "validate"} => Answers(L)[d][Goal(frame)] = "true"
              /\ frame.by = "apply" /\ frame.node = Leaf => Answers(L)[d][Goal(frame)] = "false"
         /\ frame.op = "generate" => Answers(L)[d][Goal(frame)] = "true"
         /\ frame.op \in {"apply", "validate"} => Answers(L)[d][Goal(frame)] = Said(frame.ok)
<1> DEFINE inner == Answers(L)[d - 1]
           turn == Turn(L, frame, inner)
<1>1. inner \in Table
  BY GoalAnswer
<1> HIDE DEF inner
<1>2. /\ Size(L, frame) \in Nat /\ DOMAIN turn = 1..Size(L, frame)
      /\ \A i \in 1..Size(L, frame) : turn[i] \in Four /\ (frame.op = "generate" => turn[i] # "false")
  BY <1>1, TurnOf
<1>3. frame.at = Size(L, frame) + 1 /\ 1..(frame.at - 1) = 1..Size(L, frame)
  BY <1>2 DEF Walked
<1>4. /\ \A j \in 1..Size(L, frame) : turn[j] \notin Stops(frame)
      /\ frame.ok <=> \A j \in 1..Size(L, frame) : turn[j] = "true"
  BY <1>3 DEF Walked, inner
<1>5. Abstract!InTurn(turn, Stops(frame)) = Abstract!Said(\A j \in 1..Size(L, frame) : turn[j] = "true")
  <2> HIDE DEF turn
  <2> QED
    BY <1>2, <1>4, InTurnAll
<1>6. Abstract!InTurn(turn, Stops(frame)) = Said(frame.ok)
  BY <1>4, <1>5 DEF Said, Abstract!Said
<1>7. CASE frame.op = "check"
  <2>1. turn = Abstract!GivenAll(L[frame.name], inner) /\ Stops(frame) = Cautious
    BY <1>7 DEF Turn, Stops
  <2>2. \A j \in 1..Size(L, frame) : turn[j] = "true"
    BY <1>2, <1>4, <2>1 DEF Cautious, Gone, Abstract!Gone, Four
  <2>3. frame.ok /\ Abstract!InTurn(Abstract!GivenAll(L[frame.name], inner), Cautious) = "true"
    BY <1>4, <1>6, <2>1, <2>2 DEF Said
  <2>4. Answers(L)[d][Goal(frame)] = Abstract!Served(L[frame.name], Goal(frame), inner)
    BY <1>7, <2>3, GoalAnswer DEF inner
  <2>5. /\ frame.by \in {"load", "validate"} => Goal(frame).op = "load"
        /\ frame.by = "apply" => Goal(frame).op = "apply" /\ Goal(frame).node = frame.node
    BY <1>7, RequestTypes DEF Goal
  <2>6. /\ frame.by \in {"load", "validate"} => Answers(L)[d][Goal(frame)] = "true"
        /\ frame.by = "apply" /\ frame.node = Leaf => Answers(L)[d][Goal(frame)] = "false"
    BY <2>4, <2>5, SameRequests DEF Abstract!Served
  <2> QED
    BY <1>7, <2>3, <2>6 DEF inner
<1>8. CASE frame.op = "validate"
  <2>1. turn = Abstract!Files(inner) /\ Stops(frame) = Gone
    BY <1>8 DEF Turn, Stops
  <2> QED
    BY <1>6, <1>8, <2>1, GoalAnswer DEF inner
<1>9. CASE frame.op \in {"apply", "generate"}
  <2>1. /\ frame.by = frame.op /\ Stops(frame) = Gone
        /\ Abstract!InTurn(Abstract!GivenAll(L[frame.name], inner), Cautious) = "true"
    BY <1>9 DEF Walked, Stops, inner
  <2>2. Answers(L)[d][Goal(frame)] = Abstract!Served(L[frame.name], Goal(frame), inner)
    BY <1>9, <2>1, GoalAnswer DEF inner
  <2>3. Goal(frame).op = frame.op /\ (frame.op = "apply" => Goal(frame).node = frame.node)
    BY <1>9, <2>1, RequestTypes DEF Goal
  <2>4. frame.op = "apply" => frame.node # Leaf
    BY <1>9 DEF Sound
  <2>5. Abstract!Served(L[frame.name], Goal(frame), inner) = Abstract!InTurn(turn, Stops(frame))
    BY <1>9, <2>1, <2>3, <2>4, SameRequests DEF Abstract!Served, Turn, Gone
  <2>6. frame.op = "generate" => frame.ok
    BY <1>2, <1>4, <2>1 DEF Gone, Abstract!Gone, Four
  <2> QED
    BY <1>6, <1>9, <2>2, <2>5, <2>6 DEF Said
<1> QED
  <2>1. frame.op = "check" \/ frame.op = "validate" \/ frame.op \in {"apply", "generate"}
    BY DEF Sound, Walk
  <2> QED
    BY <1>7, <1>8, <1>9, <2>1

-----------------------------------------------------------------------------
\* The answers that need no walk: there is no schema, there is no room to check it,
\* or the type is not that of a schema.
LEMMA AnswersAtOnce ==
  ASSUME NEW L \in [Names -> Seq(Params) \cup {Missing}], NEW d \in 0..MaxDepth
  PROVE  /\ \A r \in Requests : r.type \in Names /\ L[r.type] = Missing =>
              Answers(L)[d][r] = IF r.op = "generate" THEN "throw" ELSE "false"
         /\ \A r \in Requests : d = 0 /\ r.type \in Names /\ L[r.type] # Missing => Answers(L)[d][r] = "crash"
         /\ \A r \in Requests : d = 0 /\ r.op = "validate" => Answers(L)[d][r] = "crash"
         /\ \A node \in Nodes : /\ Answers(L)[d][Request("apply", Trivial, node)] = Said(node = Leaf)
                                /\ Answers(L)[d][Request("apply", Malformed, node)] = "throw"
<1> DEFINE inner == IF d = 0 THEN <<>> ELSE Answers(L)[d - 1]
<1>1. Answers(L)[d] = [r \in Requests |-> Abstract!Outcome(L[r.type], d, inner, r)]
  BY AnswersDefined
<1> HIDE DEF inner
<1>2. \A r \in Requests : r.type \in Names => r.op # "validate" /\ r.type \notin {Trivial, Malformed}
  BY DistinctAssumption DEF Requests, Request
<1>3. ASSUME NEW r \in Requests, r.type \in Names, L[r.type] = Missing
      PROVE  Answers(L)[d][r] = IF r.op = "generate" THEN "throw" ELSE "false"
  <2>1. Abstract!Checked(L[r.type], d, inner) = "false"
    BY <1>3 DEF Abstract!Checked
  <2>2. Answers(L)[d][r] = Abstract!Outcome(L[r.type], d, inner, r)
    BY <1>1
  <2> QED
    BY <1>2, <1>3, <2>1, <2>2 DEF Abstract!Outcome
<1>4. ASSUME NEW r \in Requests, d = 0, r.type \in Names, L[r.type] # Missing
      PROVE  Answers(L)[d][r] = "crash"
  <2>1. Abstract!Checked(L[r.type], d, inner) = "crash"
    BY <1>4 DEF Abstract!Checked
  <2>2. Answers(L)[d][r] = Abstract!Outcome(L[r.type], d, inner, r)
    BY <1>1
  <2> QED
    BY <1>2, <1>4, <2>1, <2>2 DEF Abstract!Outcome
<1>5. ASSUME NEW r \in Requests, d = 0, r.op = "validate" PROVE Answers(L)[d][r] = "crash"
  BY <1>1, <1>5 DEF Abstract!Outcome
<1>6. ASSUME NEW node \in Nodes
      PROVE  /\ Answers(L)[d][Request("apply", Trivial, node)] = Said(node = Leaf)
             /\ Answers(L)[d][Request("apply", Malformed, node)] = "throw"
  <2>1. /\ Request("apply", Trivial, node) \in Requests /\ Request("apply", Malformed, node) \in Requests
    BY RequestTypes DEF Types
  <2> QED
    BY <1>1, <2>1, RequestTypes, SameRequests, DistinctAssumption DEF Abstract!Outcome, Said, Abstract!Said
<1> QED
  BY <1>3, <1>4, <1>5, <1>6

-----------------------------------------------------------------------------
\* The stack has a number of walks that there is room for, and they are sound.
LEMMA Framed ==
  ASSUME DInv
  PROVE  /\ frames \in Seq(Any) /\ Len(frames) \in Nat /\ Len(frames) \in 0..MaxDepth
         /\ frames = <<>> <=> Len(frames) = 0
         /\ lib \in [Names -> Seq(Params) \cup {Missing}]
         /\ \A i \in 1..Len(frames) : Sound(lib, frames[i])
         /\ MaxDepth - Len(frames) \in 0..MaxDepth
<1>1. /\ frames \in Seq(Any) /\ Len(frames) \in Nat /\ Len(frames) <= MaxDepth /\ MaxDepth \in Nat
      /\ frames = <<>> <=> Len(frames) = 0
      /\ lib \in [Names -> Seq(Params) \cup {Missing}]
  BY Lengths, DepthAssumption DEF DInv, TInv, TypeOK
<1>2. ASSUME NEW i \in 1..Len(frames) PROVE Sound(lib, frames[i])
  <2>1. frames[i] \in Any /\ Placed(i)
    BY <1>1, ElementOfSeq DEF DInv, TInv, TypeOK, Placed
  <2>2. /\ frames[i].op # "validate" => frames[i] \in Walk
        /\ frames[i].op = "validate" => frames[i] \in Validation
    BY <2>1 DEF Any, Walk, Validation
  <2>3. frames[i].op # "validate" => frames[i].name \in Names
    BY <2>2 DEF Walk
  <2> QED
    BY <1>1, <2>1, <2>2, <2>3 DEF Sound, Placed, Loaded
<1> QED
  BY <1>1, <1>2

\* The walk that goes on stands before a call, or the caller waits.
Waiting == frames # <<>> => Top.at <= Size(lib, Top)

\* If the innermost walk waits for a call that ends the process, then so does the caller.
LEMMA CrashGoesDown ==
  ASSUME DInv, Waiting, Awaited(lib, request, frames, Len(frames)) = "crash"
  PROVE  Answers(lib)[MaxDepth][request] = "crash"
<1> DEFINE n == Len(frames)
           T == {k \in 0..n : Awaited(lib, request, frames, n - k) = "crash"}
<1>0. n \in Nat /\ n \in 0..MaxDepth
  BY Framed
<1>1. 0 \in T
  BY <1>0
<1>2. ASSUME NEW k \in 0..n, k < n, k \in T PROVE k + 1 \in T
  <2>1. PICK i \in 1..n : i = n - k
    BY <1>0, <1>2
  <2>2. Sound(lib, frames[i]) /\ lib \in [Names -> Seq(Params) \cup {Missing}]
    BY Framed
  <2>3. Walked(lib, frames[i], Inner(lib, i)) /\ Linked(lib, request, frames, i)
    BY DEF DInv, Due
  <2>4. frames[i].at <= Size(lib, frames[i])
    <3>1. CASE i < n
      BY <3>1 DEF DInv, Due
    <3>2. CASE i = n
      BY <1>0, <3>2, Framed DEF Waiting, Top
    <3> QED
      BY <1>0, <3>1, <3>2
  <2>5. PICK d \in 1..MaxDepth : d = MaxDepth - (i - 1) /\ d - 1 = MaxDepth - i
    BY <1>0, DepthAssumption
  <2>6. Turn(lib, frames[i], Answers(lib)[d - 1])[frames[i].at] = "crash"
    BY <1>2, <2>1, <2>5 DEF Awaited, Inner
  <2>7. "crash" \in Stops(frames[i])
    BY DEF Stops, Cautious, Gone, Abstract!Gone
  <2>8. Answers(lib)[d][Goal(frames[i])] = "crash"
    BY <2>2, <2>3, <2>4, <2>5, <2>6, <2>7, WalkStops DEF Inner
  <2>9. Awaited(lib, request, frames, i - 1) = "crash"
    BY <2>3, <2>5, <2>8 DEF Linked, Inner
  <2>10. i - 1 = n - (k + 1) /\ k + 1 \in 0..n
    BY <1>0, <1>2, <2>1
  <2> QED
    BY <2>9, <2>10
<1>3. 0..n \subseteq T
  <2> HIDE DEF T, n
  <2> QED
    BY <1>0, <1>1, <1>2, Induction
<1>4. n \in 0..n /\ n - n = 0
  BY <1>0
<1>5. Awaited(lib, request, frames, 0) = "crash"
  BY <1>3, <1>4
<1> QED
  BY <1>5 DEF Awaited

\* A step of SchemaRequests, or none.
Mapped == Abstract!Reply \/ UNCHANGED <<lib, request, answer>>

\* A call that ends gives what is promised.
LEMMA EndRight ==
  ASSUME DInv, request # None, lib' = lib, NEW is, End(is), Answers(lib)[MaxDepth][request] = is
  PROVE  Due' /\ Mapped
<1>1. Abstract!Reply
  BY DEF End, Abstract!Reply, Answers
<1>2. Len(frames') = 0 /\ ret' = "none"
  BY DEF End
<1> QED
  BY <1>1, <1>2 DEF Due, Mapped

\* A call begins with a walk, or ends the process.
LEMMA PushRight ==
  ASSUME DInv, request # None, lib' = lib, ret = "none", Waiting,
         NEW frame, Sound(lib, frame), frame.at = 1, frame.ok = TRUE, frame.op \in {"check", "validate"},
         Push(frame), Inner(lib, Len(frames))[Goal(frame)] = Awaited(lib, request, frames, Len(frames))
  PROVE  Due' /\ Mapped
<1> DEFINE n == Len(frames)
<1>0. /\ frames \in Seq(Any) /\ n \in Nat /\ n \in 0..MaxDepth
      /\ lib \in [Names -> Seq(Params) \cup {Missing}] /\ frame \in Any
  BY Framed DEF Sound, Any
<1>1. CASE n < MaxDepth
  <2>1. frames' = Append(frames, frame) /\ ret' = "none" /\ request' = request /\ answer' = answer
    BY <1>1 DEF Push
  <2>2. /\ Len(frames') = n + 1 /\ frames'[n + 1] = frame
        /\ \A i \in 1..n : frames'[i] = frames[i]
    BY <1>0, <2>1, PushProperties
  <2>3. PICK d \in 1..MaxDepth : d - 1 = MaxDepth - (n + 1)
    <3>1. MaxDepth \in Nat /\ n \in Nat /\ n < MaxDepth
      BY <1>0, <1>1, DepthAssumption
    <3>2. MaxDepth - n \in 1..MaxDepth /\ (MaxDepth - n) - 1 = MaxDepth - (n + 1)
      BY <3>1
    <3> QED
      BY <3>2
  <2>4. Walked(lib, frame, Inner(lib, n + 1))
    <3>1. Answers(lib)[d - 1] \in Table
      BY <1>0, GoalAnswer
    <3>2. Size(lib, frame) \in Nat
      BY <3>1, TurnOf
    <3>3. 1 \in 1..(Size(lib, frame) + 1) /\ 1..(1 - 1) = {}
      BY <3>2
    <3> QED
      BY <3>3 DEF Walked
  <2>5. ASSUME NEW i \in 1..(n + 1)
        PROVE  /\ Walked(lib, frames'[i], Inner(lib, i)) /\ Linked(lib, request, frames', i)
               /\ i < n + 1 => frames'[i].at <= Size(lib, frames'[i])
    <3>1. CASE i = n + 1
      <4>1. (n + 1) - 1 = n
        BY <1>0
      <4>2. Awaited(lib, request, frames', n) = Awaited(lib, request, frames, n)
        BY <1>0, <2>2 DEF Awaited
      <4> QED
        BY <1>0, <2>2, <2>4, <3>1, <4>1, <4>2 DEF Linked
    <3>2. CASE i # n + 1
      <4>1. i \in 1..n /\ i - 1 \in 0..n /\ (i - 1 # 0 => i - 1 \in 1..n)
        BY <1>0, <3>2
      <4>2. Awaited(lib, request, frames', i - 1) = Awaited(lib, request, frames, i - 1)
        BY <2>2, <4>1 DEF Awaited
      <4>3. frames'[i] = frames[i]
        BY <2>2, <4>1
      <4>4. Walked(lib, frames[i], Inner(lib, i)) /\ Linked(lib, request, frames, i)
        BY <4>1 DEF DInv, Due
      <4>5. frames[i].at <= Size(lib, frames[i])
        <5>1. CASE i < n
          BY <4>1, <5>1 DEF DInv, Due
        <5>2. CASE i = n
          BY <4>1, <5>2, <1>0, Framed DEF Waiting, Top
        <5> QED
          BY <1>0, <4>1, <5>1, <5>2
      <4> QED
        BY <4>2, <4>3, <4>4, <4>5 DEF Linked
    <3> QED
      BY <3>1, <3>2
  <2> QED
    BY <2>1, <2>2, <2>5 DEF Due, Mapped
<1>2. CASE ~(n < MaxDepth)
  <2>1. End("crash") /\ MaxDepth - n = 0 /\ 0 \in 0..MaxDepth
    BY <1>0, <1>2, DepthAssumption DEF Push
  <2>2. Answers(lib)[0][Goal(frame)] = "crash"
    <3>1. PICK d \in 1..MaxDepth : TRUE
      BY DepthAssumption
    <3>2. Goal(frame) \in Requests
      BY <1>0, GoalAnswer
    <3>3. CASE frame.op = "validate"
      <4>1. Goal(frame).op = "validate"
        BY <3>3, RequestTypes DEF Goal
      <4> QED
        BY <1>0, <2>1, <3>2, <4>1, AnswersAtOnce
    <3>4. CASE frame.op # "validate"
      <4>1. Goal(frame).type = frame.name /\ frame.name \in Names /\ lib[frame.name] # Missing
        BY <3>4, RequestTypes, DistinctAssumption DEF Goal, Sound, Walk
      <4> QED
        BY <1>0, <2>1, <3>2, <4>1, AnswersAtOnce
    <3> QED
      BY <3>3, <3>4
  <2>3. Awaited(lib, request, frames, n) = "crash"
    BY <2>1, <2>2 DEF Inner
  <2> QED
    BY <2>1, <2>3, CrashGoesDown, EndRight
<1> QED
  BY <1>1, <1>2

\* A walk goes on, for what it is for.
LEMMA ContinueRight ==
  ASSUME DInv, frames # <<>>, lib' = lib, NEW frame \in Any, Continue(frame), Goal(frame) = Goal(Top),
         Walked(lib, frame, Inner(lib, Len(frames)))
  PROVE  Due' /\ Mapped
<1> DEFINE n == Len(frames)
<1>0. frames \in Seq(Any) /\ n \in Nat /\ n \in 1..n
  BY Framed
<1>1. /\ Len(frames') = n /\ frames'[n] = frame /\ \A i \in 1..n - 1 : frames'[i] = frames[i]
      /\ ret' = "none" /\ request' = request /\ answer' = answer
  BY <1>0, ReplaceProperties DEF Continue
<1>2. ASSUME NEW i \in 1..n
      PROVE  /\ Walked(lib, frames'[i], Inner(lib, i)) /\ Linked(lib, request, frames', i)
             /\ i < n => frames'[i].at <= Size(lib, frames'[i])
  <2>1. i - 1 \in 0..n - 1 /\ (i - 1 # 0 => i - 1 \in 1..n - 1) /\ (i # n => i \in 1..n - 1)
    BY <1>0
  <2>2. Awaited(lib, request, frames', i - 1) = Awaited(lib, request, frames, i - 1)
    BY <1>1, <2>1 DEF Awaited
  <2>3. Walked(lib, frames[i], Inner(lib, i)) /\ Linked(lib, request, frames, i)
    BY DEF DInv, Due
  <2>4. i < n => frames[i].at <= Size(lib, frames[i])
    BY DEF DInv, Due
  <2>5. Goal(frames'[i]) = Goal(frames[i])
    BY <1>1, <2>1 DEF Top
  <2> QED
    BY <1>1, <2>1, <2>2, <2>3, <2>4, <2>5 DEF Linked
<1> QED
  BY <1>1, <1>2 DEF Due, Mapped

\* A walk is left with what it is for.
LEMMA PopRight ==
  ASSUME DInv, frames # <<>>, lib' = lib, NEW r, Pop(r), Inner(lib, Len(frames) - 1)[Goal(Top)] = r
  PROVE  Due' /\ Mapped
<1> DEFINE n == Len(frames)
<1>0. frames \in Seq(Any) /\ n \in Nat /\ n \in 1..n
  BY Framed
<1>1. /\ Len(frames') = n - 1 /\ \A i \in 1..n - 1 : frames'[i] = frames[i]
      /\ ret' = r /\ request' = request /\ answer' = answer
  BY <1>0, PopProperties DEF Pop, Below
<1>2. ASSUME NEW i \in 1..n - 1
      PROVE  /\ Walked(lib, frames'[i], Inner(lib, i)) /\ Linked(lib, request, frames', i)
             /\ frames'[i].at <= Size(lib, frames'[i])
  <2>1. i - 1 \in 0..n - 1 /\ (i - 1 # 0 => i - 1 \in 1..n - 1) /\ i \in 1..n /\ i < n
    BY <1>0
  <2>2. Awaited(lib, request, frames', i - 1) = Awaited(lib, request, frames, i - 1)
    BY <1>1, <2>1 DEF Awaited
  <2>3. /\ Walked(lib, frames[i], Inner(lib, i)) /\ Linked(lib, request, frames, i)
        /\ frames[i].at <= Size(lib, frames[i])
    BY <2>1 DEF DInv, Due
  <2> QED
    BY <1>1, <2>2, <2>3 DEF Linked
<1>3. Awaited(lib, request, frames', n - 1) = r
  <2>1. n - 1 # 0 => n - 1 \in 1..n - 1
    <3>1. \A k \in Nat \ {0} : k - 1 # 0 => k - 1 \in 1..k - 1
      OBVIOUS
    <3> QED
      BY <1>0, <3>1
  <2>2. Awaited(lib, request, frames', n - 1) = Awaited(lib, request, frames, n - 1)
    BY <1>1, <2>1 DEF Awaited
  <2>3. Linked(lib, request, frames, n)
    BY <1>0 DEF DInv, Due
  <2> QED
    BY <2>2, <2>3 DEF Linked, Top
<1> QED
  BY <1>1, <1>2, <1>3 DEF Due, Mapped

\* A call ends at once with what is awaited.
LEMMA ReturnRight ==
  ASSUME DInv, lib' = lib, Waiting, NEW r, Return(r), Awaited(lib, request, frames, Len(frames)) = r
  PROVE  Due' /\ Mapped
<1>1. frames' = frames /\ ret' = r /\ request' = request /\ answer' = answer
  BY DEF Return
<1>2. ASSUME NEW i \in 1..Len(frames) PROVE frames[i].at <= Size(lib, frames[i])
  <2>1. CASE i < Len(frames)
    BY <2>1 DEF DInv, Due
  <2>2. CASE i = Len(frames)
    BY <2>2, Framed DEF Waiting, Top
  <2> QED
    BY <2>1, <2>2, Framed
<1> QED
  BY <1>1, <1>2 DEF DInv, Due, Mapped

\* A schema is loaded for a call that is awaited.
LEMMA LoadRight ==
  ASSUME DInv, request # None, lib' = lib, ret = "none", Waiting,
         NEW by \in {"load", "apply", "generate", "validate"}, NEW name \in Names, NEW node \in Nodes,
         Load(by, name, node),
         Inner(lib, Len(frames))[Request(IF by = "validate" THEN "load" ELSE by, name,
                                         IF by = "apply" THEN node ELSE Leaf)]
           = Awaited(lib, request, frames, Len(frames))
  PROVE  Due' /\ Mapped
<1> DEFINE r == Request(IF by = "validate" THEN "load" ELSE by, name, IF by = "apply" THEN node ELSE Leaf)
<1>0. lib \in [Names -> Seq(Params) \cup {Missing}] /\ MaxDepth - Len(frames) \in 0..MaxDepth
  BY Framed
<1>1. r \in Requests /\ r.type = name /\ r.op = IF by = "validate" THEN "load" ELSE by
  BY RequestTypes DEF Types
<1>2. CASE lib[name] = Missing
  <2>1. Inner(lib, Len(frames))[r] = Failed(by)
    BY <1>0, <1>1, <1>2, AnswersAtOnce DEF Inner, Failed
  <2>2. Return(Failed(by))
    BY <1>2 DEF Load
  <2> QED
    BY <2>1, <2>2, ReturnRight
<1>3. CASE lib[name] # Missing
  <2>1. PICK frame : frame = Frame("check", by, name, node)
    OBVIOUS
  <2>2. Push(frame) /\ frame.at = 1 /\ frame.ok = TRUE /\ frame.op = "check"
    BY <1>3, <2>1 DEF Load, Frame
  <2>3. Sound(lib, frame)
    BY <1>0, <1>3, <2>1 DEF Sound, Frame, Walk
  <2>4. Goal(frame) = r
    BY <2>1 DEF Goal, Frame
  <2> QED
    BY <2>2, <2>3, <2>4, PushRight
<1> QED
  BY <1>2, <1>3

\* A type is applied for a call that is awaited.
LEMMA ApplyRight ==
  ASSUME DInv, request # None, lib' = lib, ret = "none", Waiting,
         NEW type \in Types, NEW node \in Nodes, Apply(type, node),
         Inner(lib, Len(frames))[Request("apply", type, node)] = Awaited(lib, request, frames, Len(frames))
  PROVE  Due' /\ Mapped
<1>0. lib \in [Names -> Seq(Params) \cup {Missing}] /\ MaxDepth - Len(frames) \in 0..MaxDepth
  BY Framed
<1>1. CASE type = Trivial
  <2>1. Return(Said(node = Leaf))
    BY <1>1, DistinctAssumption DEF Apply
  <2>2. Awaited(lib, request, frames, Len(frames)) = Said(node = Leaf)
    BY <1>0, <1>1, AnswersAtOnce DEF Inner
  <2> QED
    BY <2>1, <2>2, ReturnRight
<1>2. CASE type # Trivial /\ type = Malformed
  <2>1. Return("throw")
    BY <1>2 DEF Apply
  <2>2. Awaited(lib, request, frames, Len(frames)) = "throw"
    BY <1>0, <1>2, AnswersAtOnce DEF Inner
  <2> QED
    BY <2>1, <2>2, ReturnRight
<1>3. CASE type # Trivial /\ type # Malformed
  <2>1. Load("apply", type, node) /\ type \in Names
    BY <1>3 DEF Apply, Types
  <2>2. PICK by : by = "apply"
    OBVIOUS
  <2> QED
    BY <2>1, LoadRight
<1> QED
  BY <1>1, <1>2, <1>3

-----------------------------------------------------------------------------
\* The steps, one by one.
LEMMA StartRight == ASSUME DInv, Start, lib' = lib PROVE Due' /\ Mapped
<1>1. request \in Requests /\ request # None /\ frames = <<>> /\ ret = "none" /\ Len(frames) = 0
  BY Framed DEF Start, DInv, TInv, TypeOK
<1>2. Waiting /\ Awaited(lib, request, frames, Len(frames)) = Inner(lib, Len(frames))[request]
  <2>1. MaxDepth - 0 = MaxDepth
    BY DepthAssumption
  <2> QED
    BY <1>1, <2>1 DEF Waiting, Awaited, Inner
<1>3. CASE request.op = "apply"
  <2>1. request.type \in Types /\ request.node \in Nodes
        /\ request = Request("apply", request.type, request.node)
    BY <1>1, <1>3 DEF Requests, Request
  <2>2. Apply(request.type, request.node)
    BY <1>3 DEF Start
  <2> QED
    BY <1>1, <1>2, <2>1, <2>2, ApplyRight
<1>4. CASE request.op = "validate"
  <2>1. request = Request("validate", Trivial, Leaf)
    BY <1>1, <1>4 DEF Requests, Request
  <2>2. PICK frame : frame = Frame("validate", "none", "none", Leaf)
    OBVIOUS
  <2>3. Push(frame) /\ frame.at = 1 /\ frame.ok = TRUE /\ frame.op = "validate"
    BY <1>4, <2>2 DEF Start, Frame
  <2>4. Sound(lib, frame) /\ Goal(frame) = request
    BY <2>1, <2>2 DEF Sound, Goal, Frame, Validation
  <2> QED
    BY <1>1, <1>2, <2>3, <2>4, PushRight
<1>5. CASE request.op # "apply" /\ request.op # "validate"
  <2>1. /\ request.op \in {"load", "generate"} /\ request.type \in Names
        /\ request = Request(request.op, request.type, Leaf)
    BY <1>1, <1>5 DEF Requests, Request
  <2>2. Load(request.op, request.type, Leaf) /\ Leaf \in Nodes
    BY <1>5, NodesAssumption DEF Start
  <2>3. Inner(lib, Len(frames))[Request(IF request.op = "validate" THEN "load" ELSE request.op, request.type,
                                        IF request.op = "apply" THEN Leaf ELSE Leaf)]
          = Awaited(lib, request, frames, Len(frames))
    BY <1>2, <1>5, <2>1
  <2> QED
    BY <1>1, <1>2, <2>1, <2>2, <2>3, LoadRight
<1> QED
  BY <1>3, <1>4, <1>5

LEMMA FinishRight == ASSUME DInv, Finish, lib' = lib PROVE Due' /\ Mapped
<1>1. request # None /\ ret # "none" /\ End(ret) /\ Len(frames) = 0
  BY Framed DEF Finish
<1>2. Answers(lib)[MaxDepth][request] = ret
  BY <1>1 DEF DInv, Due, Awaited
<1> QED
  BY <1>1, <1>2, EndRight

\* The innermost walk and its place in the invariant.
LEMMA TopRight ==
  ASSUME DInv, frames # <<>>
  PROVE  /\ request # None /\ Top \in Any /\ Sound(lib, Top) /\ Len(frames) \in 1..Len(frames)
         /\ lib \in [Names -> Seq(Params) \cup {Missing}]
         /\ Walked(lib, Top, Inner(lib, Len(frames)))
         /\ Size(lib, Top) \in Nat /\ Top.at \in Nat \ {0} /\ Inner(lib, Len(frames)) \in Table
         /\ Awaited(lib, request, frames, Len(frames)) = Turn(lib, Top, Inner(lib, Len(frames)))[Top.at]
         /\ \E d \in 1..MaxDepth : /\ Inner(lib, Len(frames)) = Answers(lib)[d - 1]
                                   /\ Inner(lib, Len(frames) - 1) = Answers(lib)[d]
<1> DEFINE n == Len(frames)
<1>1. /\ n \in Nat /\ n \in 0..MaxDepth /\ n # 0 /\ Sound(lib, Top)
      /\ lib \in [Names -> Seq(Params) \cup {Missing}]
  BY Framed DEF Top
<1>2. n \in 1..n /\ MaxDepth - n \in Nat /\ MaxDepth \in Nat
  BY <1>1, DepthAssumption
<1>3. PICK d \in 1..MaxDepth : d - 1 = MaxDepth - n /\ d = MaxDepth - (n - 1)
  BY <1>1, <1>2
<1>4. Inner(lib, n) \in Table
  BY <1>1, <1>3, GoalAnswer DEF Inner
<1>5. Size(lib, Top) \in Nat
  BY <1>1, <1>4, TurnOf
<1>6. Walked(lib, Top, Inner(lib, n))
  BY <1>2 DEF DInv, Due, Top
<1>7. Top.at \in Nat \ {0}
  BY <1>5, <1>6 DEF Walked
<1>8. Awaited(lib, request, frames, n) = Turn(lib, Top, Inner(lib, n))[Top.at]
  BY <1>1 DEF Awaited, Top
<1>9. request # None
  BY DEF DInv, TInv, Running
<1>10. Top \in Any
  BY <1>1 DEF Sound, Any
<1> QED
  BY <1>1, <1>2, <1>3, <1>4, <1>5, <1>6, <1>7, <1>8, <1>9, <1>10 DEF Inner

LEMMA ValidateRight == ASSUME DInv, Validate, lib' = lib PROVE Due' /\ Mapped
<1>0. frames # <<>> /\ ret = "none" /\ Top.op = "validate"
  BY DEF Validate
<1>1. /\ request # None /\ Top \in Any /\ Sound(lib, Top) /\ Size(lib, Top) \in Nat /\ Top.at \in Nat \ {0}
      /\ Walked(lib, Top, Inner(lib, Len(frames))) /\ Inner(lib, Len(frames)) \in Table
      /\ lib \in [Names -> Seq(Params) \cup {Missing}]
      /\ Awaited(lib, request, frames, Len(frames)) = Turn(lib, Top, Inner(lib, Len(frames)))[Top.at]
  BY <1>0, TopRight
<1>2. PICK d \in 1..MaxDepth : /\ Inner(lib, Len(frames)) = Answers(lib)[d - 1]
                               /\ Inner(lib, Len(frames) - 1) = Answers(lib)[d]
  BY <1>0, TopRight
<1>3. Size(lib, Top) = Len(Listing)
  BY <1>0 DEF Size
<1>4. CASE Top.at > Len(Listing)
  <2>1. Pop(Said(Top.ok))
    BY <1>0, <1>4 DEF Validate
  <2>2. Answers(lib)[d][Goal(Top)] = Said(Top.ok)
    BY <1>0, <1>1, <1>2, <1>3, <1>4, WalkEnds
  <2> QED
    BY <1>0, <1>2, <2>1, <2>2, PopRight
<1>5. CASE ~(Top.at > Len(Listing))
  <2>1. Load("validate", Listing[Top.at], Leaf)
    BY <1>0, <1>5 DEF Validate
  <2>2. Top.at \in 1..Len(Listing) /\ Waiting
    BY <1>1, <1>3, <1>5 DEF Waiting
  <2>3. /\ Listing[Top.at] \in Names
        /\ Abstract!Files(Inner(lib, Len(frames)))[Top.at] =
             Inner(lib, Len(frames))[Request("load", Listing[Top.at], Leaf)]
    BY <1>1, <2>2, FilesTypes
  <2>4. Turn(lib, Top, Inner(lib, Len(frames))) = Abstract!Files(Inner(lib, Len(frames)))
    BY <1>0 DEF Turn
  <2>5. PICK by, node : by = "validate" /\ node = Leaf
    OBVIOUS
  <2>6. Inner(lib, Len(frames))[Request(IF by = "validate" THEN "load" ELSE by, Listing[Top.at],
                                        IF by = "apply" THEN node ELSE Leaf)]
          = Awaited(lib, request, frames, Len(frames))
    BY <1>1, <2>3, <2>4, <2>5
  <2> QED
    BY <1>0, <1>1, <2>1, <2>2, <2>3, <2>5, <2>6, NodesAssumption, LoadRight
<1> QED
  BY <1>4, <1>5

LEMMA ApplyRecursiveRight == ASSUME DInv, ApplyRecursive, lib' = lib PROVE Due' /\ Mapped
<1>0. frames # <<>> /\ ret = "none" /\ Top.op = "apply"
  BY DEF ApplyRecursive
<1>1. /\ request # None /\ Top \in Any /\ Sound(lib, Top) /\ Size(lib, Top) \in Nat /\ Top.at \in Nat \ {0}
      /\ Walked(lib, Top, Inner(lib, Len(frames))) /\ Inner(lib, Len(frames)) \in Table
      /\ lib \in [Names -> Seq(Params) \cup {Missing}]
      /\ Awaited(lib, request, frames, Len(frames)) = Turn(lib, Top, Inner(lib, Len(frames)))[Top.at]
  BY <1>0, TopRight
<1>2. PICK d \in 1..MaxDepth : /\ Inner(lib, Len(frames)) = Answers(lib)[d - 1]
                               /\ Inner(lib, Len(frames) - 1) = Answers(lib)[d]
  BY <1>0, TopRight
<1>3. Size(lib, Top) = Len(Schema) /\ Schema \in Seq(Params) /\ Top.node \in Nodes \ {Leaf}
  BY <1>0, <1>1 DEF Size, Schema, Sound, Walk
<1>4. CASE Top.at > Len(Schema)
  <2>1. Pop(Said(Top.ok))
    BY <1>0, <1>1, <1>3, <1>4 DEF ApplyRecursive
  <2>2. Answers(lib)[d][Goal(Top)] = Said(Top.ok)
    BY <1>0, <1>1, <1>2, <1>3, <1>4, WalkEnds
  <2> QED
    BY <1>0, <1>2, <2>1, <2>2, PopRight
<1>5. CASE ~(Top.at > Len(Schema))
  <2>1. Top.at \in 1..Len(Schema) /\ Waiting
    BY <1>1, <1>3, <1>5 DEF Waiting
  <2>2. Parameter \in Params /\ Parameter.type \in Types /\ DOMAIN Schema = 1..Len(Schema)
    BY <1>3, <2>1, SchemaTypes DEF Parameter
  <2>3. Awaited(lib, request, frames, Len(frames)) =
          Abstract!Child(Parameter, Top.at, Top.node, Inner(lib, Len(frames)))
    BY <1>0, <1>1, <2>1, <2>2 DEF Turn, Abstract!Children, Schema, Parameter
  <2>4. CASE Top.at \in DOMAIN Top.node.f
    <3>1. Apply(Parameter.type, Top.node.f[Top.at])
      BY <1>0, <1>1, <1>3, <1>5, <2>4 DEF ApplyRecursive
    <3>2. Top.node.f[Top.at] \in Nodes
      BY <1>3, <2>4, NodesAssumption
    <3>3. Inner(lib, Len(frames))[Request("apply", Parameter.type, Top.node.f[Top.at])]
            = Awaited(lib, request, frames, Len(frames))
      BY <2>3, <2>4, SameRequests DEF Abstract!Child
    <3> QED
      BY <1>0, <1>1, <2>1, <2>2, <3>1, <3>2, <3>3, ApplyRight
  <2>5. CASE Top.at \notin DOMAIN Top.node.f
    <3>1. Return(Said(~Parameter.mandatory))
      BY <1>0, <1>1, <1>3, <1>5, <2>5 DEF ApplyRecursive
    <3>2. Awaited(lib, request, frames, Len(frames)) = Said(~Parameter.mandatory)
      BY <2>3, <2>5 DEF Abstract!Child, Said, Abstract!Said
    <3> QED
      BY <2>1, <3>1, <3>2, ReturnRight
  <2> QED
    BY <2>4, <2>5
<1> QED
  BY <1>4, <1>5

LEMMA SchemaToYamlRight == ASSUME DInv, SchemaToYaml, lib' = lib PROVE Due' /\ Mapped
<1>0. frames # <<>> /\ ret = "none" /\ Top.op = "generate"
  BY DEF SchemaToYaml
<1>1. /\ request # None /\ Top \in Any /\ Sound(lib, Top) /\ Size(lib, Top) \in Nat /\ Top.at \in Nat \ {0}
      /\ Walked(lib, Top, Inner(lib, Len(frames))) /\ Inner(lib, Len(frames)) \in Table
      /\ lib \in [Names -> Seq(Params) \cup {Missing}]
      /\ Awaited(lib, request, frames, Len(frames)) = Turn(lib, Top, Inner(lib, Len(frames)))[Top.at]
  BY <1>0, TopRight
<1>2. PICK d \in 1..MaxDepth : /\ Inner(lib, Len(frames)) = Answers(lib)[d - 1]
                               /\ Inner(lib, Len(frames) - 1) = Answers(lib)[d]
  BY <1>0, TopRight
<1>3. Size(lib, Top) = Len(Schema) /\ Schema \in Seq(Params)
  BY <1>0, <1>1 DEF Size, Schema, Sound
<1>4. CASE Top.at > Len(Schema)
  <2>1. Pop("true")
    BY <1>0, <1>1, <1>3, <1>4 DEF SchemaToYaml
  <2>2. Answers(lib)[d][Goal(Top)] = "true"
    BY <1>0, <1>1, <1>2, <1>3, <1>4, WalkEnds
  <2> QED
    BY <1>0, <1>2, <2>1, <2>2, PopRight
<1>5. CASE ~(Top.at > Len(Schema))
  <2>1. Top.at \in 1..Len(Schema) /\ Top.at <= Len(Schema) /\ Waiting
    BY <1>1, <1>3, <1>5 DEF Waiting
  <2>2. Parameter \in Params /\ Parameter.type \in Types /\ DOMAIN Schema = 1..Len(Schema)
    BY <1>3, <2>1, SchemaTypes DEF Parameter
  <2>3. Awaited(lib, request, frames, Len(frames)) = Abstract!Part(Parameter, Inner(lib, Len(frames)))
    BY <1>0, <1>1, <2>1, <2>2 DEF Turn, Abstract!Parts, Schema, Parameter
  <2>4. CASE Parameter.type = Trivial
    <3>1. Return("true")
      BY <1>0, <1>5, <2>1, <2>4, DistinctAssumption DEF SchemaToYaml
    <3> QED
      BY <2>1, <2>3, <2>4, <3>1, ReturnRight, DistinctAssumption DEF Abstract!Part
  <2>5. CASE Parameter.type = Malformed
    <3>1. Return("throw")
      BY <1>0, <1>5, <2>1, <2>5, DistinctAssumption DEF SchemaToYaml
    <3> QED
      BY <2>1, <2>3, <2>5, <3>1, ReturnRight, DistinctAssumption DEF Abstract!Part
  <2>6. CASE Parameter.type \notin {Trivial, Malformed}
    <3>1. Load("generate", Parameter.type, Leaf) /\ Parameter.type \in Names
      BY <1>0, <1>5, <2>1, <2>2, <2>6 DEF SchemaToYaml, Types
    <3>2. PICK by, node : by = "generate" /\ node = Leaf
      OBVIOUS
    <3>3. Inner(lib, Len(frames))[Request(IF by = "validate" THEN "load" ELSE by, Parameter.type,
                                          IF by = "apply" THEN node ELSE Leaf)]
            = Awaited(lib, request, frames, Len(frames))
      BY <2>3, <2>6, <3>2, SameRequests DEF Abstract!Part
    <3> QED
      BY <1>0, <1>1, <2>1, <3>1, <3>2, <3>3, NodesAssumption, LoadRight
  <2> QED
    BY <2>4, <2>5, <2>6
<1> QED
  BY <1>4, <1>5

\* A walk that is not stopped has gone past one more call.
LEMMA WalksOn ==
  ASSUME NEW L, NEW frame, Sound(L, frame), NEW inner \in Table, Walked(L, frame, inner),
         frame.at <= Size(L, frame), Turn(L, frame, inner)[frame.at] \notin Stops(frame),
         NEW next, next.op = frame.op, next.by = frame.by, next.name = frame.name, next.node = frame.node,
         next.at = frame.at + 1, next.ok <=> Turn(L, frame, inner)[frame.at] = "true" /\ frame.ok
  PROVE  Walked(L, next, inner) /\ Goal(next) = Goal(frame)
<1>1. Size(L, frame) \in Nat
  BY TurnOf
<1>2. frame.at \in 1..Size(L, frame)
  BY <1>1 DEF Walked
<1>3. Size(L, next) = Size(L, frame) /\ Turn(L, next, inner) = Turn(L, frame, inner)
      /\ Stops(next) = Stops(frame) /\ Goal(next) = Goal(frame)
  BY DEF Size, Turn, Stops, Goal
<1>4. next.at \in 1..(Size(L, frame) + 1) /\ next.at - 1 = frame.at
  BY <1>1, <1>2
<1>5. \A j \in 1..frame.at : j # frame.at => j \in 1..(frame.at - 1)
  BY <1>2
<1>6. frame.at \in 1..frame.at /\ 1..(frame.at - 1) \subseteq 1..frame.at
  BY <1>2
<1>7. /\ frame.op \in {"apply", "generate"} =>
           frame.by = frame.op /\ Abstract!InTurn(Abstract!GivenAll(L[frame.name], inner), Cautious) = "true"
      /\ \A j \in 1..(frame.at - 1) : Turn(L, frame, inner)[j] \notin Stops(frame)
      /\ frame.ok <=> \A j \in 1..(frame.at - 1) : Turn(L, frame, inner)[j] = "true"
  BY DEF Walked
<1>8. \A j \in 1..frame.at : Turn(L, frame, inner)[j] \notin Stops(frame)
  BY <1>5, <1>7
<1>9. next.ok <=> \A j \in 1..frame.at : Turn(L, frame, inner)[j] = "true"
  BY <1>5, <1>6, <1>7
<1> QED
  BY <1>3, <1>4, <1>7, <1>8, <1>9 DEF Walked

LEMMA CheckRight == ASSUME DInv, Check, lib' = lib PROVE Due' /\ Mapped
<1>0. frames # <<>> /\ ret = "none" /\ Top.op = "check"
  BY DEF Check
<1>1. /\ request # None /\ Top \in Any /\ Sound(lib, Top) /\ Size(lib, Top) \in Nat /\ Top.at \in Nat \ {0}
      /\ Walked(lib, Top, Inner(lib, Len(frames))) /\ Inner(lib, Len(frames)) \in Table
      /\ lib \in [Names -> Seq(Params) \cup {Missing}]
      /\ Awaited(lib, request, frames, Len(frames)) = Turn(lib, Top, Inner(lib, Len(frames)))[Top.at]
  BY <1>0, TopRight
<1>2. PICK d \in 1..MaxDepth : /\ Inner(lib, Len(frames)) = Answers(lib)[d - 1]
                               /\ Inner(lib, Len(frames) - 1) = Answers(lib)[d]
  BY <1>0, TopRight
<1>3. Size(lib, Top) = Len(Schema) /\ Schema \in Seq(Params) /\ Top \in Walk
  BY <1>0, <1>1 DEF Size, Schema, Sound
<1>4. CASE Top.at > Len(Schema)
  <2>0. /\ Abstract!InTurn(Abstract!GivenAll(lib[Top.name], Answers(lib)[d - 1]), Cautious) = "true"
        /\ Top.ok
        /\ Top.by \in {"load", "validate"} => Answers(lib)[d][Goal(Top)] = "true"
        /\ Top.by = "apply" /\ Top.node = Leaf => Answers(lib)[d][Goal(Top)] = "false"
    BY <1>0, <1>1, <1>2, <1>3, <1>4, WalkEnds
  <2>1. CASE Top.by \in {"load", "validate"}
    <3>1. Pop("true")
      BY <1>0, <1>1, <1>3, <1>4, <2>1 DEF Check
    <3> QED
      BY <1>0, <1>2, <2>0, <2>1, <3>1, PopRight
  <2>2. CASE Top.by = "apply" /\ Top.node = Leaf
    <3>1. Pop("false")
      BY <1>0, <1>1, <1>3, <1>4, <2>2 DEF Check
    <3> QED
      BY <1>0, <1>2, <2>0, <2>2, <3>1, PopRight
  <2>3. CASE Top.by \notin {"load", "validate"} /\ ~(Top.by = "apply" /\ Top.node = Leaf)
    <3>1. PICK next : next = [Top EXCEPT !.op = Top.by, !.at = 1]
      OBVIOUS
    <3>2. Continue(next)
      BY <1>0, <1>1, <1>3, <1>4, <2>3, <3>1 DEF Check
    <3>3. /\ next.op = Top.by /\ next.by = Top.by /\ next.name = Top.name /\ next.node = Top.node
          /\ next.at = 1 /\ next.ok = Top.ok /\ Top.by \in {"apply", "generate"}
      BY <1>3, <2>3, <3>1 DEF Walk
    <3>4. next \in Any
      <4>1. PICK op, at : op = Top.by /\ at = 1
        OBVIOUS
      <4>2. op \in {"check", "apply", "generate"} /\ at \in Nat \ {0}
        BY <3>3, <4>1
      <4>3. next = [Top EXCEPT !.op = op, !.at = at]
        BY <3>1, <4>1
      <4> QED
        BY <1>3, <4>2, <4>3 DEF Any, Walk
    <3>5. Goal(next) = Goal(Top) /\ Size(lib, next) = Size(lib, Top)
      BY <1>0, <3>3 DEF Goal, Size
    <3>6. 1 \in 1..(Size(lib, Top) + 1) /\ 1..(1 - 1) = {}
      BY <1>1
    <3>7. Walked(lib, next, Inner(lib, Len(frames)))
      BY <1>2, <2>0, <3>3, <3>5, <3>6 DEF Walked
    <3> QED
      BY <1>0, <3>2, <3>4, <3>5, <3>7, ContinueRight
  <2> QED
    BY <2>1, <2>2, <2>3
<1>5. CASE ~(Top.at > Len(Schema))
  <2>1. Top.at \in 1..Len(Schema) /\ Top.at <= Len(Schema) /\ Waiting
    BY <1>1, <1>3, <1>5 DEF Waiting
  <2>2. Parameter \in Params /\ Parameter.type \in Types /\ DOMAIN Schema = 1..Len(Schema)
        /\ Parameter.default \in Nodes \cup {None} /\ Parameter.mandatory \in BOOLEAN
    BY <1>3, <2>1, SchemaTypes DEF Parameter
  <2>3. Awaited(lib, request, frames, Len(frames)) = Abstract!Given(Parameter, Inner(lib, Len(frames)))
    BY <1>0, <1>1, <2>1, <2>2 DEF Turn, Abstract!GivenAll, Schema, Parameter
  <2>4. CASE Parameter.default = None
    <3>1. Continue([Top EXCEPT !.at = @ + 1])
      BY <1>0, <1>1, <1>3, <1>5, <2>4 DEF Check, Default
    <3>2. Turn(lib, Top, Inner(lib, Len(frames)))[Top.at] = "true"
      BY <1>1, <2>3, <2>4 DEF Abstract!Given
    <3>3. Turn(lib, Top, Inner(lib, Len(frames)))[Top.at] \notin Stops(Top)
      BY <3>2 DEF Stops, Cautious, Gone, Abstract!Gone
    <3>4. PICK next : next = [Top EXCEPT !.at = @ + 1]
      OBVIOUS
    <3>5. /\ next \in Any /\ next.op = Top.op /\ next.by = Top.by /\ next.name = Top.name
          /\ next.node = Top.node /\ next.at = Top.at + 1 /\ next.ok = Top.ok
      BY <1>1, <1>3, <3>4 DEF Any, Walk
    <3>6. Walked(lib, next, Inner(lib, Len(frames))) /\ Goal(next) = Goal(Top)
      BY <1>1, <1>3, <2>1, <3>2, <3>3, <3>5, WalksOn
    <3> QED
      BY <1>0, <3>1, <3>4, <3>5, <3>6, ContinueRight
  <2>5. CASE Parameter.default # None /\ Parameter.mandatory
    <3>1. Return("throw")
      BY <1>0, <1>1, <1>3, <1>5, <2>5 DEF Check, Default
    <3>2. Awaited(lib, request, frames, Len(frames)) = "throw"
      BY <2>3, <2>5 DEF Abstract!Given
    <3> QED
      BY <2>1, <3>1, <3>2, ReturnRight
  <2>6. CASE Parameter.default # None /\ ~Parameter.mandatory
    <3>1. Apply(Parameter.type, Parameter.default)
      BY <1>0, <1>1, <1>3, <1>5, <2>6 DEF Check, Default
    <3>2. Inner(lib, Len(frames))[Request("apply", Parameter.type, Parameter.default)]
            = Awaited(lib, request, frames, Len(frames))
      BY <2>3, <2>6, SameRequests DEF Abstract!Given
    <3> QED
      BY <1>0, <1>1, <2>1, <2>2, <2>6, <3>1, <3>2, ApplyRight
  <2> QED
    BY <2>4, <2>5, <2>6
<1> QED
  BY <1>4, <1>5

\* The answer that has come stops the walk, or the walk goes past the call.
LEMMA ResumeRight == ASSUME DInv, Resume, lib' = lib PROVE Due' /\ Mapped
<1>0. frames # <<>> /\ ret # "none" /\ ret \in Outcomes
  BY DEF Resume, DInv, TInv, TypeOK
<1>1. /\ request # None /\ Top \in Any /\ Sound(lib, Top) /\ Size(lib, Top) \in Nat /\ Top.at \in Nat \ {0}
      /\ Walked(lib, Top, Inner(lib, Len(frames))) /\ Inner(lib, Len(frames)) \in Table
      /\ lib \in [Names -> Seq(Params) \cup {Missing}] /\ Len(frames) \in 1..Len(frames)
      /\ Awaited(lib, request, frames, Len(frames)) = Turn(lib, Top, Inner(lib, Len(frames)))[Top.at]
  BY <1>0, TopRight
<1>2. PICK d \in 1..MaxDepth : /\ Inner(lib, Len(frames)) = Answers(lib)[d - 1]
                               /\ Inner(lib, Len(frames) - 1) = Answers(lib)[d]
  BY <1>0, TopRight
<1>3. Turn(lib, Top, Inner(lib, Len(frames)))[Top.at] = ret /\ Top.at <= Size(lib, Top)
  BY <1>0, <1>1 DEF DInv, Due, Top
<1>4. CASE Top.op = "check" /\ ret # "true"
  <2>1. Pop(Failed(Top.by))
    BY <1>4 DEF Resume
  <2>2. ret \in Stops(Top) /\ ret # "crash"
    BY <1>0, <1>4 DEF Outcomes, Stops, Cautious, Gone, Abstract!Gone
  <2>3. Answers(lib)[d][Goal(Top)] = Failed(Top.by)
    BY <1>1, <1>2, <1>3, <1>4, <2>2, WalkStops
  <2> QED
    BY <1>0, <1>2, <2>1, <2>3, PopRight
<1>5. CASE Top.op # "check" /\ ret = "throw"
  <2>1. Pop("throw")
    BY <1>5 DEF Resume
  <2>2. ret \in Stops(Top)
    BY <1>5 DEF Stops, Gone, Abstract!Gone
  <2>3. Answers(lib)[d][Goal(Top)] = "throw"
    BY <1>1, <1>2, <1>3, <1>5, <2>2, WalkStops
  <2> QED
    BY <1>0, <1>2, <2>1, <2>3, PopRight
<1>6. CASE ~(Top.op = "check" /\ ret # "true") /\ ~(Top.op # "check" /\ ret = "throw")
  <2>1. Continue([Top EXCEPT !.at = Behind(Top, ret), !.ok = Verdict(@, ret)])
    BY <1>6 DEF Resume
  <2>2. ret \notin Stops(Top)
    BY <1>0, <1>6 DEF Outcomes, Stops, Cautious, Gone, Abstract!Gone
  <2>3. PICK next : next = [Top EXCEPT !.at = Behind(Top, ret), !.ok = Verdict(@, ret)]
    OBVIOUS
  <2>4. PICK at, ok : at = Behind(Top, ret) /\ ok = Verdict(Top.ok, ret)
    OBVIOUS
  <2>5. at \in Nat \ {0} /\ ok \in BOOLEAN /\ at = Top.at + 1 /\ (ok <=> ret = "true" /\ Top.ok)
    <3>1. at = Top.at + 1 /\ at \in Nat \ {0}
      BY <1>1, <2>4 DEF Behind
    <3>2. ok \in BOOLEAN
      BY <2>4 DEF Verdict
    <3>3. ok <=> ret = "true" /\ Top.ok
      BY <2>4 DEF Verdict
    <3> QED
      BY <3>1, <3>2, <3>3
  <2>6. next = [Top EXCEPT !.at = at, !.ok = ok]
    BY <2>3, <2>4
  <2>7. /\ next \in Any /\ next.op = Top.op /\ next.by = Top.by /\ next.name = Top.name
        /\ next.node = Top.node /\ next.at = at /\ next.ok = ok
    <3>1. CASE Top \in Walk
      BY <2>5, <2>6, <3>1 DEF Any, Walk
    <3>2. CASE Top \in Validation
      BY <2>5, <2>6, <3>2 DEF Any, Validation
    <3> QED
      BY <1>1, <3>1, <3>2 DEF Any
  <2>8. Walked(lib, next, Inner(lib, Len(frames))) /\ Goal(next) = Goal(Top)
    BY <1>1, <1>3, <2>2, <2>5, <2>7, WalksOn
  <2> QED
    BY <1>0, <2>1, <2>3, <2>7, <2>8, ContinueRight
<1> QED
  BY <1>4, <1>5, <1>6

-----------------------------------------------------------------------------
\* At first nothing is due.
LEMMA InitDue == Init => Due
<1> SUFFICES ASSUME Init PROVE Due
  OBVIOUS
<1>1. Len(frames) = 0 /\ ret = "none"
  BY DEF Init
<1> QED
  BY <1>1 DEF Due

\* Every step keeps what is due, and is a step of SchemaRequests or none.
LEMMA NextDue ==
  ASSUME DInv, [Next]_vars
  PROVE  DInv' /\ [Abstract!Next]_<<lib, request, answer>>
<1>1. TInv'
  BY NextTInv DEF DInv
<1>2. ASSUME NEW r \in Inputs, Call(r) PROVE Due' /\ Abstract!Call(r)
  <2>1. frames = <<>> /\ ret = "none" /\ frames' = frames /\ ret' = ret
    BY <1>2 DEF Call, DInv, TInv, Running
  <2>2. Len(frames') = 0 /\ ret' = "none"
    BY <2>1
  <2>3. Abstract!Call(r)
    BY <1>2 DEF Call, Abstract!Call, NoAnswer, Abstract!NoAnswer
  <2> QED
    BY <2>2, <2>3 DEF Due
<1>3. ASSUME Step PROVE Due' /\ Mapped
  BY <1>3, StartRight, FinishRight, CheckRight, ApplyRecursiveRight, SchemaToYamlRight, ValidateRight,
     ResumeRight DEF Step
<1>4. ASSUME UNCHANGED vars PROVE Due' /\ Mapped
  BY <1>4 DEF vars, DInv, Due, Mapped
<1>5. Due' /\ (Mapped \/ \E r \in Inputs : Abstract!Call(r))
  BY <1>2, <1>3, <1>4 DEF Next
<1> QED
  BY <1>1, <1>5 DEF DInv, Mapped, Abstract!Next

\* The recursion of checkSchema, applySchemaRecursive, schemaToYaml and
\* validateAllSchemas through schemas that load each other, with what is thrown and
\* caught on its way, gives every call the answer that the schemas stand for; where
\* the native stack has too little room for it, and only there, the process ends.
THEOREM RecursionImplementsRequests == Spec => ImplementsRequests
<1>1. Init => DInv
  BY InitTInv, InitDue DEF DInv
<1>2. Init => Abstract!Init
  BY DEF Init, Abstract!Init, NoAnswer, Abstract!NoAnswer
<1>3. DInv /\ [Next]_vars => DInv' /\ [Abstract!Next]_Abstract!vars
  BY NextDue DEF Abstract!vars
<1> QED
  BY <1>1, <1>2, <1>3, PTL DEF Spec, ImplementsRequests, Abstract!Spec

-----------------------------------------------------------------------------
(***************************************************************************)
(* What the answers say of the schemas: the rest is about one state.       *)
(***************************************************************************)
\* The answer that is given is the one that the schemas stand for.
AnswerRight ==
  answer # NoAnswer => answer.request \in Requests /\ answer.is = Answers(lib)[MaxDepth][answer.request]

CInv == DInv /\ AnswerRight

LEMMA InitCInv == Init => CInv
  BY InitTInv, InitDue DEF DInv, CInv, AnswerRight, Init

LEMMA NextCInv == CInv /\ [Next]_vars => CInv'
<1> SUFFICES ASSUME CInv, [Next]_vars PROVE CInv'
  OBVIOUS
<1>1. DInv' /\ [Abstract!Next]_<<lib, request, answer>>
  BY NextDue DEF CInv
<1>2. CASE Abstract!Reply
  <2>1. request \in Requests /\ request # None
    BY <1>2 DEF Abstract!Reply, CInv, DInv, TInv, TypeOK
  <2>2. answer' = [request |-> request, is |-> Answers(lib)[MaxDepth][request]] /\ lib' = lib
    BY <1>2 DEF Abstract!Reply, Answers
  <2>3. answer'.request = request /\ answer'.is = Answers(lib)[MaxDepth][request]
    BY <2>2
  <2> QED
    BY <1>1, <2>1, <2>2, <2>3 DEF CInv, AnswerRight
<1>3. CASE \E r \in Inputs : Abstract!Call(r)
  BY <1>1, <1>3 DEF Abstract!Call, Abstract!NoAnswer, NoAnswer, CInv, AnswerRight
<1>4. CASE UNCHANGED <<lib, request, answer>>
  BY <1>1, <1>4 DEF CInv, AnswerRight, NoAnswer
<1> QED
  BY <1>1, <1>2, <1>3, <1>4 DEF Abstract!Next

\* If calls one after the other are accepted, each of them is.
LEMMA InTurnAccepts ==
  ASSUME NEW n \in Nat, NEW outcome, DOMAIN outcome = 1..n, NEW stops, "true" \notin stops,
         Abstract!InTurn(outcome, stops) = "true", NEW k \in 1..n
  PROVE  outcome[k] = "true"
<1>1. CASE \A j \in 1..n : outcome[j] \notin stops
  <2>1. Abstract!InTurn(outcome, stops) = Abstract!Said(\A j \in 1..n : outcome[j] = "true")
    BY <1>1, InTurnAll
  <2> QED
    BY <2>1 DEF Abstract!Said
<1>2. CASE \E j \in 1..n : outcome[j] \in stops
  <2> DEFINE T == {j \in 1..n : outcome[j] \in stops}
  <2>1. T \in SUBSET Nat /\ T # {}
    BY <1>2
  <2>2. PICK m \in T : \A j \in T : m <= j
    <3> HIDE DEF T
    <3> QED
      BY <2>1, Least
  <2>3. m \in 1..n /\ outcome[m] \in stops /\ \A j \in 1..(m - 1) : outcome[j] \notin stops
    BY <2>2
  <2> QED
    BY <2>3, InTurnStops
<1> QED
  BY <1>1, <1>2

\* If they throw, or the process ends, it is because of one of them.
LEMMA InTurnFails ==
  ASSUME NEW n \in Nat, NEW outcome, DOMAIN outcome = 1..n, NEW stops, NEW fails \in Gone,
         Abstract!InTurn(outcome, stops) = fails
  PROVE  \E k \in 1..n : outcome[k] = fails
<1>1. CASE \A j \in 1..n : outcome[j] \notin stops
  <2>1. Abstract!InTurn(outcome, stops) = Abstract!Said(\A j \in 1..n : outcome[j] = "true")
    BY <1>1, InTurnAll
  <2> QED
    BY <2>1 DEF Abstract!Said, Gone, Abstract!Gone
<1>2. CASE \E j \in 1..n : outcome[j] \in stops
  <2> DEFINE T == {j \in 1..n : outcome[j] \in stops}
  <2>1. T \in SUBSET Nat /\ T # {}
    BY <1>2
  <2>2. PICK m \in T : \A j \in T : m <= j
    <3> HIDE DEF T
    <3> QED
      BY <2>1, Least
  <2>3. m \in 1..n /\ outcome[m] \in stops /\ \A j \in 1..(m - 1) : outcome[j] \notin stops
    BY <2>2
  <2>4. outcome[m] = fails
    BY <2>3, InTurnStops
  <2> QED
    BY <2>3, <2>4
<1> QED
  BY <1>1, <1>2

Library == lib \in [Names -> Seq(Params) \cup {Missing}]

\* An answer with room for at least one call.
LEMMA AnswerAt ==
  ASSUME Library, NEW d \in 1..MaxDepth, NEW r \in Requests
  PROVE  Answers(lib)[d][r] = Abstract!Outcome(lib[r.type], d, Answers(lib)[d - 1], r)
<1>1. d \in 0..MaxDepth /\ d # 0
  BY DepthAssumption
<1>2. Answers(lib)[d] = [s \in Requests |-> Abstract!Outcome(lib[s.type], d, Answers(lib)[d - 1], s)]
  BY <1>1, AnswersDefined DEF Library
<1> QED
  BY <1>2

\* How a request on a schema is answered, if it is not refused at once.
LEMMA SchemaAnswer ==
  ASSUME Library, NEW d \in 0..MaxDepth, NEW r \in Requests, r.type \in Names,
         Answers(lib)[d][r] = "true" \/ (r.op = "apply" /\ Answers(lib)[d][r] = "throw")
  PROVE  /\ d \in 1..MaxDepth /\ lib[r.type] \in Seq(Params) /\ Answers(lib)[d - 1] \in Table
         /\ Abstract!InTurn(Abstract!GivenAll(lib[r.type], Answers(lib)[d - 1]), Cautious) = "true"
         /\ Answers(lib)[d][r] = Abstract!Served(lib[r.type], r, Answers(lib)[d - 1])
<1>1. r.op \in {"load", "generate", "apply"} /\ ~(r.op = "apply" /\ r.type \in {Trivial, Malformed})
  BY DistinctAssumption DEF Requests, Request
<1>2. lib[r.type] # Missing /\ d # 0
  BY <1>1, AnswersAtOnce DEF Library
<1>3. d \in 1..MaxDepth /\ d - 1 \in 0..MaxDepth /\ lib[r.type] \in Seq(Params)
  BY <1>2, DepthAssumption DEF Library
<1>4. Answers(lib)[d - 1] \in Table
  BY <1>3, AnswersDefined DEF Library
<1>5. Answers(lib)[d][r] = Abstract!Outcome(lib[r.type], d, Answers(lib)[d - 1], r)
  BY <1>3, AnswerAt
<1>6. Abstract!Checked(lib[r.type], d, Answers(lib)[d - 1]) =
        Abstract!InTurn(Abstract!GivenAll(lib[r.type], Answers(lib)[d - 1]), Cautious)
  BY <1>2 DEF Abstract!Checked, Cautious, Gone
<1>7. Abstract!Checked(lib[r.type], d, Answers(lib)[d - 1]) = "true"
  BY <1>1, <1>5 DEF Abstract!Outcome
<1>8. Answers(lib)[d][r] = Abstract!Served(lib[r.type], r, Answers(lib)[d - 1])
  BY <1>1, <1>5, <1>7 DEF Abstract!Outcome
<1> QED
  BY <1>3, <1>4, <1>6, <1>7, <1>8

\* To load a schema, all its DEFAULTs are accepted; to make a template, all its parts.
LEMMA LoadAccepts ==
  ASSUME Library, NEW d \in 0..MaxDepth, NEW op \in {"load", "generate"}, NEW t \in Names,
         Answers(lib)[d][Request(op, t, Leaf)] = "true"
  PROVE  /\ d \in 1..MaxDepth /\ lib[t] \in Seq(Params)
         /\ \A i \in DOMAIN lib[t] :
              /\ lib[t][i].default # None =>
                   Answers(lib)[d - 1][Request("apply", lib[t][i].type, lib[t][i].default)] = "true"
              /\ op = "generate" /\ lib[t][i].type \in Names =>
                   Answers(lib)[d - 1][Request("generate", lib[t][i].type, Leaf)] = "true"
<1> DEFINE r == Request(op, t, Leaf)
<1>1. r \in Requests /\ r.type = t /\ r.op = op /\ Answers(lib)[d][r] = "true"
  BY RequestTypes
<1> HIDE DEF r
<1>2. /\ d \in 1..MaxDepth /\ lib[t] \in Seq(Params) /\ Answers(lib)[d - 1] \in Table
      /\ Abstract!InTurn(Abstract!GivenAll(lib[t], Answers(lib)[d - 1]), Cautious) = "true"
      /\ Answers(lib)[d][r] = Abstract!Served(lib[t], r, Answers(lib)[d - 1])
  <2>1. /\ d \in 1..MaxDepth /\ lib[r.type] \in Seq(Params) /\ Answers(lib)[d - 1] \in Table
        /\ Abstract!InTurn(Abstract!GivenAll(lib[r.type], Answers(lib)[d - 1]), Cautious) = "true"
        /\ Answers(lib)[d][r] = Abstract!Served(lib[r.type], r, Answers(lib)[d - 1])
    BY <1>1, SchemaAnswer
  <2> QED
    BY <1>1, <2>1
<1>3. Len(lib[t]) \in Nat /\ DOMAIN lib[t] = 1..Len(lib[t])
  BY <1>2
<1>4. ASSUME NEW i \in 1..Len(lib[t]), lib[t][i].default # None
      PROVE  Answers(lib)[d - 1][Request("apply", lib[t][i].type, lib[t][i].default)] = "true"
  <2>1. DOMAIN Abstract!GivenAll(lib[t], Answers(lib)[d - 1]) = 1..Len(lib[t]) /\ "true" \notin Cautious
    BY <1>2, TurnTypes DEF Cautious, Gone, Abstract!Gone
  <2>2. Abstract!GivenAll(lib[t], Answers(lib)[d - 1])[i] = "true"
    BY <1>2, <1>3, <2>1, InTurnAccepts
  <2>3. Abstract!GivenAll(lib[t], Answers(lib)[d - 1])[i] = Abstract!Given(lib[t][i], Answers(lib)[d - 1])
    BY <1>3 DEF Abstract!GivenAll
  <2> QED
    BY <1>4, <2>2, <2>3, SameRequests DEF Abstract!Given
<1>5. ASSUME NEW i \in 1..Len(lib[t]), op = "generate", lib[t][i].type \in Names
      PROVE  Answers(lib)[d - 1][Request("generate", lib[t][i].type, Leaf)] = "true"
  <2>1. DOMAIN Abstract!Parts(lib[t], Answers(lib)[d - 1]) = 1..Len(lib[t]) /\ "true" \notin Gone
    BY <1>2, TurnTypes DEF Gone, Abstract!Gone
  <2>2. Abstract!InTurn(Abstract!Parts(lib[t], Answers(lib)[d - 1]), Gone) = "true"
    BY <1>1, <1>2, <1>5 DEF Abstract!Served, Gone
  <2>3. Abstract!Parts(lib[t], Answers(lib)[d - 1])[i] = "true"
    BY <1>3, <2>1, <2>2, InTurnAccepts
  <2>4. Abstract!Parts(lib[t], Answers(lib)[d - 1])[i] = Abstract!Part(lib[t][i], Answers(lib)[d - 1])
    BY <1>3 DEF Abstract!Parts
  <2> QED
    BY <1>5, <2>3, <2>4, SameRequests, DistinctAssumption DEF Abstract!Part
<1> QED
  BY <1>2, <1>3, <1>4, <1>5

\* To accept a node, its schema is loaded, and its parts are accepted.
LEMMA ApplyAccepts ==
  ASSUME Library, NEW d \in 0..MaxDepth, NEW t \in Names, NEW node \in Nodes,
         Answers(lib)[d][Request("apply", t, node)] = "true"
  PROVE  /\ d \in 1..MaxDepth /\ lib[t] \in Seq(Params) /\ node # Leaf
         /\ Answers(lib)[d][Request("load", t, Leaf)] = "true"
         /\ \A i \in DOMAIN lib[t] \cap DOMAIN node.f :
              Answers(lib)[d - 1][Request("apply", lib[t][i].type, node.f[i])] = "true"
<1> DEFINE r == Request("apply", t, node)
<1>1. r \in Requests /\ r.type = t /\ r.op = "apply" /\ r.node = node /\ Answers(lib)[d][r] = "true"
  BY RequestTypes DEF Types
<1> HIDE DEF r
<1>2. /\ d \in 1..MaxDepth /\ lib[t] \in Seq(Params) /\ Answers(lib)[d - 1] \in Table
      /\ Abstract!InTurn(Abstract!GivenAll(lib[t], Answers(lib)[d - 1]), Cautious) = "true"
      /\ Answers(lib)[d][r] = Abstract!Served(lib[t], r, Answers(lib)[d - 1])
  <2>1. /\ d \in 1..MaxDepth /\ lib[r.type] \in Seq(Params) /\ Answers(lib)[d - 1] \in Table
        /\ Abstract!InTurn(Abstract!GivenAll(lib[r.type], Answers(lib)[d - 1]), Cautious) = "true"
        /\ Answers(lib)[d][r] = Abstract!Served(lib[r.type], r, Answers(lib)[d - 1])
    BY <1>1, SchemaAnswer
  <2> QED
    BY <1>1, <2>1
<1>3. Len(lib[t]) \in Nat /\ DOMAIN lib[t] = 1..Len(lib[t])
  BY <1>2
<1>4. Answers(lib)[d][Request("load", t, Leaf)] = "true"
  <2> DEFINE load == Request("load", t, Leaf)
  <2>1. load \in Requests /\ load.type = t /\ load.op = "load"
    BY RequestTypes
  <2>2. Answers(lib)[d][load] = Abstract!Outcome(lib[t], d, Answers(lib)[d - 1], load)
    BY <1>2, <2>1, AnswerAt
  <2>3. Abstract!Checked(lib[t], d, Answers(lib)[d - 1]) = "true"
    BY <1>2, DistinctAssumption DEF Abstract!Checked, Cautious, Gone
  <2> HIDE DEF load
  <2>4. Abstract!Outcome(lib[t], d, Answers(lib)[d - 1], load) = "true"
    BY <2>1, <2>3 DEF Abstract!Outcome, Abstract!Served
  <2> QED
    BY <2>2, <2>4 DEF load
<1>5. /\ node # Leaf
      /\ Abstract!InTurn(Abstract!Children(lib[t], node, Answers(lib)[d - 1]), Gone) = "true"
  BY <1>1, <1>2, SameRequests DEF Abstract!Served, Gone
<1>6. ASSUME NEW i \in 1..Len(lib[t]), i \in DOMAIN node.f
      PROVE  Answers(lib)[d - 1][Request("apply", lib[t][i].type, node.f[i])] = "true"
  <2>1. DOMAIN Abstract!Children(lib[t], node, Answers(lib)[d - 1]) = 1..Len(lib[t]) /\ "true" \notin Gone
    BY <1>2, <1>5, TurnTypes DEF Gone, Abstract!Gone
  <2>2. Abstract!Children(lib[t], node, Answers(lib)[d - 1])[i] = "true"
    BY <1>3, <1>5, <2>1, InTurnAccepts
  <2>3. Abstract!Children(lib[t], node, Answers(lib)[d - 1])[i] =
          Abstract!Child(lib[t][i], i, node, Answers(lib)[d - 1])
    BY <1>3 DEF Abstract!Children
  <2> QED
    BY <1>6, <2>2, <2>3, SameRequests DEF Abstract!Child
<1> QED
  BY <1>2, <1>3, <1>4, <1>5, <1>6

-----------------------------------------------------------------------------
\* The schemas that are reached on a level.
Reach(x, inner) ==
  IF x[2] \notin Names THEN {}
  ELSE IF lib[x[2]] = Missing \/ x[1] = Leaf THEN {x[2]}
  ELSE {x[2]} \cup UNION {inner[<<x[1].f[i], lib[x[2]][i].type>>] : i \in DOMAIN lib[x[2]] \cap DOMAIN x[1].f}

\* What lies within a node meets types.
LEMMA Meetings ==
  ASSUME Library, NEW x \in Nodes \X Types, x[2] \in Names, lib[x[2]] # Missing, x[1] # Leaf,
         NEW i \in DOMAIN lib[x[2]] \cap DOMAIN x[1].f
  PROVE  /\ lib[x[2]][i] \in Params /\ lib[x[2]][i].type \in Types /\ x[1].f[i] \in Nodes
         /\ <<x[1].f[i], lib[x[2]][i].type>> \in Nodes \X Types
<1>1. lib[x[2]] \in Seq(Params)
  BY DEF Library
<1>2. DOMAIN lib[x[2]] = 1..Len(lib[x[2]])
  BY <1>1
<1>3. lib[x[2]][i] \in Params
  BY <1>1, <1>2, ElementOfSeq
<1>4. x[1].f[i] \in Nodes
  BY NodesAssumption
<1>5. lib[x[2]][i].type \in Types
  BY <1>3 DEF Params
<1> QED
  BY <1>3, <1>4, <1>5

\* The levels exist, and each comes from the one before.
LEMMA LevelsDefined ==
  ASSUME Library
  PROVE  /\ Levels \in [0..MaxDepth -> [Nodes \X Types -> SUBSET Names]]
         /\ \A x \in Nodes \X Types : Levels[0][x] = IF x[2] \notin Names THEN {} ELSE {x[2]}
         /\ \A d \in 1..MaxDepth, x \in Nodes \X Types : Levels[d][x] = Reach(x, Levels[d - 1])
<1> DEFINE S == [Nodes \X Types -> SUBSET Names]
           first == [x \in Nodes \X Types |-> IF x[2] \notin Names THEN {} ELSE {x[2]}]
           step == [g \in S |-> [x \in Nodes \X Types |-> Reach(x, g)]]
           Body(f) == [d \in 0..MaxDepth |->
                         [x \in Nodes \X Types |->
                            IF x[2] \notin Names THEN {}
                            ELSE IF d = 0 \/ lib[x[2]] = Missing \/ x[1] = Leaf THEN {x[2]}
                            ELSE {x[2]} \cup UNION {f[d - 1][<<x[1].f[i], lib[x[2]][i].type>>] :
                                                      i \in DOMAIN lib[x[2]] \cap DOMAIN x[1].f}]]
<1>1. first \in S
  OBVIOUS
<1>2. ASSUME NEW g \in S, NEW x \in Nodes \X Types PROVE Reach(x, g) \in SUBSET Names
  <2>1. CASE x[2] \notin Names \/ lib[x[2]] = Missing \/ x[1] = Leaf
    BY <2>1 DEF Reach
  <2>2. CASE x[2] \in Names /\ lib[x[2]] # Missing /\ x[1] # Leaf
    <3>1. \A i \in DOMAIN lib[x[2]] \cap DOMAIN x[1].f : g[<<x[1].f[i], lib[x[2]][i].type>>] \in SUBSET Names
      BY <2>2, Meetings
    <3> QED
      BY <2>2, <3>1 DEF Reach
  <2> QED
    BY <2>1, <2>2
<1>3. step \in [S -> S]
  BY <1>2
<1>4. MaxDepth \in Nat
  BY DepthAssumption
<1>5. PICK f \in [0..MaxDepth -> S] : f[0] = first /\ \A d \in 1..MaxDepth : f[d] = step[f[d - 1]]
  <2> HIDE DEF first, step, S
  <2>1. Recursive(S, first, step, MaxDepth) # {}
    BY <1>1, <1>3, <1>4, RecursiveFunction
  <2> QED
    BY <2>1 DEF Recursive
<1>6. ASSUME NEW d \in 0..MaxDepth PROVE f[d] = Body(f)[d]
  <2>1. CASE d = 0
    BY <1>5, <2>1
  <2>2. CASE d # 0
    <3>1. d \in 1..MaxDepth /\ d - 1 \in 0..MaxDepth
      BY <1>4, <2>2
    <3>2. f[d - 1] \in S
      BY <1>5, <3>1
    <3>3. f[d] = [x \in Nodes \X Types |-> Reach(x, f[d - 1])]
      BY <1>5, <3>1, <3>2
    <3> QED
      BY <2>2, <3>3 DEF Reach
  <2> QED
    BY <2>1, <2>2
<1>7. f = Body(f)
  <2>1. Body(f) = [d \in 0..MaxDepth |-> Body(f)[d]]
    OBVIOUS
  <2> HIDE DEF Body
  <2> QED
    BY <1>5, <1>6, <2>1
<1>8. Levels = CHOOSE g : g = Body(g)
  BY DEF Levels
<1>9. Levels = Body(Levels)
  <2> HIDE DEF Body
  <2> QED
    BY <1>7, <1>8
<1>10. Levels[0] = first
  BY <1>4, <1>9
<1>11. ASSUME NEW d \in 1..MaxDepth, NEW x \in Nodes \X Types PROVE Levels[d][x] = Reach(x, Levels[d - 1])
  <2>1. d \in 0..MaxDepth /\ d # 0
    BY <1>4
  <2>2. Levels[d] = Body(Levels)[d]
    <3> HIDE DEF Body
    <3> QED
      BY <1>9
  <2>3. Body(Levels)[d][x] = Reach(x, Levels[d - 1])
    BY <2>1 DEF Reach
  <2> QED
    BY <2>2, <2>3
<1> DEFINE T == {d \in 0..MaxDepth : Levels[d] \in S}
<1>12. 0 \in T
  BY <1>1, <1>4, <1>10
<1>13. ASSUME NEW d \in 0..MaxDepth, d < MaxDepth, d \in T PROVE d + 1 \in T
  <2>1. d + 1 \in 1..MaxDepth /\ d + 1 \in 0..MaxDepth /\ (d + 1) - 1 = d
    BY <1>4, <1>13
  <2>2. Levels[d + 1] = [x \in Nodes \X Types |-> Levels[d + 1][x]]
    <3>1. Levels[d + 1] = Body(Levels)[d + 1]
      <4> HIDE DEF Body
      <4> QED
        BY <1>9
    <3>2. Body(Levels)[d + 1] = [x \in Nodes \X Types |-> Body(Levels)[d + 1][x]]
      BY <2>1
    <3> HIDE DEF Body
    <3> QED
      BY <3>1, <3>2
  <2>3. \A x \in Nodes \X Types : Levels[d + 1][x] = Reach(x, Levels[d])
    BY <1>11, <2>1
  <2>4. Levels[d] \in S
    BY <1>13
  <2>5. ASSUME NEW x \in Nodes \X Types PROVE Levels[d + 1][x] \in SUBSET Names
    <3>1. PICK g \in S : g = Levels[d]
      <4> HIDE DEF S
      <4> QED
        BY <2>4
    <3>2. Reach(x, g) \in SUBSET Names
      BY <1>2
    <3> QED
      BY <2>3, <3>1, <3>2
  <2> QED
    BY <2>1, <2>2, <2>5
<1>14. 0..MaxDepth \subseteq T
  <2> HIDE DEF T
  <2> QED
    BY <1>4, <1>12, <1>13, Induction
<1>15. Levels = [d \in 0..MaxDepth |-> Levels[d]]
  <2>1. Body(Levels) = [d \in 0..MaxDepth |-> Body(Levels)[d]]
    OBVIOUS
  <2> HIDE DEF Body
  <2> QED
    BY <1>9, <2>1
<1>16. \A d \in 0..MaxDepth : Levels[d] \in S
  BY <1>14
<1> QED
  BY <1>10, <1>11, <1>15, <1>16

\* What is reached on a level is the schema itself, or is reached from a part.
LEMMA ReachedFrom ==
  ASSUME Library, NEW k \in 0..MaxDepth, NEW node \in Nodes, NEW type \in Types,
         NEW t \in Levels[k][<<node, type>>]
  PROVE  /\ type \in Names /\ t \in Names
         /\ \/ t = type
            \/ /\ k \in 1..MaxDepth /\ lib[type] # Missing /\ node # Leaf
               /\ \E i \in DOMAIN lib[type] \cap DOMAIN node.f :
                    /\ lib[type][i].type \in Types /\ node.f[i] \in Nodes
                    /\ t \in Levels[k - 1][<<node.f[i], lib[type][i].type>>]
<1> DEFINE x == <<node, type>>
<1>1. x \in Nodes \X Types /\ x[1] = node /\ x[2] = type
  OBVIOUS
<1> HIDE DEF x
<1>2. CASE k = 0
  <2>1. Levels[k][x] = IF type \notin Names THEN {} ELSE {type}
    BY <1>1, <1>2, LevelsDefined
  <2> QED
    BY <2>1 DEF x
<1>3. CASE k # 0
  <2>1. k \in 1..MaxDepth
    BY <1>3, DepthAssumption
  <2>2. t \in Reach(x, Levels[k - 1])
    BY <1>1, <2>1, LevelsDefined DEF x
  <2>3. type \in Names
    BY <1>1, <2>2 DEF Reach
  <2>4. CASE lib[type] = Missing \/ node = Leaf
    BY <1>1, <2>2, <2>3, <2>4 DEF Reach
  <2>5. CASE lib[type] # Missing /\ node # Leaf
    <3>1. t = type \/ \E i \in DOMAIN lib[type] \cap DOMAIN node.f :
                         t \in Levels[k - 1][<<node.f[i], lib[type][i].type>>]
      BY <1>1, <2>2, <2>3, <2>5 DEF Reach
    <3>2. \A i \in DOMAIN lib[type] \cap DOMAIN node.f :
            /\ lib[type][i].type \in Types /\ node.f[i] \in Nodes
            /\ <<node.f[i], lib[type][i].type>> \in Nodes \X Types
      BY <1>1, <2>3, <2>5, Meetings
    <3>3. k - 1 \in 0..MaxDepth
      BY <2>1, DepthAssumption
    <3>4. \A y \in Nodes \X Types : Levels[k - 1][y] \in SUBSET Names
      BY <3>3, LevelsDefined
    <3> QED
      BY <2>1, <2>3, <2>5, <3>1, <3>2, <3>4
  <2> QED
    BY <2>4, <2>5
<1> QED
  BY <1>2, <1>3

\* With room for how many calls, at most up to d, a schema is accepted.
Accepted(op, t, d) == \E e \in 0..MaxDepth : e <= d /\ Answers(lib)[e][Request(op, t, Leaf)] = "true"

\* A node is accepted only if the schemas that it reaches are.
LEMMA ReachedLoads ==
  ASSUME Library, NEW k \in 0..MaxDepth
  PROVE  \A d \in 0..MaxDepth, node \in Nodes, type \in Types :
           Answers(lib)[d][Request("apply", type, node)] = "true" =>
             \A t \in Levels[k][<<node, type>>] : Accepted("load", t, d)
<1> DEFINE Holds(n) == \A d \in 0..MaxDepth, node \in Nodes, type \in Types :
                         Answers(lib)[d][Request("apply", type, node)] = "true" =>
                           \A t \in Levels[n][<<node, type>>] : Accepted("load", t, d)
           T == {n \in 0..MaxDepth : Holds(n)}
<1>0. MaxDepth \in Nat
  BY DepthAssumption
<1>1. ASSUME NEW n \in 0..MaxDepth, n = 0 \/ (n # 0 /\ Holds(n - 1)) PROVE Holds(n)
  <2> SUFFICES ASSUME NEW d \in 0..MaxDepth, NEW node \in Nodes, NEW type \in Types,
                      Answers(lib)[d][Request("apply", type, node)] = "true",
                      NEW t \in Levels[n][<<node, type>>]
               PROVE  Accepted("load", t, d)
    OBVIOUS
  <2>1. /\ type \in Names /\ t \in Names
        /\ \/ t = type
           \/ /\ n \in 1..MaxDepth /\ lib[type] # Missing /\ node # Leaf
              /\ \E i \in DOMAIN lib[type] \cap DOMAIN node.f :
                   /\ lib[type][i].type \in Types /\ node.f[i] \in Nodes
                   /\ t \in Levels[n - 1][<<node.f[i], lib[type][i].type>>]
    BY ReachedFrom
  <2>2. /\ d \in 1..MaxDepth /\ Answers(lib)[d][Request("load", type, Leaf)] = "true"
        /\ \A i \in DOMAIN lib[type] \cap DOMAIN node.f :
             Answers(lib)[d - 1][Request("apply", lib[type][i].type, node.f[i])] = "true"
    BY <2>1, ApplyAccepts
  <2>3. CASE t = type
    BY <2>2, <2>3 DEF Accepted
  <2>4. CASE t # type
    <3>1. PICK i \in DOMAIN lib[type] \cap DOMAIN node.f :
            /\ lib[type][i].type \in Types /\ node.f[i] \in Nodes
            /\ t \in Levels[n - 1][<<node.f[i], lib[type][i].type>>]
      BY <2>1, <2>4
    <3>2. n # 0 /\ d - 1 \in 0..MaxDepth
      BY <1>0, <2>1, <2>2, <2>4
    <3>3. Accepted("load", t, d - 1)
      BY <1>1, <2>2, <3>1, <3>2
    <3> QED
      BY <1>0, <2>2, <3>3 DEF Accepted
  <2> QED
    BY <2>3, <2>4
<1>2. 0 \in T
  BY <1>0, <1>1
<1>3. ASSUME NEW n \in 0..MaxDepth, n < MaxDepth, n \in T PROVE n + 1 \in T
  <2>1. n + 1 \in 0..MaxDepth /\ n + 1 # 0 /\ (n + 1) - 1 = n
    BY <1>0, <1>3
  <2>2. Holds(n)
    BY <1>3
  <2> HIDE DEF Holds
  <2>3. Holds(n + 1)
    BY <1>1, <2>1, <2>2
  <2> QED
    BY <2>1, <2>3
<1>4. 0..MaxDepth \subseteq T
  <2> HIDE DEF T
  <2> QED
    BY <1>0, <1>2, <1>3, Induction
<1> QED
  BY <1>4

\* A template is made only if all schemas that its values reach have one.
LEMMA ReachedGenerates ==
  ASSUME Library, NEW k \in 0..MaxDepth
  PROVE  \A d \in 0..MaxDepth, node \in Nodes, type \in Names :
           Answers(lib)[d][Request("generate", type, Leaf)] = "true" =>
             \A t \in Levels[k][<<node, type>>] : Accepted("generate", t, d)
<1> DEFINE Holds(n) == \A d \in 0..MaxDepth, node \in Nodes, type \in Names :
                         Answers(lib)[d][Request("generate", type, Leaf)] = "true" =>
                           \A t \in Levels[n][<<node, type>>] : Accepted("generate", t, d)
           T == {n \in 0..MaxDepth : Holds(n)}
<1>0. MaxDepth \in Nat
  BY DepthAssumption
<1>1. ASSUME NEW n \in 0..MaxDepth, n = 0 \/ (n # 0 /\ Holds(n - 1)) PROVE Holds(n)
  <2> SUFFICES ASSUME NEW d \in 0..MaxDepth, NEW node \in Nodes, NEW type \in Names,
                      Answers(lib)[d][Request("generate", type, Leaf)] = "true",
                      NEW t \in Levels[n][<<node, type>>]
               PROVE  Accepted("generate", t, d)
    OBVIOUS
  <2>0. type \in Types
    BY DEF Types
  <2>1. /\ type \in Names /\ t \in Names
        /\ \/ t = type
           \/ /\ n \in 1..MaxDepth /\ lib[type] # Missing /\ node # Leaf
              /\ \E i \in DOMAIN lib[type] \cap DOMAIN node.f :
                   /\ lib[type][i].type \in Types /\ node.f[i] \in Nodes
                   /\ t \in Levels[n - 1][<<node.f[i], lib[type][i].type>>]
    BY <2>0, ReachedFrom
  <2>2. PICK op \in {"load", "generate"} : op = "generate"
    OBVIOUS
  <2>3. /\ d \in 1..MaxDepth
        /\ \A i \in DOMAIN lib[type] : lib[type][i].type \in Names =>
             Answers(lib)[d - 1][Request("generate", lib[type][i].type, Leaf)] = "true"
    BY <2>2, LoadAccepts
  <2>4. CASE t = type
    BY <2>3, <2>4 DEF Accepted
  <2>5. CASE t # type
    <3>1. PICK i \in DOMAIN lib[type] \cap DOMAIN node.f :
            /\ lib[type][i].type \in Types /\ node.f[i] \in Nodes
            /\ t \in Levels[n - 1][<<node.f[i], lib[type][i].type>>]
      BY <2>1, <2>5
    <3>2. n # 0 /\ d - 1 \in 0..MaxDepth /\ n - 1 \in 0..MaxDepth
      BY <1>0, <2>1, <2>3, <2>5
    <3>3. lib[type][i].type \in Names
      BY <3>1, <3>2, ReachedFrom
    <3>4. Accepted("generate", t, d - 1)
      BY <1>1, <2>3, <3>1, <3>2, <3>3
    <3> QED
      BY <1>0, <2>3, <3>4 DEF Accepted
  <2> QED
    BY <2>4, <2>5
<1>2. 0 \in T
  BY <1>0, <1>1
<1>3. ASSUME NEW n \in 0..MaxDepth, n < MaxDepth, n \in T PROVE n + 1 \in T
  <2>1. n + 1 \in 0..MaxDepth /\ n + 1 # 0 /\ (n + 1) - 1 = n
    BY <1>0, <1>3
  <2>2. Holds(n)
    BY <1>3
  <2> HIDE DEF Holds
  <2>3. Holds(n + 1)
    BY <1>1, <2>1, <2>2
  <2> QED
    BY <2>1, <2>3
<1>4. 0..MaxDepth \subseteq T
  <2> HIDE DEF T
  <2> QED
    BY <1>0, <1>2, <1>3, Induction
<1> QED
  BY <1>4

\* What becomes of a schema that a request depends on: it is loaded, or made a template of.
Kind(op) == IF op = "generate" THEN "generate" ELSE "load"

\* A schema is accepted only if those that it depends on are, with less room.
LEMMA DependsDown ==
  ASSUME Library, NEW op, NEW t, NEW u, <<t, u>> \in Depends(op),
         NEW d \in 0..MaxDepth, Answers(lib)[d][Request(Kind(op), t, Leaf)] = "true"
  PROVE  t \in Names /\ u \in Names /\ d - 1 \in 0..MaxDepth /\ Accepted(Kind(op), u, d - 1)
<1>1. /\ t \in Names /\ u \in Names /\ lib[t] # Missing
      /\ \E i \in DOMAIN lib[t] :
           \/ lib[t][i].default # None /\ u \in Levels[MaxDepth][<<lib[t][i].default, lib[t][i].type>>]
           \/ op = "generate" /\ lib[t][i].type = u
  BY DEF Depends, Reached
<1>2. PICK i \in DOMAIN lib[t] :
           \/ lib[t][i].default # None /\ u \in Levels[MaxDepth][<<lib[t][i].default, lib[t][i].type>>]
           \/ op = "generate" /\ lib[t][i].type = u
  BY <1>1
<1>3. Kind(op) \in {"load", "generate"}
  BY DEF Kind
<1>4. /\ d \in 1..MaxDepth /\ lib[t] \in Seq(Params)
      /\ lib[t][i].default # None =>
           Answers(lib)[d - 1][Request("apply", lib[t][i].type, lib[t][i].default)] = "true"
      /\ Kind(op) = "generate" /\ lib[t][i].type \in Names =>
           Answers(lib)[d - 1][Request("generate", lib[t][i].type, Leaf)] = "true"
  BY <1>1, <1>3, LoadAccepts
<1>5. d - 1 \in 0..MaxDepth /\ MaxDepth \in 0..MaxDepth
  BY <1>4, DepthAssumption
<1>6. i \in 1..Len(lib[t])
  BY <1>4
<1>7. lib[t][i].type \in Types /\ lib[t][i].default \in Nodes \cup {None}
  BY <1>4, <1>6, SchemaTypes
<1>8. CASE lib[t][i].default # None /\ u \in Levels[MaxDepth][<<lib[t][i].default, lib[t][i].type>>]
  <2>1. CASE op = "generate"
    <3>1. lib[t][i].type \in Names
      BY <1>5, <1>7, <1>8, ReachedFrom
    <3>2. Answers(lib)[d - 1][Request("generate", lib[t][i].type, Leaf)] = "true"
      BY <1>4, <2>1, <3>1 DEF Kind
    <3>3. Accepted("generate", u, d - 1)
      BY <1>5, <1>7, <1>8, <3>1, <3>2, ReachedGenerates
    <3> QED
      BY <1>1, <1>5, <2>1, <3>3 DEF Kind
  <2>2. CASE op # "generate"
    <3>1. Accepted("load", u, d - 1)
      BY <1>4, <1>5, <1>7, <1>8, ReachedLoads
    <3> QED
      BY <1>1, <1>5, <2>2, <3>1 DEF Kind
  <2> QED
    BY <2>1, <2>2
<1>9. CASE op = "generate" /\ lib[t][i].type = u
  <2>1. Answers(lib)[d - 1][Request("generate", u, Leaf)] = "true"
    BY <1>1, <1>4, <1>9 DEF Kind
  <2> QED
    BY <1>1, <1>5, <1>9, <2>1 DEF Kind, Accepted
<1> QED
  BY <1>2, <1>8, <1>9

\* A call is accepted only if the schemas that it begins with are.
LEMMA RootsAccepted ==
  ASSUME Library, NEW r \in Requests, Answers(lib)[MaxDepth][r] = "true"
  PROVE  \A t \in Roots(r) : t \in Names /\ Accepted(Kind(r.op), t, MaxDepth)
<1>0. MaxDepth \in 0..MaxDepth /\ MaxDepth \in 1..MaxDepth /\ MaxDepth - 1 \in 0..MaxDepth
  BY DepthAssumption
<1>1. CASE r.op = "apply"
  <2>1. r = Request("apply", r.type, r.node) /\ r.type \in Types /\ r.node \in Nodes
    BY <1>1 DEF Requests, Request
  <2>2. Roots(r) = Levels[MaxDepth][<<r.node, r.type>>]
    BY <1>1 DEF Roots, Reached
  <2>3. \A t \in Roots(r) : t \in Names
    BY <1>0, <2>1, <2>2, ReachedFrom
  <2>4. \A t \in Roots(r) : Accepted("load", t, MaxDepth)
    BY <1>0, <2>1, <2>2, ReachedLoads
  <2> QED
    BY <1>1, <2>3, <2>4 DEF Kind
<1>2. CASE r.op = "validate"
  <2>1. Answers(lib)[MaxDepth - 1] \in Table
    BY <1>0, AnswersDefined DEF Library
  <2>2. Answers(lib)[MaxDepth][r] = Abstract!InTurn(Abstract!Files(Answers(lib)[MaxDepth - 1]), Gone)
    <3>1. Answers(lib)[MaxDepth][r] = Abstract!Outcome(lib[r.type], MaxDepth, Answers(lib)[MaxDepth - 1], r)
      BY <1>0, AnswerAt
    <3> QED
      BY <1>0, <1>2, <3>1 DEF Abstract!Outcome, Gone
  <2>3. /\ Len(Listing) \in Nat /\ DOMAIN Abstract!Files(Answers(lib)[MaxDepth - 1]) = 1..Len(Listing)
        /\ "true" \notin Gone
    BY <2>1, FilesTypes DEF Gone, Abstract!Gone
  <2>4. ASSUME NEW i \in 1..Len(Listing)
        PROVE  Listing[i] \in Names /\ Accepted("load", Listing[i], MaxDepth)
    <3>1. Abstract!Files(Answers(lib)[MaxDepth - 1])[i] = "true"
      BY <2>2, <2>3, InTurnAccepts
    <3>2. /\ Listing[i] \in Names
          /\ Answers(lib)[MaxDepth - 1][Request("load", Listing[i], Leaf)] = "true"
      BY <2>1, <3>1, FilesTypes
    <3>3. MaxDepth - 1 <= MaxDepth
      BY <1>0
    <3> QED
      BY <1>0, <3>2, <3>3 DEF Accepted
  <2>5. Roots(r) = {Listing[i] : i \in 1..Len(Listing)}
    BY <1>2, ListingAssumption DEF Roots
  <2> QED
    BY <1>2, <2>4, <2>5 DEF Kind
<1>3. CASE r.op \notin {"apply", "validate"}
  <2>1. r.op \in {"load", "generate"} /\ r.type \in Names /\ r = Request(r.op, r.type, Leaf)
    BY <1>3 DEF Requests, Request
  <2>2. Roots(r) = {r.type} /\ Kind(r.op) = r.op
    BY <1>3, <2>1 DEF Roots, Kind
  <2>3. Accepted(r.op, r.type, MaxDepth)
    BY <1>0, <2>1 DEF Accepted
  <2> QED
    BY <2>1, <2>2, <2>3
<1> QED
  BY <1>1, <1>2, <1>3

\* What is accepted does not depend on itself: the room that a schema needs at
\* least is more than that of the schemas that it depends on.
LEMMA AcceptedAcyclic ==
  ASSUME Library, NEW r \in Requests, Answers(lib)[MaxDepth][r] = "true"
  PROVE  ~Cyclic(r)
<1> DEFINE op == r.op
           Room(t) == {e \in 0..MaxDepth : Answers(lib)[e][Request(Kind(op), t, Leaf)] = "true"}
           Good == {t \in Names : Room(t) # {}}
<1>0. MaxDepth \in Nat
  BY DepthAssumption
<1>1. ASSUME NEW t, NEW u, <<t, u>> \in Depends(op), NEW e \in Room(t)
      PROVE  u \in Names /\ \E f \in Room(u) : f < e
  <2>1. u \in Names /\ e - 1 \in 0..MaxDepth /\ Accepted(Kind(op), u, e - 1)
    BY <1>1, DependsDown
  <2>2. PICK f \in 0..MaxDepth : f <= e - 1 /\ Answers(lib)[f][Request(Kind(op), u, Leaf)] = "true"
    BY <2>1 DEF Accepted
  <2>3. f \in Room(u) /\ f < e
    BY <1>0, <2>2
  <2> QED
    BY <2>1, <2>3
<1>2. \A dep \in Depends(op) : dep = <<dep[1], dep[2]>> /\ dep[1] \in Names /\ dep[2] \in Names
  BY DEF Depends
<1> HIDE DEF Room
<1>3. Closed(Depends(op), Good)
  <2>1. ASSUME NEW dep \in Depends(op), dep[1] \in Good PROVE dep[2] \in Good
    BY <1>1, <1>2, <2>1
  <2> QED
    BY <2>1 DEF Closed
<1>4. Roots(r) \subseteq Good
  BY RootsAccepted DEF Accepted, Room
<1>5. ASSUME NEW s \in From(Depends(op), Roots(r)), s \in From(Depends(op), Successors(Depends(op), s))
      PROVE  FALSE
  <2>1. s \in Good
    <3>1. Good \in SUBSET Names
      OBVIOUS
    <3> QED
      BY <1>3, <1>4, <1>5, <3>1 DEF From
  <2>2. Room(s) \in SUBSET Nat /\ Room(s) # {}
    BY <2>1 DEF Room
  <2>3. PICK m \in Room(s) : \A n \in Room(s) : m <= n
    BY <2>2, Least
  <2> DEFINE Less == {t \in Names : \E f \in Room(t) : f < m}
  <2>4. Room(s) \subseteq Nat /\ \A t : Room(t) \subseteq 0..MaxDepth
    BY <2>2 DEF Room
  <2>5. Closed(Depends(op), Less)
    <3>1. ASSUME NEW dep \in Depends(op), dep[1] \in Less PROVE dep[2] \in Less
      <4>1. PICK f \in Room(dep[1]) : f < m
        BY <3>1
      <4>2. dep[2] \in Names /\ \E g \in Room(dep[2]) : g < f
        BY <1>1, <1>2
      <4>3. PICK g \in Room(dep[2]) : g < f
        BY <4>2
      <4>4. g \in Int /\ f \in Int /\ m \in Int
        BY <2>4
      <4>5. g < m
        BY <4>1, <4>3, <4>4
      <4> QED
        BY <4>2, <4>5
    <3> QED
      BY <3>1 DEF Closed
  <2>6. Successors(Depends(op), s) \subseteq Less
    <3>1. ASSUME NEW dep \in Depends(op), dep[1] = s PROVE dep[2] \in Less
      <4>1. <<s, dep[2]>> \in Depends(op)
        BY <1>2, <3>1
      <4> QED
        BY <1>1, <4>1
    <3> QED
      BY <3>1 DEF Successors
  <2>7. s \in Less
    <3>1. Less \in SUBSET Names
      OBVIOUS
    <3> HIDE DEF Less
    <3> QED
      BY <1>5, <2>5, <2>6, <3>1 DEF From
  <2>8. PICK f \in Room(s) : f < m
    BY <2>7
  <2>9. f \in Int /\ m \in Int /\ m <= f
    BY <2>3, <2>4
  <2> QED
    BY <2>8, <2>9
<1> QED
  BY <1>5 DEF Cyclic

\* checkSchema applies schemas to DEFAULT, which loads and checks schemas: none is
\* found valid, applied or made a template of by taking its own validity for granted.
THEOREM AcceptedAreAcyclic == Spec => []AcceptedIsAcyclic
<1>1. CInv => AcceptedIsAcyclic
  <2> SUFFICES ASSUME CInv, answer.is = "true" PROVE ~Cyclic(answer.request)
    BY DEF AcceptedIsAcyclic
  <2>1. Library
    BY DEF Library, CInv, DInv, TInv, TypeOK
  <2>2. answer # NoAnswer
    BY DEF NoAnswer
  <2>3. answer.request \in Requests /\ Answers(lib)[MaxDepth][answer.request] = "true"
    BY <2>2 DEF CInv, AnswerRight
  <2> QED
    BY <2>1, <2>3, AcceptedAcyclic
<1> QED
  BY <1>1, InitCInv, NextCInv, PTL DEF Spec

-----------------------------------------------------------------------------
\* An exception comes from a malformed type that the node meets, or that a schema
\* has which the node reaches, not deeper than there is room.
LEMMA ThrowsFor ==
  ASSUME Library, NEW d \in 0..MaxDepth
  PROVE  \A node \in Nodes, type \in Types :
           Answers(lib)[d][Request("apply", type, node)] = "throw" =>
             \/ type = Malformed
             \/ \E t \in Levels[d][<<node, type>>] :
                  lib[t] # Missing /\ \E i \in DOMAIN lib[t] : lib[t][i].type = Malformed
<1> DEFINE Bad(t) == lib[t] # Missing /\ \E i \in DOMAIN lib[t] : lib[t][i].type = Malformed
           Holds(n) == \A node \in Nodes, type \in Types :
                         Answers(lib)[n][Request("apply", type, node)] = "throw" =>
                           type = Malformed \/ \E t \in Levels[n][<<node, type>>] : Bad(t)
           T == {n \in 0..MaxDepth : Holds(n)}
<1>0. MaxDepth \in Nat
  BY DepthAssumption
<1>1. ASSUME NEW n \in 0..MaxDepth, n = 0 \/ (n # 0 /\ Holds(n - 1)) PROVE Holds(n)
  <2> SUFFICES ASSUME NEW node \in Nodes, NEW type \in Types,
                      Answers(lib)[n][Request("apply", type, node)] = "throw", type # Malformed
               PROVE  \E t \in Levels[n][<<node, type>>] : Bad(t)
    OBVIOUS
  <2> HIDE DEF Bad
  <2>1. type \in Names
    <3>1. type # Trivial
      BY AnswersAtOnce DEF Library, Said
    <3> QED
      BY <3>1 DEF Types
  <2>2. PICK r \in Requests : r = Request("apply", type, node)
    BY RequestTypes
  <2>3. r.op = "apply" /\ r.type = type /\ r.node = node /\ Answers(lib)[n][r] = "throw"
    BY <2>2, RequestTypes
  <2>4. /\ n \in 1..MaxDepth /\ lib[type] \in Seq(Params) /\ Answers(lib)[n - 1] \in Table
        /\ Abstract!Served(lib[type], r, Answers(lib)[n - 1]) = "throw"
    BY <2>1, <2>3, SchemaAnswer
  <2>5. node # Leaf /\ Abstract!InTurn(Abstract!Children(lib[type], node, Answers(lib)[n - 1]), Gone) = "throw"
    BY <2>3, <2>4, SameRequests DEF Abstract!Served, Gone
  <2>6. Len(lib[type]) \in Nat /\ DOMAIN lib[type] = 1..Len(lib[type])
        /\ DOMAIN Abstract!Children(lib[type], node, Answers(lib)[n - 1]) = 1..Len(lib[type])
    BY <2>4, <2>5, TurnTypes
  <2>7. PICK i \in 1..Len(lib[type]) : Abstract!Children(lib[type], node, Answers(lib)[n - 1])[i] = "throw"
    BY <2>5, <2>6, InTurnFails DEF Gone, Abstract!Gone
  <2>8. Abstract!Child(lib[type][i], i, node, Answers(lib)[n - 1]) = "throw"
    BY <2>6, <2>7 DEF Abstract!Children
  <2>9. /\ i \in DOMAIN node.f
        /\ Answers(lib)[n - 1][Request("apply", lib[type][i].type, node.f[i])] = "throw"
    BY <2>8, SameRequests DEF Abstract!Child, Abstract!Said
  <2>10. lib[type][i].type \in Types /\ node.f[i] \in Nodes /\ lib[type] # Missing
    BY <2>4, <2>5, <2>7, <2>9, SchemaTypes, NodesAssumption, DistinctAssumption
  <2>11. PICK x \in Nodes \X Types : x = <<node, type>>
    OBVIOUS
  <2>12. Levels[n][x] = Reach(x, Levels[n - 1])
    BY <2>4, LevelsDefined
  <2>13. Levels[n][x] = {type} \cup UNION {Levels[n - 1][<<node.f[j], lib[type][j].type>>] :
                                             j \in DOMAIN lib[type] \cap DOMAIN node.f}
    BY <2>1, <2>5, <2>10, <2>11, <2>12 DEF Reach
  <2>14. CASE lib[type][i].type = Malformed
    <3>1. Bad(type) /\ type \in Levels[n][x]
      BY <2>6, <2>10, <2>13, <2>14 DEF Bad
    <3> QED
      BY <2>11, <3>1
  <2>15. CASE lib[type][i].type # Malformed
    <3>1. n # 0
      BY <2>4
    <3>2. PICK t \in Levels[n - 1][<<node.f[i], lib[type][i].type>>] : Bad(t)
      BY <1>1, <2>9, <2>10, <2>15, <3>1
    <3>3. t \in Levels[n][x]
      BY <2>6, <2>9, <2>13, <3>2
    <3> QED
      BY <2>11, <3>2, <3>3
  <2> QED
    BY <2>14, <2>15
<1>2. 0 \in T
  BY <1>0, <1>1
<1>3. ASSUME NEW n \in 0..MaxDepth, n < MaxDepth, n \in T PROVE n + 1 \in T
  <2>1. n + 1 \in 0..MaxDepth /\ n + 1 # 0 /\ (n + 1) - 1 = n
    BY <1>0, <1>3
  <2>2. Holds(n)
    BY <1>3
  <2> HIDE DEF Holds
  <2>3. Holds(n + 1)
    BY <1>1, <2>1, <2>2
  <2> QED
    BY <2>1, <2>3
<1>4. 0..MaxDepth \subseteq T
  <2> HIDE DEF T
  <2> QED
    BY <1>0, <1>2, <1>3, Induction
<1> QED
  BY <1>4

\* applySchema throws only for a malformed type that the input itself meets; what is
\* wrong within the check of a schema is caught in loadSchema, whatever the depth.
THEOREM AppliesThrowForInput == Spec => []ApplyThrowsForInput
<1>1. CInv => ApplyThrowsForInput
  <2> SUFFICES ASSUME CInv, answer.is = "throw", answer.request.op = "apply" PROVE Meets(answer.request)
    BY DEF ApplyThrowsForInput
  <2>1. Library /\ MaxDepth \in 0..MaxDepth
    BY DepthAssumption DEF Library, CInv, DInv, TInv, TypeOK
  <2>2. answer # NoAnswer
    BY DEF NoAnswer
  <2>3. answer.request \in Requests /\ Answers(lib)[MaxDepth][answer.request] = "throw"
    BY <2>2 DEF CInv, AnswerRight
  <2>4. /\ answer.request.type \in Types /\ answer.request.node \in Nodes
        /\ answer.request = Request("apply", answer.request.type, answer.request.node)
    BY <2>3 DEF Requests, Request
  <2> QED
    BY <2>1, <2>3, <2>4, ThrowsFor DEF Meets, Reached
<1> QED
  BY <1>1, InitCInv, NextCInv, PTL DEF Spec

-----------------------------------------------------------------------------
\* The process ends on the way to a schema only because of one of its DEFAULTs, or of
\* one of the parts of its template.
LEMMA LoadCrashes ==
  ASSUME Library, NEW d \in 1..MaxDepth, NEW op \in {"load", "generate"}, NEW t \in Names,
         Answers(lib)[d][Request(op, t, Leaf)] = "crash"
  PROVE  /\ lib[t] \in Seq(Params)
         /\ \E i \in DOMAIN lib[t] :
              \/ /\ lib[t][i].default # None
                 /\ Answers(lib)[d - 1][Request("apply", lib[t][i].type, lib[t][i].default)] = "crash"
              \/ /\ op = "generate" /\ lib[t][i].type \in Names
                 /\ Answers(lib)[d - 1][Request("generate", lib[t][i].type, Leaf)] = "crash"
<1> DEFINE r == Request(op, t, Leaf)
           inner == Answers(lib)[d - 1]
           checked == Abstract!InTurn(Abstract!GivenAll(lib[t], inner), Cautious)
<1>1. r \in Requests /\ r.type = t /\ r.op = op /\ Answers(lib)[d][r] = "crash"
  BY RequestTypes
<1> HIDE DEF r
<1>2. d \in 0..MaxDepth /\ d # 0 /\ d - 1 \in 0..MaxDepth
  BY DepthAssumption
<1>3. lib[t] # Missing /\ lib[t] \in Seq(Params)
  BY <1>1, <1>2, AnswersAtOnce DEF Library
<1>4. Len(lib[t]) \in Nat /\ DOMAIN lib[t] = 1..Len(lib[t]) /\ inner \in Table
  <2>1. Answers(lib)[d - 1] \in Table
    BY <1>2, AnswersDefined DEF Library
  <2>2. Len(lib[t]) \in Nat /\ DOMAIN lib[t] = 1..Len(lib[t])
    BY <1>3
  <2> QED
    BY <2>1, <2>2
<1>5. Abstract!Outcome(lib[t], d, inner, r) = "crash"
  BY <1>1, AnswerAt
<1>6. Abstract!Checked(lib[t], d, inner) = checked
  BY <1>2, <1>3 DEF Abstract!Checked, Cautious, Gone
<1>7. ~(r.op = "apply" /\ r.type \in {Trivial, Malformed}) /\ r.op # "validate"
  BY <1>1
<1> HIDE DEF inner
<1>8. CASE checked = "crash"
  <2>1. DOMAIN Abstract!GivenAll(lib[t], inner) = 1..Len(lib[t]) /\ "crash" \in Gone
    BY <1>3, <1>4, TurnTypes DEF Gone, Abstract!Gone
  <2>2. PICK i \in 1..Len(lib[t]) : Abstract!GivenAll(lib[t], inner)[i] = "crash"
    BY <1>4, <1>8, <2>1, InTurnFails
  <2>3. Abstract!Given(lib[t][i], inner) = "crash"
    BY <1>4, <2>2 DEF Abstract!GivenAll
  <2>4. lib[t][i].default # None /\ inner[Request("apply", lib[t][i].type, lib[t][i].default)] = "crash"
    BY <2>3, SameRequests DEF Abstract!Given
  <2> QED
    BY <1>3, <1>4, <2>4 DEF inner
<1>9. CASE checked # "crash"
  <2>1. Abstract!Served(lib[t], r, inner) = "crash" /\ checked = "true"
    BY <1>5, <1>6, <1>7, <1>9 DEF Abstract!Outcome
  <2>2. op = "generate" /\ Abstract!InTurn(Abstract!Parts(lib[t], inner), Gone) = "crash"
    BY <1>1, <2>1 DEF Abstract!Served, Gone
  <2>3. DOMAIN Abstract!Parts(lib[t], inner) = 1..Len(lib[t]) /\ "crash" \in Gone
    BY <1>3, <1>4, TurnTypes DEF Gone, Abstract!Gone
  <2>4. PICK i \in 1..Len(lib[t]) : Abstract!Parts(lib[t], inner)[i] = "crash"
    BY <1>4, <2>2, <2>3, InTurnFails
  <2>5. Abstract!Part(lib[t][i], inner) = "crash"
    BY <1>4, <2>4 DEF Abstract!Parts
  <2>6. lib[t][i].type \notin {Trivial, Malformed} /\ inner[Request("generate", lib[t][i].type, Leaf)] = "crash"
    BY <2>5, SameRequests, DistinctAssumption DEF Abstract!Part
  <2>7. lib[t][i].type \in Names
    BY <1>3, <2>6, SchemaTypes DEF Types
  <2> QED
    BY <1>3, <1>4, <2>2, <2>6, <2>7 DEF inner
<1> QED
  BY <1>8, <1>9

\* It ends on the way to a node because of the schema, or of one of the parts.
LEMMA ApplyCrashes ==
  ASSUME Library, NEW d \in 0..MaxDepth, NEW type \in Types, NEW node \in Nodes,
         Answers(lib)[d][Request("apply", type, node)] = "crash"
  PROVE  /\ type \in Names /\ lib[type] # Missing
         /\ \/ d = 0
            \/ d \in 1..MaxDepth /\ Answers(lib)[d][Request("load", type, Leaf)] = "crash"
            \/ /\ d \in 1..MaxDepth /\ node # Leaf
               /\ \E i \in DOMAIN lib[type] \cap DOMAIN node.f :
                    Answers(lib)[d - 1][Request("apply", lib[type][i].type, node.f[i])] = "crash"
<1>1. type \in Names
  <2>1. type # Trivial /\ type # Malformed
    BY AnswersAtOnce DEF Library, Said
  <2> QED
    BY <2>1 DEF Types
<1>2. PICK r \in Requests : r = Request("apply", type, node)
  BY RequestTypes
<1>3. r.op = "apply" /\ r.type = type /\ r.node = node /\ Answers(lib)[d][r] = "crash"
  BY <1>2, RequestTypes
<1>4. lib[type] # Missing /\ lib[type] \in Seq(Params)
  BY <1>1, <1>3, AnswersAtOnce DEF Library
<1>5. ASSUME d # 0
      PROVE  /\ d \in 1..MaxDepth
             /\ \/ Answers(lib)[d][Request("load", type, Leaf)] = "crash"
                \/ /\ node # Leaf
                   /\ \E i \in DOMAIN lib[type] \cap DOMAIN node.f :
                        Answers(lib)[d - 1][Request("apply", lib[type][i].type, node.f[i])] = "crash"
  <2> DEFINE inner == Answers(lib)[d - 1]
             load == Request("load", type, Leaf)
  <2>1. d \in 1..MaxDepth /\ d - 1 \in 0..MaxDepth
    BY <1>5, DepthAssumption
  <2>2. Len(lib[type]) \in Nat /\ DOMAIN lib[type] = 1..Len(lib[type]) /\ inner \in Table
    <3>1. Answers(lib)[d - 1] \in Table
      BY <2>1, AnswersDefined DEF Library
    <3>2. Len(lib[type]) \in Nat /\ DOMAIN lib[type] = 1..Len(lib[type])
      BY <1>4
    <3> QED
      BY <3>1, <3>2
  <2>3. Abstract!Outcome(lib[type], d, inner, r) = "crash"
    BY <1>3, <2>1, AnswerAt
  <2>4. /\ load \in Requests /\ load.op = "load" /\ load.type = type
        /\ Answers(lib)[d][load] = Abstract!Outcome(lib[load.type], d, inner, load)
    BY <1>1, <2>1, RequestTypes, AnswerAt
  <2> HIDE DEF inner, load
  <2>5. r.type \notin {Trivial, Malformed}
    BY <1>1, <1>3, DistinctAssumption
  <2>6. CASE Abstract!Checked(lib[type], d, inner) = "crash"
    <3>1. Answers(lib)[d][load] = "crash"
      BY <2>4, <2>6 DEF Abstract!Outcome
    <3> QED
      BY <2>1, <3>1 DEF load
  <2>7. CASE Abstract!Checked(lib[type], d, inner) # "crash"
    <3>1. Abstract!Served(lib[type], r, inner) = "crash"
      BY <1>3, <2>3, <2>5, <2>7 DEF Abstract!Outcome
    <3>2. node # Leaf /\ Abstract!InTurn(Abstract!Children(lib[type], node, inner), Gone) = "crash"
      BY <1>3, <3>1, SameRequests DEF Abstract!Served, Gone
    <3>3. DOMAIN Abstract!Children(lib[type], node, inner) = 1..Len(lib[type]) /\ "crash" \in Gone
      BY <1>4, <2>2, <3>2, TurnTypes DEF Gone, Abstract!Gone
    <3>4. PICK i \in 1..Len(lib[type]) : Abstract!Children(lib[type], node, inner)[i] = "crash"
      BY <2>2, <3>2, <3>3, InTurnFails
    <3>5. Abstract!Child(lib[type][i], i, node, inner) = "crash"
      BY <2>2, <3>4 DEF Abstract!Children
    <3>6. i \in DOMAIN node.f /\ inner[Request("apply", lib[type][i].type, node.f[i])] = "crash"
      BY <3>5, SameRequests DEF Abstract!Child, Abstract!Said
    <3> QED
      BY <2>1, <2>2, <3>2, <3>6 DEF inner
  <2> QED
    BY <2>6, <2>7
<1> QED
  BY <1>1, <1>4, <1>5

-----------------------------------------------------------------------------
\* Chains of dependencies: From is the least closed set.
LEMMA FromLeast ==
  ASSUME NEW depends \in SUBSET (Names \X Names), NEW set \in SUBSET Names
  PROVE  /\ From(depends, set) \in SUBSET Names /\ set \subseteq From(depends, set)
         /\ Closed(depends, From(depends, set))
         /\ \A closed \in SUBSET Names :
              set \subseteq closed /\ Closed(depends, closed) => From(depends, set) \subseteq closed
  BY DEF From, Closed

\* No schema that t leads to depends on itself.
Acyclic(depends, t) == \A s \in From(depends, {t}) : s \notin From(depends, Successors(depends, s))

\* What t depends on leads to less than t does.
LEMMA ChainDown ==
  ASSUME NEW depends \in SUBSET (Names \X Names), NEW t \in Names, NEW u \in Names,
         <<t, u>> \in depends, Acyclic(depends, t)
  PROVE  /\ Acyclic(depends, u) /\ From(depends, {u}) \subseteq From(depends, {t})
         /\ t \in From(depends, {t}) /\ t \notin From(depends, {u})
<1>1. Successors(depends, t) \in SUBSET Names /\ u \in Successors(depends, t)
  BY DEF Successors
<1>2. t \in From(depends, {t}) /\ u \in From(depends, {t})
  <2>1. t \in From(depends, {t}) /\ Closed(depends, From(depends, {t}))
    BY FromLeast
  <2> QED
    BY <2>1 DEF Closed
<1>3. From(depends, {u}) \subseteq From(depends, {t})
  <2>1. {u} \subseteq From(depends, {t})
    BY <1>2
  <2>2. Closed(depends, From(depends, {t})) /\ From(depends, {t}) \in SUBSET Names
    BY FromLeast
  <2> QED
    BY <2>1, <2>2, FromLeast
<1>4. From(depends, {u}) \subseteq From(depends, Successors(depends, t))
  <2>1. /\ Closed(depends, From(depends, Successors(depends, t)))
        /\ From(depends, Successors(depends, t)) \in SUBSET Names
        /\ {u} \subseteq From(depends, Successors(depends, t))
    BY <1>1, FromLeast
  <2> QED
    BY <2>1, FromLeast
<1> QED
  BY <1>2, <1>3, <1>4 DEF Acyclic


-----------------------------------------------------------------------------
(***************************************************************************)
(* How much room there has to be: a chain of m schemas that depend one on  *)
(* the other, and the walks through nodes of height H between them, take   *)
(* at most m * (H + 1) calls.                                              *)
(***************************************************************************)
Deep(height, H) ==
  /\ H \in Nat /\ height \in [Nodes -> 0..H]
  /\ \A node \in Nodes \ {Leaf} : \A i \in DOMAIN node.f : height[node.f[i]] < height[node]

\* A schema that depends on fewer than m others, and not on itself.
Small(op, t, m) ==
  Acyclic(Depends(op), t) /\ Cardinality(From(Depends(op), {t})) <= m

\* Such schemas are loaded, and templates for them made, and nodes that reach only
\* such schemas are checked, within the room.
LoadsFit(op, H, m) ==
  \A d \in 0..MaxDepth, t \in Names :
    Small(op, t, m) /\ d + H >= m * (H + 1) =>
      /\ Answers(lib)[d][Request("load", t, Leaf)] # "crash"
      /\ op = "generate" => Answers(lib)[d][Request("generate", t, Leaf)] # "crash"
ApplyFits(op, height, H, m, node) ==
  \A d \in 0..MaxDepth : \A k \in d..MaxDepth : \A type \in Types :
    /\ d + H >= m * (H + 1) + height[node]
    /\ \A t \in Levels[k][<<node, type>>] : Small(op, t, m)
    => Answers(lib)[d][Request("apply", type, node)] # "crash"

\* One more schema needs H + 1 calls more.
LEMMA Room ==
  ASSUME NEW m \in Nat, NEW H \in Nat
  PROVE  /\ m * (H + 1) \in Nat /\ (m + 1) * (H + 1) = m * (H + 1) + H + 1
         /\ m # 0 => m * (H + 1) >= H + 1
<1>1. m * (H + 1) \in Nat /\ (m + 1) * (H + 1) = m * (H + 1) + H + 1
  OBVIOUS
<1>2. ASSUME m # 0 PROVE m * (H + 1) >= H + 1
  <2>1. m - 1 \in Nat /\ H + 1 \in Nat
    BY <1>2
  <2>2. (m - 1) * (H + 1) \in Nat
    BY <2>1
  <2>3. m * (H + 1) = (m - 1) * (H + 1) + (H + 1)
    BY <2>1
  <2> QED
    BY <2>1, <2>2, <2>3
<1> QED
  BY <1>1, <1>2

\* A schema leads at least to itself.
LEMMA SmallSize ==
  ASSUME IsFiniteSet(Names), NEW op, NEW t \in Names
  PROVE  /\ Depends(op) \in SUBSET (Names \X Names)
         /\ IsFiniteSet(From(Depends(op), {t}))
         /\ Cardinality(From(Depends(op), {t})) \in Nat \ {0}
         /\ Cardinality(From(Depends(op), {t})) <= Cardinality(Names)
<1>1. Depends(op) \in SUBSET (Names \X Names)
  BY DEF Depends
<1>2. From(Depends(op), {t}) \in SUBSET Names /\ t \in From(Depends(op), {t})
  BY <1>1, FromLeast
<1>3. IsFiniteSet(From(Depends(op), {t})) /\ Cardinality(From(Depends(op), {t})) <= Cardinality(Names)
  BY <1>2, FS_Subset
<1>4. Cardinality(From(Depends(op), {t})) \in Nat
  BY <1>3, FS_CardinalityType
<1>5. Cardinality(From(Depends(op), {t})) # 0
  BY <1>2, <1>3, FS_EmptySet
<1> QED
  BY <1>1, <1>3, <1>4, <1>5

\* What a small schema depends on is smaller.
LEMMA SmallDown ==
  ASSUME IsFiniteSet(Names), NEW op, NEW m \in Nat, NEW t \in Names, NEW u \in Names,
         <<t, u>> \in Depends(op), Small(op, t, m + 1)
  PROVE  Small(op, u, m)
<1> DEFINE D == Depends(op)
<1>1. D \in SUBSET (Names \X Names) /\ IsFiniteSet(From(D, {t}))
  BY SmallSize
<1>2. /\ Acyclic(D, u) /\ From(D, {u}) \subseteq From(D, {t})
      /\ t \in From(D, {t}) /\ t \notin From(D, {u})
  BY <1>1, ChainDown DEF Small
<1>3. /\ Cardinality(From(D, {u})) <= Cardinality(From(D, {t}))
      /\ Cardinality(From(D, {u})) # Cardinality(From(D, {t}))
  BY <1>1, <1>2, FS_Subset
<1>4. Cardinality(From(D, {u})) \in Nat /\ Cardinality(From(D, {t})) \in Nat
  BY SmallSize
<1>5. Cardinality(From(D, {t})) <= m + 1
  BY DEF Small
<1>6. Cardinality(From(D, {u})) <= m
  <2> HIDE DEF D
  <2> QED
    BY <1>3, <1>4, <1>5
<1> QED
  BY <1>2, <1>6 DEF Small

\* If schemas fit, so do the nodes that reach them: one call for every level of a node.
LEMMA AppliesFit ==
  ASSUME Library, IsFiniteSet(Names), NEW op, NEW m \in Nat, NEW H, NEW height,
         Deep(height, H), LoadsFit(op, H, m), NEW node \in Nodes,
         \A i \in DOMAIN node.f : node # Leaf => ApplyFits(op, height, H, m, node.f[i])
  PROVE  ApplyFits(op, height, H, m, node)
<1> SUFFICES ASSUME NEW d \in 0..MaxDepth, NEW k \in d..MaxDepth, NEW type \in Types,
                    d + H >= m * (H + 1) + height[node],
                    \A t \in Levels[k][<<node, type>>] : Small(op, t, m),
                    Answers(lib)[d][Request("apply", type, node)] = "crash"
             PROVE  FALSE
  BY DEF ApplyFits
<1>1. /\ H \in Nat /\ height[node] \in 0..H /\ m * (H + 1) \in Nat
      /\ m # 0 => m * (H + 1) >= H + 1
  <2>1. H \in Nat /\ height[node] \in 0..H
    BY DEF Deep
  <2> QED
    BY <2>1, Room
<1>2. MaxDepth \in Nat /\ k \in 0..MaxDepth /\ d <= k
  BY DepthAssumption
<1> DEFINE room == m * (H + 1)
           x == <<node, type>>
<1> HIDE DEF room
<1>3. type \in Names /\ lib[type] # Missing
  BY ApplyCrashes
<1>4. x \in Nodes \X Types /\ x[1] = node /\ x[2] = type
  BY DEF Types
<1>5. type \in Levels[k][x]
  <2>1. CASE k = 0
    BY <1>3, <1>4, <2>1, LevelsDefined
  <2>2. CASE k # 0
    <3>1. Levels[k][x] = Reach(x, Levels[k - 1])
      BY <1>2, <1>4, <2>2, LevelsDefined
    <3> QED
      BY <1>3, <1>4, <3>1 DEF Reach
  <2> QED
    BY <2>1, <2>2
<1>6. Small(op, type, m)
  BY <1>5
<1>7. m # 0
  <2>1. Cardinality(From(Depends(op), {type})) \in Nat \ {0}
    BY <1>3, SmallSize
  <2>2. Cardinality(From(Depends(op), {type})) <= m
    BY <1>6 DEF Small
  <2> QED
    BY <2>1, <2>2
<1>8. d + H >= room + height[node] /\ room >= H + 1 /\ room \in Nat
  BY <1>1, <1>7 DEF room
<1>9. d # 0 /\ d + H >= room
  BY <1>1, <1>8
<1>10. Answers(lib)[d][Request("load", type, Leaf)] # "crash"
  BY <1>3, <1>6, <1>9 DEF LoadsFit, room
<1>11. PICK i \in DOMAIN lib[type] \cap DOMAIN node.f :
         /\ d \in 1..MaxDepth /\ node # Leaf
         /\ Answers(lib)[d - 1][Request("apply", lib[type][i].type, node.f[i])] = "crash"
  BY <1>9, <1>10, ApplyCrashes
<1>12. lib[type][i].type \in Types /\ node.f[i] \in Nodes
  BY <1>3, <1>4, <1>11, Meetings
<1>13. ApplyFits(op, height, H, m, node.f[i])
  BY <1>11
<1>14. (d - 1) + H >= room + height[node.f[i]]
  <2>1. height[node.f[i]] < height[node] /\ height[node.f[i]] \in 0..H
    BY <1>11, <1>12 DEF Deep
  <2> QED
    BY <1>1, <1>8, <2>1
<1>15. \A t \in Levels[k - 1][<<node.f[i], lib[type][i].type>>] : Small(op, t, m)
  <2>1. k \in 1..MaxDepth
    BY <1>2, <1>11
  <2>2. Levels[k][x] = Reach(x, Levels[k - 1])
    BY <1>4, <2>1, LevelsDefined
  <2>3. Levels[k - 1][<<node.f[i], lib[type][i].type>>] \subseteq Levels[k][x]
    BY <1>3, <1>4, <1>11, <2>2 DEF Reach
  <2> QED
    BY <2>3
<1>16. d - 1 \in 0..MaxDepth /\ k - 1 \in (d - 1)..MaxDepth
  BY <1>2, <1>11
<1> QED
  BY <1>11, <1>12, <1>13, <1>14, <1>15, <1>16 DEF ApplyFits, room

\* So all nodes fit, whatever their height.
LEMMA AllAppliesFit ==
  ASSUME Library, IsFiniteSet(Names), NEW op, NEW m \in Nat, NEW H, NEW height,
         Deep(height, H), LoadsFit(op, H, m)
  PROVE  \A node \in Nodes : ApplyFits(op, height, H, m, node)
<1> DEFINE Holds(n) == \A node \in Nodes : height[node] <= n => ApplyFits(op, height, H, m, node)
           T == {n \in 0..H : Holds(n)}
<1>0. H \in Nat /\ height \in [Nodes -> 0..H]
  BY DEF Deep
<1>1. ASSUME NEW n \in 0..H, n = 0 \/ (n # 0 /\ Holds(n - 1)) PROVE Holds(n)
  <2> SUFFICES ASSUME NEW node \in Nodes, height[node] <= n PROVE ApplyFits(op, height, H, m, node)
    OBVIOUS
  <2>1. ASSUME NEW i \in DOMAIN node.f, node # Leaf PROVE ApplyFits(op, height, H, m, node.f[i])
    <3>1. /\ node.f[i] \in Nodes /\ height[node.f[i]] < height[node]
          /\ height[node.f[i]] \in Nat /\ height[node] \in Nat
      BY <1>0, <2>1, NodesAssumption DEF Deep
    <3>2. n # 0 /\ height[node.f[i]] <= n - 1
      BY <3>1
    <3> QED
      BY <1>1, <3>1, <3>2
  <2> QED
    BY <2>1, AppliesFit
<1>2. 0 \in T
  <2>1. 0 \in 0..H
    BY <1>0
  <2> QED
    BY <1>1, <2>1
<1>3. ASSUME NEW n \in 0..H, n < H, n \in T PROVE n + 1 \in T
  <2>1. n + 1 \in 0..H /\ n + 1 # 0 /\ (n + 1) - 1 = n
    BY <1>0, <1>3
  <2>2. Holds(n)
    BY <1>3
  <2> HIDE DEF Holds
  <2>3. Holds(n + 1)
    BY <1>1, <2>1, <2>2
  <2> QED
    BY <2>1, <2>3
<1>4. 0..H \subseteq T
  <2> HIDE DEF T
  <2> QED
    BY <1>0, <1>2, <1>3, Induction
<1>5. H \in 0..H
  BY <1>0
<1>6. Holds(H)
  BY <1>4, <1>5
<1> QED
  BY <1>0, <1>6

\* If schemas that lead to m schemas fit, so do those that lead to one more.
LEMMA LoadsFitOn ==
  ASSUME Library, IsFiniteSet(Names), NEW op, NEW m \in Nat, NEW H, NEW height,
         Deep(height, H), LoadsFit(op, H, m)
  PROVE  LoadsFit(op, H, m + 1)
<1> SUFFICES ASSUME NEW d \in 0..MaxDepth, NEW t \in Names, Small(op, t, m + 1),
                    d + H >= (m + 1) * (H + 1),
                    NEW kind \in {"load", "generate"}, kind = "generate" => op = "generate",
                    Answers(lib)[d][Request(kind, t, Leaf)] = "crash"
             PROVE  FALSE
  BY DEF LoadsFit
<1> DEFINE room == m * (H + 1)
<1>1. H \in Nat /\ room \in Nat /\ d + H >= room + H + 1
  BY Room DEF Deep
<1> HIDE DEF room
<1>2. d \in 1..MaxDepth /\ d - 1 \in 0..MaxDepth /\ MaxDepth \in (d - 1)..MaxDepth
  BY <1>1, DepthAssumption
<1>3. lib[t] \in Seq(Params) /\ lib[t] # Missing
  BY <1>2, LoadCrashes, DistinctAssumption
<1>4. DOMAIN lib[t] = 1..Len(lib[t])
  BY <1>3
<1>5. PICK i \in DOMAIN lib[t] :
        \/ /\ lib[t][i].default # None
           /\ Answers(lib)[d - 1][Request("apply", lib[t][i].type, lib[t][i].default)] = "crash"
        \/ /\ kind = "generate" /\ lib[t][i].type \in Names
           /\ Answers(lib)[d - 1][Request("generate", lib[t][i].type, Leaf)] = "crash"
  BY <1>2, LoadCrashes
<1>6. lib[t][i] \in Params
  BY <1>3, <1>4, ElementOfSeq
<1>7. CASE lib[t][i].default # None
           /\ Answers(lib)[d - 1][Request("apply", lib[t][i].type, lib[t][i].default)] = "crash"
  <2> DEFINE type == lib[t][i].type
             node == lib[t][i].default
  <2>1. type \in Types /\ node \in Nodes
    BY <1>6, <1>7 DEF Params
  <2>2. ASSUME NEW u \in Levels[MaxDepth][<<node, type>>] PROVE Small(op, u, m)
    <3>1. u \in Names
      BY <1>2, <2>1, DepthAssumption, ReachedFrom
    <3>2. <<t, u>> \in Depends(op)
      BY <1>3, <1>5, <1>7, <3>1 DEF Depends, Reached
    <3> QED
      BY <3>1, <3>2, SmallDown
  <2>3. height[node] \in 0..H
    BY <2>1 DEF Deep
  <2>4. (d - 1) + H >= room + height[node]
    BY <1>1, <1>2, <2>3
  <2>5. ApplyFits(op, height, H, m, node)
    BY <2>1, AllAppliesFit
  <2> HIDE DEF type, node
  <2>6. Answers(lib)[d - 1][Request("apply", type, node)] # "crash"
    BY <1>2, <2>1, <2>2, <2>4, <2>5 DEF ApplyFits, room
  <2> QED
    BY <1>7, <2>6 DEF type, node
<1>8. CASE /\ kind = "generate" /\ lib[t][i].type \in Names
           /\ Answers(lib)[d - 1][Request("generate", lib[t][i].type, Leaf)] = "crash"
  <2>1. op = "generate"
    BY <1>8
  <2>2. <<t, lib[t][i].type>> \in Depends(op)
    BY <1>3, <1>5, <1>8, <2>1 DEF Depends
  <2>3. Small(op, lib[t][i].type, m)
    BY <1>8, <2>2, SmallDown
  <2>4. (d - 1) + H >= room
    BY <1>1, <1>2
  <2> QED
    BY <1>2, <1>8, <2>1, <2>3, <2>4 DEF LoadsFit, room
<1> QED
  BY <1>5, <1>7, <1>8


\* As many schemas as there are.
LEMMA AllLoadsFit ==
  ASSUME Library, IsFiniteSet(Names), NEW op, NEW n \in Nat, NEW H, NEW height, Deep(height, H)
  PROVE  LoadsFit(op, H, n)
<1> DEFINE T == {m \in 0..n : LoadsFit(op, H, m)}
<1>1. 0 \in T
  <2>1. ASSUME NEW t \in Names PROVE ~Small(op, t, 0)
    <3>1. Cardinality(From(Depends(op), {t})) \in Nat \ {0}
      BY SmallSize
    <3> QED
      BY <3>1 DEF Small
  <2>2. LoadsFit(op, H, 0)
    BY <2>1 DEF LoadsFit
  <2> QED
    BY <2>2
<1>2. ASSUME NEW m \in 0..n, m < n, m \in T PROVE m + 1 \in T
  <2>1. LoadsFit(op, H, m + 1)
    BY <1>2, LoadsFitOn
  <2> QED
    BY <1>2, <2>1
<1>3. 0..n \subseteq T
  <2> HIDE DEF T
  <2> QED
    BY <1>1, <1>2, Induction
<1> QED
  BY <1>3

\* If no chain of dependencies is closed, there is room for every call.
LEMMA AcyclicFits ==
  ASSUME Library, IsFiniteSet(Names), NEW H, NEW height, Deep(height, H),
         MaxDepth > Cardinality(Names) * (H + 1),
         NEW r \in Requests, Answers(lib)[MaxDepth][r] = "crash"
  PROVE  Cyclic(r)
<1> SUFFICES ASSUME ~Cyclic(r) PROVE FALSE
  OBVIOUS
<1> DEFINE n == Cardinality(Names)
           room == n * (H + 1)
           op == r.op
           D == Depends(op)
<1>1. n \in Nat /\ H \in Nat /\ room \in Nat /\ MaxDepth \in Nat /\ MaxDepth > room
  <2>1. n \in Nat /\ H \in Nat
    BY FS_CardinalityType DEF Deep
  <2> HIDE DEF n
  <2>2. room \in Nat
    BY <2>1, Room
  <2> QED
    BY <2>1, <2>2, DepthAssumption DEF n
<1>2. LoadsFit(op, H, n)
  BY <1>1, AllLoadsFit
<1>3. D \in SUBSET (Names \X Names)
  BY DEF Depends
<1>4. ASSUME NEW t \in Names, t \in Roots(r) PROVE Small(op, t, n)
  <2>1. From(D, {t}) \subseteq From(D, Roots(r))
    BY <1>4 DEF From
  <2>2. Acyclic(D, t)
    BY <2>1 DEF Acyclic, Cyclic
  <2>3. Cardinality(From(D, {t})) <= n
    BY SmallSize
  <2> QED
    BY <2>2, <2>3 DEF Small
<1> HIDE DEF n, room, D
<1>5. MaxDepth \in 0..MaxDepth /\ MaxDepth \in 1..MaxDepth /\ MaxDepth - 1 \in 0..MaxDepth
  BY DepthAssumption
<1>6. CASE r.op = "apply"
  <2>1. r.type \in Types /\ r.node \in Nodes /\ r = Request("apply", r.type, r.node)
    BY <1>6 DEF Requests, Request
  <2>2. Roots(r) = Levels[MaxDepth][<<r.node, r.type>>]
    BY <1>6 DEF Roots, Reached
  <2>3. \A t \in Levels[MaxDepth][<<r.node, r.type>>] : Small(op, t, n)
    BY <1>4, <1>5, <2>1, <2>2, ReachedFrom
  <2>4. ApplyFits(op, height, H, n, r.node)
    BY <1>1, <1>2, <2>1, AllAppliesFit
  <2>5. MaxDepth + H >= room + height[r.node] /\ MaxDepth \in MaxDepth..MaxDepth
    <3>1. height[r.node] \in 0..H
      BY <2>1 DEF Deep
    <3> QED
      BY <1>1, <3>1
  <2> QED
    BY <1>5, <2>1, <2>3, <2>4, <2>5 DEF ApplyFits, room
<1>7. CASE r.op = "validate"
  <2>1. Answers(lib)[MaxDepth - 1] \in Table
    BY <1>5, AnswersDefined DEF Library
  <2>2. Abstract!InTurn(Abstract!Files(Answers(lib)[MaxDepth - 1]), Gone) = "crash"
    <3>1. Answers(lib)[MaxDepth][r] = Abstract!Outcome(lib[r.type], MaxDepth, Answers(lib)[MaxDepth - 1], r)
      BY <1>5, AnswerAt
    <3> QED
      BY <1>5, <1>7, <3>1 DEF Abstract!Outcome, Gone
  <2>3. /\ Len(Listing) \in Nat /\ DOMAIN Abstract!Files(Answers(lib)[MaxDepth - 1]) = 1..Len(Listing)
        /\ "crash" \in Gone
    BY <2>1, FilesTypes DEF Gone, Abstract!Gone
  <2>4. PICK i \in 1..Len(Listing) : Abstract!Files(Answers(lib)[MaxDepth - 1])[i] = "crash"
    BY <2>2, <2>3, InTurnFails
  <2>5. /\ Listing[i] \in Names
        /\ Answers(lib)[MaxDepth - 1][Request("load", Listing[i], Leaf)] = "crash"
    BY <2>1, <2>4, FilesTypes
  <2>6. Listing[i] \in Roots(r)
    BY <1>7, ListingAssumption DEF Roots
  <2>7. Small(op, Listing[i], n) /\ (MaxDepth - 1) + H >= room
    BY <1>1, <1>4, <2>5, <2>6
  <2> QED
    BY <1>2, <1>5, <2>5, <2>7 DEF LoadsFit, room
<1>8. CASE r.op \notin {"apply", "validate"}
  <2>1. r.op \in {"load", "generate"} /\ r.type \in Names /\ r = Request(r.op, r.type, Leaf)
    BY <1>8 DEF Requests, Request
  <2>2. Roots(r) = {r.type}
    BY <1>8, <2>1 DEF Roots
  <2>3. Small(op, r.type, n) /\ MaxDepth + H >= room
    BY <1>1, <1>4, <2>1, <2>2
  <2> QED
    BY <1>2, <1>5, <2>1, <2>3 DEF LoadsFit, room
<1> QED
  BY <1>6, <1>7, <1>8

\* With room for one walk through a node for every schema, the process ends only if a
\* schema has, to be checked itself, to be checked first: loadSchema, checkSchema and
\* applySchemaRecursive go on without end for a cycle, and for nothing else.
THEOREM CrashesAreCyclic ==
  ASSUME IsFiniteSet(Names), NEW H, NEW height, Deep(height, H),
         MaxDepth > Cardinality(Names) * (H + 1)
  PROVE  Spec => []CrashIsCyclic
<1>1. CInv => CrashIsCyclic
  <2> SUFFICES ASSUME CInv, answer.is = "crash" PROVE Cyclic(answer.request)
    BY DEF CrashIsCyclic
  <2>1. Library
    BY DEF Library, CInv, DInv, TInv, TypeOK
  <2>2. answer # NoAnswer
    BY DEF NoAnswer
  <2>3. answer.request \in Requests /\ Answers(lib)[MaxDepth][answer.request] = "crash"
    BY <2>2 DEF CInv, AnswerRight
  <2> QED
    BY <2>1, <2>3, AcyclicFits
<1> QED
  BY <1>1, InitCInv, NextCInv, PTL DEF Spec

=============================================================================
