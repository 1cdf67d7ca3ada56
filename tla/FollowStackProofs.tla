------------------------- MODULE FollowStackProofs -------------------------
(***************************************************************************)
(* Theorems about FollowStack, for any threads, files, documents, file     *)
(* systems and edits: first the properties of the recursion itself, then   *)
(* that it implements FollowLoad.                                          *)
(***************************************************************************)
EXTENDS FollowStack, Recursion, SequenceTheorems, FiniteSetTheorems, TLAPS

-----------------------------------------------------------------------------
(* The three ways in which a stack changes.                                *)

\* The number before n is an index, and n the next one (documents are opened one by one).
LEMMA AtLeastTwo == \A n \in Nat \ {0, 1} : n - 1 \in 1..n - 1 /\ (n - 1) + 1 = n
  OBVIOUS

\* What pushing on a stack does to its length and its elements.
LEMMA PushProperties ==
  ASSUME NEW S, NEW s \in Seq(S), NEW e \in S
  PROVE  /\ Append(s, e) \in Seq(S)
         /\ Append(s, e) # <<>>
         /\ Len(Append(s, e)) = Len(s) + 1
         /\ \A i \in 1..Len(s) : Append(s, e)[i] = s[i]
         /\ Append(s, e)[Len(s) + 1] = e
  OBVIOUS

\* What popping from a stack does to its length and its elements.
LEMMA PopProperties ==
  ASSUME NEW S, NEW s \in Seq(S), s # <<>>
  PROVE  /\ Pop(s) \in Seq(S)
         /\ Len(Pop(s)) = Len(s) - 1
         /\ \A i \in 1..Len(s) - 1 : Pop(s)[i] = s[i]
         /\ Len(s) = 1 <=> Pop(s) = <<>>
<1>1. Len(s) \in Nat /\ Len(s) # 0
  BY EmptySeq
<1>2. \A i \in 1..Len(s) - 1 : s[i] \in S
  BY <1>1, ElementOfSeq
<1>3. PICK n \in Int : n = Len(s) - 1
  BY <1>1
<1>4. /\ SubSeq(s, 1, n) \in Seq(S)
      /\ Len(SubSeq(s, 1, n)) = IF 1 <= n THEN n - 1 + 1 ELSE 0
      /\ \A i \in 1..(n - 1 + 1) : SubSeq(s, 1, n)[i] = s[1 + i - 1]
  BY <1>2, <1>3, SubSeqProperties
<1>5. Pop(s) = SubSeq(s, 1, n)
  BY <1>3 DEF Pop
<1>6. PICK p : p = SubSeq(s, 1, n)
  OBVIOUS
<1>7. /\ p \in Seq(S)
      /\ Len(p) = Len(s) - 1
      /\ \A i \in 1..Len(s) - 1 : p[i] = s[i]
  <2>1. Len(p) = IF 1 <= n THEN n - 1 + 1 ELSE 0
    BY <1>4, <1>6
  <2>2. \A i \in 1..(n - 1 + 1) : p[i] = s[1 + i - 1]
    BY <1>4, <1>6
  <2>3. n - 1 + 1 = n /\ n >= 0
    BY <1>1, <1>3
  <2>4. \A i \in 1..n : p[i] = s[i]
    BY <2>2, <2>3
  <2>5. Len(p) = n
    BY <2>1, <2>3
  <2> QED
    BY <1>3, <1>4, <1>6, <2>4, <2>5
<1>8. Len(s) = 1 <=> p = <<>>
  BY <1>1, <1>7, EmptySeq
<1> QED
  BY <1>5, <1>6, <1>7, <1>8

\* What replacing the top of a stack does to its length and its elements.
LEMMA ReplaceProperties ==
  ASSUME NEW S, NEW s \in Seq(S), s # <<>>, NEW e \in S
  PROVE  LET r == [s EXCEPT ![Len(s)] = e]
         IN /\ r \in Seq(S)
            /\ r # <<>>
            /\ Len(r) = Len(s)
            /\ \A i \in 1..Len(s) - 1 : r[i] = s[i]
            /\ r[Len(s)] = e
<1>1. Len(s) \in 1..Len(s)
  BY EmptySeq
<1>2. Len(s) \in Nat
  BY EmptySeq
<1> QED
  BY <1>1, <1>2, ExceptSeq, EmptySeq

\* The top of a stack that is not empty is one of its elements.
LEMMA TopProperties ==
  ASSUME NEW S, NEW s \in Seq(S), s # <<>>
  PROVE  Len(s) \in Nat \ {0} /\ s[Len(s)] \in S
  BY EmptySeq, ElementOfSeq

-----------------------------------------------------------------------------
(* What the steps build is of its type.                                    *)

\* Adding an entry or a followed document to a node gives a node (addNodeYaml).
LEMMA NodeTypes ==
  /\ EmptyNode \in Node
  /\ NoResult \in Result
  /\ \A m, n \in Node : Merge(m, n) \in Node
  /\ \A f \in Files, k \in Keys : Own(f, k) \in Node
<1>1. EmptyNode \in Node
  BY DEF EmptyNode, Node
<1>2. NoResult \in Result
  BY <1>1 DEF NoResult, Result
<1>3. \A m, n \in Node : Merge(m, n) \in Node
  BY DEF Merge, Has, Node
<1>4. \A f \in Files, k \in Keys : Own(f, k) \in Node
  BY DEF Own, EmptyNode, Node
<1> QED
  BY <1>1, <1>2, <1>3, <1>4

\* An entry of a document follows a file or defines a key (flattenMap).
LEMMA EntryTypes ==
  ASSUME NEW frame \in Frame
  PROVE  /\ Len(frame.doc) \in Nat /\ frame.at \in Nat \ {0}
         /\ frame.at <= Len(frame.doc) =>
              /\ frame.doc[frame.at] \in Entry
              /\ frame.doc[frame.at].follow =>
                   /\ frame.doc[frame.at].to \in Files
                   /\ frame.doc[frame.at] = Follow(frame.doc[frame.at].to)
              /\ ~frame.doc[frame.at].follow => frame.doc[frame.at].to \in Keys
<1>1. frame.doc \in Seq(Entry) /\ frame.at \in Nat \ {0}
  BY DocsAssumption DEF Frame
<1>2. Len(frame.doc) \in Nat
  BY <1>1
<1>3. ASSUME frame.at <= Len(frame.doc)
      PROVE  frame.doc[frame.at] \in Entry
  BY <1>1, <1>2, <1>3, ElementOfSeq
<1>4. \A e \in Entry : /\ e.follow => e.to \in Files /\ e = Follow(e.to)
                       /\ ~e.follow => e.to \in Keys
  BY DEF Entry, Follow, Define
<1> QED
  BY <1>1, <1>2, <1>3, <1>4

\* The stacks of a thread that has called flattenMap.
LEMMA TopTypes ==
  ASSUME TypeOK, NEW t \in Threads, frames[t] # <<>>
  PROVE  /\ Top(t) \in Frame
         /\ Len(frames[t]) \in Nat \ {0}
         /\ Pop(frames[t]) \in Seq(Frame)
         /\ Len(frames[t]) = 1 <=> Pop(frames[t]) = <<>>
<1>1. frames[t] \in Seq(Frame)
  BY DEF TypeOK
<1> QED
  BY <1>1, TopProperties, PopProperties DEF Top

-----------------------------------------------------------------------------
(* The inductive invariant.  The types need GuardsMatchFrames, without     *)
(* which a destructor might find follow_stack empty; GuardsMatchFrames     *)
(* needs that a guard's entry is the last one; NoFileTwice is kept by the  *)
(* check of the guard's constructor; and ChainOfFollows says why an open   *)
(* document is open.                                                       *)

IInv == TypeOK /\ GuardsMatchFrames /\ NoFileTwice /\ ChainOfFollows

\* The initial states satisfy the inductive invariant: no thread is loading.
LEMMA InitInv == Init => IInv
<1> SUFFICES ASSUME Init PROVE IInv
  OBVIOUS
<1>1. TypeOK
  <2>1. disk \in [Files -> Docs \cup {Absent, Corrupt}]
    BY DisksAssumption DEF Init
  <2>2. /\ root \in [Threads -> Files \cup {NoFile}]
        /\ frames \in [Threads -> Seq(Frame)]
        /\ follow_stack \in [Threads -> Seq(Files)]
        /\ pc \in [Threads -> Labels]
        /\ target \in [Threads -> Files \cup {NoFile}]
        /\ error \in [Threads -> Errors \cup {"none"}]
    BY EmptySeq DEF Init, Labels
  <2>3. returned \in [Threads -> Node] /\ result \in [Threads -> Result]
    BY NodeTypes DEF Init
  <2> QED
    BY <2>1, <2>2, <2>3 DEF Init, TypeOK, Following
<1>2. GuardsMatchFrames
  BY EmptySeq DEF Init, GuardsMatchFrames, GuardsMatch, GuardAlive, Depth
<1>3. NoFileTwice
  BY DEF Init, NoFileTwice, EachOnce
<1>4. ChainOfFollows
  BY DEF Init, ChainOfFollows, Chained, Following
<1> QED
  BY <1>1, <1>2, <1>3, <1>4 DEF IInv

-----------------------------------------------------------------------------
(* A step of a thread leaves the other threads alone.                      *)

Same(u) ==
  /\ pc'[u] = pc[u] /\ root'[u] = root[u] /\ frames'[u] = frames[u]
  /\ follow_stack'[u] = follow_stack[u] /\ target'[u] = target[u]
  /\ error'[u] = error[u]

Local(u) == GuardsMatch(u) /\ EachOnce(u) /\ Chained(u)

\* The conjuncts of TypeOK about one thread.
Phases(u) ==
  /\ root[u] = NoFile <=> pc[u] = "idle"
  /\ frames[u] = <<>> => pc[u] \in {"idle", "load"}
  /\ pc[u] \in Following => target[u] \in Files
  /\ error[u] # "none" => pc[u] \in {"unguard", "unwind"}

\* What the invariant says of a thread depends on that thread's variables alone.
LEMMA SameLocal ==
  ASSUME NEW u \in Threads, Same(u), Local(u), Phases(u)
  PROVE  Local(u)' /\ Phases(u)'
<1>1. Phases(u)'
  BY DEF Same, Phases
<1>2. GuardsMatch(u)'
  BY DEF Same, Local, GuardsMatch, GuardAlive, Depth
<1>3. EachOnce(u)'
  BY DEF Same, Local, EachOnce
<1>4. Chained(u)'
  BY DEF Same, Local, Chained, Top
<1> QED
  BY <1>1, <1>2, <1>3, <1>4 DEF Local

\* A step of one thread changes no variable of another one: follow_stack is thread_local.
LEMMA OthersSame ==
  ASSUME TypeOK, NEW t \in Threads, NEW u \in Threads, u # t,
         Step(t) \/ \E f \in Files : Call(t, f)
  PROVE  Same(u)
<1> USE DEF Same, Goto, Finish, Throw, Proceed, ReplaceTop, TypeOK
<1>1. CASE \E f \in Files : Call(t, f)
  BY <1>1 DEF Call
<1>2. CASE LoadFile(t)
  BY <1>2 DEF LoadFile
<1>3. CASE AddEntry(t)
  BY <1>3 DEF AddEntry
<1>4. CASE Resolve(t)
  BY <1>4 DEF Resolve
<1>5. CASE Guard(t)
  BY <1>5 DEF Guard
<1>6. CASE Return(t)
  BY <1>6 DEF Return
<1>7. CASE MergeChild(t)
  BY <1>7 DEF MergeChild
<1>8. CASE Unguard(t)
  BY <1>8 DEF Unguard
<1>9. CASE Unwind(t)
  BY <1>9 DEF Unwind
<1> QED
  BY <1>1, <1>2, <1>3, <1>4, <1>5, <1>6, <1>7, <1>8, <1>9 DEF Step

\* So an invariant of every thread needs to be shown of the thread that moves.
LEMMA OneThread ==
  ASSUME IInv, NEW t \in Threads,
         Step(t) \/ \E f \in Files : Call(t, f),
         Local(t)', Phases(t)'
  PROVE  \A u \in Threads : Local(u)' /\ Phases(u)'
<1> SUFFICES ASSUME NEW u \in Threads, u # t
             PROVE  Local(u)' /\ Phases(u)'
  OBVIOUS
<1>1. Same(u)
  BY OthersSame DEF IInv
<1>2. Local(u)
  BY DEF IInv, Local, GuardsMatchFrames, NoFileTwice, ChainOfFollows
<1>3. Phases(u)
  BY DEF IInv, TypeOK, Phases
<1> QED
  BY <1>1, <1>2, <1>3, SameLocal

\* What the parts of the invariant add up to.
Types ==
  /\ disk \in [Files -> Docs \cup {Absent, Corrupt}]
  /\ edits \in Nat
  /\ pc \in [Threads -> Labels]
  /\ root \in [Threads -> Files \cup {NoFile}]
  /\ frames \in [Threads -> Seq(Frame)]
  /\ follow_stack \in [Threads -> Seq(Files)]
  /\ target \in [Threads -> Files \cup {NoFile}]
  /\ returned \in [Threads -> Node]
  /\ error \in [Threads -> Errors \cup {"none"}]
  /\ result \in [Threads -> Result]

\* The inductive invariant, sorted by thread.
LEMMA Parts == IInv <=> Types /\ \A u \in Threads : Local(u) /\ Phases(u)
<1>1. TypeOK <=> Types /\ \A u \in Threads : Phases(u)
  BY DEF TypeOK, Types, Phases
<1>2. GuardsMatchFrames /\ NoFileTwice /\ ChainOfFollows <=> \A u \in Threads : Local(u)
  BY DEF GuardsMatchFrames, NoFileTwice, ChainOfFollows, Local
<1> QED
  BY <1>1, <1>2 DEF IInv

-----------------------------------------------------------------------------
(* One lemma per action.                                                   *)

\* What the invariant says of the thread that moves.
LEMMA Own_t ==
  ASSUME IInv, NEW t \in Threads
  PROVE  Types /\ Local(t) /\ Phases(t)
  BY Parts

\* A load that ends leaves its thread idle, without an exception (loadYaml).
LEMMA FinishTypes ==
  ASSUME IInv, NEW t \in Threads, NEW f \in Files \cup {NoFile},
         NEW s \in Errors \cup {"none", "ok"}, NEW n \in Node, Finish(t, f, s, n)
  PROVE  /\ pc' \in [Threads -> Labels] /\ pc'[t] = "idle"
         /\ root' \in [Threads -> Files \cup {NoFile}] /\ root'[t] = NoFile
         /\ error' \in [Threads -> Errors \cup {"none"}] /\ error'[t] = "none"
         /\ result' \in [Threads -> Result]
<1>1. [root |-> f, status |-> s, node |-> n] \in Result
  BY DEF Result
<1>2. Types
  BY Own_t
<1> QED
  BY <1>1, <1>2 DEF Finish, Goto, Types, Labels

\* An exception that is thrown is in flight on its way out.
LEMMA ThrowTypes ==
  ASSUME IInv, NEW t \in Threads, NEW e \in Errors,
         NEW label \in {"unguard", "unwind"}, Throw(t, e, label)
  PROVE  /\ pc' \in [Threads -> Labels] /\ pc'[t] = label
         /\ root' = root /\ result' = result
         /\ error' \in [Threads -> Errors \cup {"none"}] /\ error'[t] = e /\ e # "none"
<1>1. Types
  BY Own_t
<1> QED
  BY <1>1 DEF Throw, Goto, Types, Labels, Errors

\* A step that throws nothing only moves on.
LEMMA ProceedTypes ==
  ASSUME IInv, NEW t \in Threads, NEW label \in Labels, Proceed(t, label)
  PROVE  /\ pc' \in [Threads -> Labels] /\ pc'[t] = label
         /\ root' = root /\ result' = result /\ error' = error
<1>1. Types
  BY Own_t
<1> QED
  BY <1>1 DEF Proceed, Goto, Types

\* The call of loadYaml or loadSchema keeps the invariant.
LEMMA CallInv ==
  ASSUME IInv, NEW t \in Threads, NEW f \in Files, Call(t, f)
  PROVE  Types' /\ Local(t)' /\ Phases(t)'
<1>1. Types /\ Local(t) /\ Phases(t)
  BY Own_t
<1>2. frames[t] = <<>> /\ Depth(t) = 0 /\ Len(follow_stack[t]) = 0
  BY <1>1 DEF Call, Local, GuardsMatch, GuardAlive, Depth
<1>3. frames' = frames /\ follow_stack' = follow_stack /\ returned' = returned /\ disk' = disk /\ edits' = edits
  BY DEF Call
<1>4. CASE disk[f] = Absent
  <2>1. Finish(t, f, "missing", EmptyNode) /\ target' = target
    BY <1>4 DEF Call
  <2>2. Types' /\ pc'[t] = "idle" /\ root'[t] = NoFile /\ error'[t] = "none"
    BY <1>1, <1>3, <2>1, FinishTypes, NodeTypes DEF Types, Errors
  <2> QED
    BY <1>2, <1>3, <2>2 DEF Local, Phases, GuardsMatch, GuardAlive, Depth, EachOnce, Chained, Following
<1>5. CASE disk[f] # Absent
  <2>1. /\ Goto(t, "load") /\ root' = [root EXCEPT ![t] = f]
        /\ target' = [target EXCEPT ![t] = f] /\ error' = error /\ result' = result
    BY <1>5 DEF Call
  <2>2. Types' /\ pc'[t] = "load" /\ root'[t] = f /\ target'[t] = f
    BY <1>1, <1>3, <2>1 DEF Goto, Types, Labels
  <2>3. f # NoFile /\ error[t] = "none"
    BY <1>1, FilesAssumption DEF Call, Phases
  <2> QED
    BY <1>2, <1>3, <2>1, <2>2, <2>3 DEF Local, Phases, GuardsMatch, GuardAlive, Depth, EachOnce, Chained, Following
<1> QED
  BY <1>4, <1>5

\* Opening a document keeps it: the guard that was alive becomes the new frame's.
LEMMA LoadFileInv ==
  ASSUME IInv, NEW t \in Threads, LoadFile(t)
  PROVE  Types' /\ Local(t)' /\ Phases(t)'
<1>1. Types /\ Local(t) /\ Phases(t) /\ pc[t] = "load" /\ target[t] \in Files
  BY Own_t DEF LoadFile, Phases, Following
<1>2. /\ disk' = disk /\ edits' = edits /\ follow_stack' = follow_stack
      /\ target' = target /\ returned' = returned
  BY DEF LoadFile
<1>3. CASE disk[target[t]] \in Docs
  <2> DEFINE new == [file |-> target[t], folders |-> Folders(t), doc |-> disk[target[t]],
                     at |-> 1, node |-> EmptyNode]
  <2>1. frames' = [frames EXCEPT ![t] = Append(@, new)] /\ Proceed(t, "flatten")
    BY <1>3 DEF LoadFile
  <2>2. Folders(t) \in BOOLEAN
    BY DEF Folders
  <2>3. new \in Frame
    BY <1>1, <1>3, <2>2, NodeTypes DEF Frame
  <2>4. PICK n : n = new
    OBVIOUS
  <2>5. n \in Frame /\ n.file = target[t]
    BY <2>3, <2>4
  <2>6. frames[t] \in Seq(Frame) /\ frames'[t] = Append(frames[t], n)
    BY <1>1, <2>1, <2>4 DEF Types
  <2>7. /\ Append(frames[t], n) \in Seq(Frame)
        /\ Append(frames[t], n) # <<>>
        /\ Len(Append(frames[t], n)) = Len(frames[t]) + 1
        /\ \A i \in 1..Len(frames[t]) : Append(frames[t], n)[i] = frames[t][i]
        /\ Append(frames[t], n)[Len(frames[t]) + 1] = n
    BY <2>5, <2>6, PushProperties
  <2>8. /\ pc' \in [Threads -> Labels] /\ pc'[t] = "flatten"
        /\ root' = root /\ result' = result /\ error' = error
    BY <2>1, ProceedTypes DEF Labels
  <2>9. Types'
    BY <1>1, <1>2, <2>1, <2>4, <2>6, <2>7, <2>8 DEF Types
  <2>10. Phases(t)'
    BY <1>1, <2>6, <2>7, <2>8 DEF Phases, Following
  <2>11. Len(frames[t]) \in Nat /\ (frames[t] = <<>> <=> Len(frames[t]) = 0)
    BY <2>6, EmptySeq
  <2>12. GuardsMatch(t)'
    <3>1. Len(follow_stack[t]) = Len(frames[t])
      <4>1. Len(follow_stack[t]) = Depth(t) + IF GuardAlive(t) THEN 1 ELSE 0
        BY <1>1 DEF Local, GuardsMatch
      <4>2. CASE frames[t] = <<>>
        <5>1. Depth(t) = 0 /\ ~GuardAlive(t) /\ Len(frames[t]) = 0
          BY <2>11, <4>2 DEF Depth, GuardAlive
        <5> QED
          BY <4>1, <5>1
      <4>3. CASE frames[t] # <<>>
        <5>1. Depth(t) = Len(frames[t]) - 1 /\ GuardAlive(t)
          BY <1>1, <4>3 DEF Depth, GuardAlive
        <5> QED
          BY <2>11, <4>1, <5>1
      <4> QED
        BY <4>2, <4>3
    <3>2. /\ Len(frames'[t]) = Len(frames[t]) + 1
          /\ \A i \in 1..Len(frames[t]) : frames'[t][i] = frames[t][i]
          /\ frames'[t][Len(frames[t]) + 1] = n
      BY <2>6, <2>7
    <3>3. Depth(t)' = Len(frames[t])
      BY <2>6, <2>7, <2>11 DEF Depth
    <3>4. ASSUME NEW i \in 1..Len(frames[t])
          PROVE  follow_stack[t][i] = frames'[t][i + 1].file
      <4>1. frames[t] # <<>> /\ Depth(t) = Len(frames[t]) - 1 /\ GuardAlive(t)
        BY <1>1, <2>11 DEF Depth, GuardAlive
      <4>2. CASE i = Len(frames[t])
        BY <1>1, <2>5, <3>1, <3>2, <4>1, <4>2 DEF Local, GuardsMatch
      <4>3. CASE i # Len(frames[t])
        <5>1. i \in 1..Len(frames[t]) - 1 /\ i + 1 \in 1..Len(frames[t])
          BY <2>11, <4>3
        <5> QED
          BY <1>1, <3>2, <4>1, <5>1 DEF Local, GuardsMatch
      <4> QED
        BY <4>2, <4>3
    <3> QED
      BY <1>2, <2>6, <2>7, <2>8, <3>1, <3>3, <3>4 DEF GuardsMatch, GuardAlive
  <2>13. EachOnce(t)'
    BY <1>1, <1>2 DEF Local, EachOnce
  <2>14. Chained(t)'
    <3>1. ASSUME NEW i \in 1..Len(frames[t])
          PROVE  Suspended(frames[t][i], frames'[t][i + 1].file)
      <4>1. CASE i = Len(frames[t])
        <5>1. Suspended(Top(t), target[t])
          BY <1>1, <2>11, <4>1 DEF Local, Chained, Following
        <5> QED
          BY <2>5, <2>6, <2>7, <2>11, <4>1, <5>1 DEF Top
      <4>2. CASE i # Len(frames[t])
        <5>1. i \in 1..Len(frames[t]) - 1 /\ i + 1 \in 1..Len(frames[t])
          BY <2>11, <4>2
        <5> QED
          BY <1>1, <2>6, <2>7, <5>1 DEF Local, Chained
      <4> QED
        BY <4>1, <4>2
    <3>2. Len(frames'[t]) - 1 = Len(frames[t])
      BY <2>6, <2>7, <2>11
    <3>3. \A i \in 1..Len(frames[t]) : frames'[t][i] = frames[t][i]
      BY <2>6, <2>7
    <3> QED
      BY <2>8, <3>1, <3>2, <3>3 DEF Chained, Following
  <2> QED
    BY <2>9, <2>10, <2>12, <2>13, <2>14 DEF Local
<1>4. CASE disk[target[t]] \notin Docs
  <2>1. frames' = frames
    BY <1>4 DEF LoadFile
  <2>2. CASE frames[t] = <<>>
    <3>1. Finish(t, root[t], "parse", EmptyNode)
      BY <1>4, <2>2 DEF LoadFile
    <3>2. Types' /\ pc'[t] = "idle" /\ root'[t] = NoFile /\ error'[t] = "none"
      BY <1>1, <1>2, <2>1, <3>1, FinishTypes, NodeTypes DEF Types, Errors
    <3> QED
      BY <1>1, <1>2, <2>1, <2>2, <3>2
      DEF Local, Phases, GuardsMatch, GuardAlive, Depth, EachOnce, Chained, Following
  <2>3. CASE frames[t] # <<>>
    <3>1. Throw(t, "parse", "unguard")
      BY <1>4, <2>3 DEF LoadFile
    <3>2. Types' /\ pc'[t] = "unguard" /\ root' = root
      BY <1>1, <1>2, <2>1, <3>1, ThrowTypes DEF Types, Errors
    <3>3. Phases(t)'
      BY <1>1, <1>2, <2>1, <2>3, <3>2 DEF Phases, Following
    <3> QED
      BY <1>1, <1>2, <2>1, <2>3, <3>2, <3>3
      DEF Local, GuardsMatch, GuardAlive, Depth, EachOnce, Chained, Following, Top
  <2> QED
    BY <2>2, <2>3
<1> QED
  BY <1>3, <1>4

\* How the stacks of a thread that has open documents change.
LEMMA Open ==
  ASSUME IInv, NEW t \in Threads, pc[t] \notin {"idle", "load"}
  PROVE  /\ frames[t] # <<>> /\ frames[t] \in Seq(Frame)
         /\ Len(frames[t]) \in Nat \ {0} /\ Depth(t) = Len(frames[t]) - 1
         /\ follow_stack[t] \in Seq(Files)
         /\ Len(follow_stack[t]) = IF GuardAlive(t) THEN Len(frames[t]) ELSE Len(frames[t]) - 1
         /\ Top(t) \in Frame
<1>1. Types /\ Local(t) /\ Phases(t)
  BY Own_t
<1>2. frames[t] # <<>> /\ frames[t] \in Seq(Frame) /\ follow_stack[t] \in Seq(Files)
  BY <1>1 DEF Phases, Types
<1>3. Len(frames[t]) \in Nat \ {0} /\ Top(t) \in Frame
  BY <1>2, TopProperties DEF Top
<1>4. Depth(t) = Len(frames[t]) - 1
  BY <1>2 DEF Depth
<1>5. Len(follow_stack[t]) = Depth(t) + IF GuardAlive(t) THEN 1 ELSE 0
  BY <1>1 DEF Local, GuardsMatch
<1>6. Len(follow_stack[t]) = IF GuardAlive(t) THEN Len(frames[t]) ELSE Len(frames[t]) - 1
  <2>1. CASE GuardAlive(t)
    BY <1>3, <1>4, <1>5, <2>1
  <2>2. CASE ~GuardAlive(t)
    BY <1>3, <1>4, <1>5, <2>2
  <2> QED
    BY <2>1, <2>2
<1> QED
  BY <1>2, <1>3, <1>4, <1>6

\* Changing the innermost frame leaves the frames below and their number.
LEMMA ReplaceTopFacts ==
  ASSUME IInv, NEW t \in Threads, pc[t] \notin {"idle", "load"},
         NEW frame \in Frame, frame.file = Top(t).file, ReplaceTop(t, frame)
  PROVE  /\ frames' \in [Threads -> Seq(Frame)]
         /\ frames'[t] # <<>> /\ Len(frames'[t]) = Len(frames[t])
         /\ \A i \in 1..Len(frames[t]) - 1 : frames'[t][i] = frames[t][i]
         /\ frames'[t][Len(frames[t])] = frame
         /\ \A i \in 1..Len(frames[t]) : frames'[t][i].file = frames[t][i].file
         /\ Depth(t)' = Depth(t)
<1>1. Types
  BY Own_t
<1>2. /\ frames[t] # <<>> /\ frames[t] \in Seq(Frame) /\ Len(frames[t]) \in Nat \ {0}
  BY Open
<1>3. /\ [frames[t] EXCEPT ![Len(frames[t])] = frame] \in Seq(Frame)
      /\ [frames[t] EXCEPT ![Len(frames[t])] = frame] # <<>>
      /\ Len([frames[t] EXCEPT ![Len(frames[t])] = frame]) = Len(frames[t])
      /\ \A i \in 1..Len(frames[t]) - 1 :
           [frames[t] EXCEPT ![Len(frames[t])] = frame][i] = frames[t][i]
      /\ [frames[t] EXCEPT ![Len(frames[t])] = frame][Len(frames[t])] = frame
  BY <1>2, ReplaceProperties
<1>4. /\ frames' = [frames EXCEPT ![t] = [frames[t] EXCEPT ![Len(frames[t])] = frame]]
  BY DEF ReplaceTop
<1>5. PICK r : r = [frames[t] EXCEPT ![Len(frames[t])] = frame]
  OBVIOUS
<1>6. frames'[t] = r /\ frames' \in [Threads -> Seq(Frame)]
  BY <1>1, <1>3, <1>4, <1>5 DEF Types
<1>7. /\ r # <<>> /\ Len(r) = Len(frames[t])
      /\ \A i \in 1..Len(frames[t]) - 1 : r[i] = frames[t][i]
      /\ r[Len(frames[t])] = frame
  BY <1>3, <1>5
<1>8. \A i \in 1..Len(frames[t]) : r[i].file = frames[t][i].file
  BY <1>2, <1>7 DEF Top
<1>9. Depth(t)' = Depth(t)
  BY <1>2, <1>6, <1>7 DEF Depth
<1> QED
  BY <1>6, <1>7, <1>8, <1>9

\* Leaving the innermost frame leaves the frames below.
LEMMA PopFrameFacts ==
  ASSUME IInv, NEW t \in Threads, pc[t] \notin {"idle", "load"},
         frames' = [frames EXCEPT ![t] = Pop(@)]
  PROVE  /\ frames' \in [Threads -> Seq(Frame)]
         /\ Len(frames'[t]) = Len(frames[t]) - 1
         /\ \A i \in 1..Len(frames[t]) - 1 : frames'[t][i] = frames[t][i]
         /\ frames'[t] = <<>> <=> Len(frames[t]) = 1
         /\ Len(frames[t]) # 1 => Depth(t)' = Len(frames[t]) - 2
<1>1. Types
  BY Own_t
<1>2. /\ frames[t] # <<>> /\ frames[t] \in Seq(Frame) /\ Len(frames[t]) \in Nat \ {0}
  BY Open
<1>3. PICK r : r = Pop(frames[t])
  OBVIOUS
<1>4. frames' = [frames EXCEPT ![t] = r] /\ r \in Seq(Frame)
  BY <1>2, <1>3, PopProperties
<1>5. frames'[t] = r /\ frames' \in [Threads -> Seq(Frame)]
  BY <1>1, <1>4 DEF Types
<1>6. /\ Len(r) = Len(frames[t]) - 1
      /\ \A i \in 1..Len(frames[t]) - 1 : r[i] = frames[t][i]
      /\ r = <<>> <=> Len(frames[t]) = 1
  BY <1>2, <1>3, PopProperties
<1>7. Len(frames[t]) # 1 => Depth(t)' = Len(frames[t]) - 2
  BY <1>2, <1>5, <1>6 DEF Depth
<1> QED
  BY <1>5, <1>6, <1>7

\* A change of the innermost frame that keeps its file keeps the match with the guards,
LEMMA SameFilesMatch ==
  ASSUME IInv, NEW t \in Threads, pc[t] \notin {"idle", "load"}, pc'[t] # "idle",
         frames'[t] # <<>>, Depth(t)' = Depth(t),
         \A i \in 1..Len(frames[t]) : frames'[t][i].file = frames[t][i].file,
         follow_stack' = follow_stack, target' = target, GuardAlive(t)' <=> GuardAlive(t)
  PROVE  GuardsMatch(t)' /\ EachOnce(t)'
<1>1. Local(t)
  BY Own_t
<1>2. Depth(t) = Len(frames[t]) - 1 /\ Len(frames[t]) \in Nat \ {0}
  BY Open
<1>3. \A i \in 1..Depth(t) : i + 1 \in 1..Len(frames[t])
  BY <1>2
<1>4. \A i \in 1..Depth(t) : frames'[t][i + 1].file = frames[t][i + 1].file
  BY <1>3
<1> QED
  BY <1>1, <1>4 DEF Local, GuardsMatch, EachOnce

\* and the chain of the frames below.
LEMMA SameFilesChained ==
  ASSUME IInv, NEW t \in Threads, pc[t] \notin {"idle", "load"},
         Len(frames'[t]) = Len(frames[t]),
         \A i \in 1..Len(frames[t]) - 1 : frames'[t][i] = frames[t][i],
         \A i \in 1..Len(frames[t]) : frames'[t][i].file = frames[t][i].file,
         pc'[t] \in Following => Suspended(Top(t)', target'[t])
  PROVE  Chained(t)'
<1>1. Chained(t) /\ Len(frames[t]) \in Nat \ {0}
  BY Own_t, Open DEF Local
<1>2. \A i \in 1..Len(frames[t]) - 1 : i + 1 \in 1..Len(frames[t])
  BY <1>1
<1> QED
  BY <1>1, <1>2 DEF Chained

\* Adding an entry of the document, or the error of a repeated key, keeps the invariant.
LEMMA AddEntryInv ==
  ASSUME IInv, NEW t \in Threads, AddEntry(t)
  PROVE  Types' /\ Local(t)' /\ Phases(t)'
<1> DEFINE own == Own(Top(t).file, Current(t).to)
<1>1. Types /\ Local(t) /\ Phases(t) /\ pc[t] = "flatten" /\ ~AtEnd(t) /\ ~Current(t).follow
  BY Own_t DEF AddEntry
<1>2. /\ disk' = disk /\ edits' = edits /\ follow_stack' = follow_stack
      /\ target' = target /\ returned' = returned
  BY DEF AddEntry
<1>3. Top(t) \in Frame /\ frames[t] # <<>> /\ ~GuardAlive(t)
  BY <1>1, Open DEF GuardAlive
<1>4. CASE Conflict(Top(t).node, own)
  <2>1. frames' = frames /\ Throw(t, "conflict", "unwind")
    BY <1>4 DEF AddEntry
  <2>2. Types' /\ pc'[t] = "unwind" /\ root' = root
    BY <1>1, <1>2, <2>1, ThrowTypes DEF Types, Errors
  <2> QED
    BY <1>1, <1>2, <1>3, <2>1, <2>2
    DEF Local, Phases, GuardsMatch, GuardAlive, Depth, EachOnce, Chained, Following, Top
<1>5. CASE ~Conflict(Top(t).node, own)
  <2> DEFINE new == [Top(t) EXCEPT !.at = Top(t).at + 1, !.node = Merge(Top(t).node, own)]
  <2>1. ReplaceTop(t, new) /\ Proceed(t, "flatten")
    BY <1>5 DEF AddEntry
  <2>2. own \in Node
    <3>1. Current(t).to \in Keys
      <4>1. /\ Len(Top(t).doc) \in Nat /\ Top(t).at \in Nat \ {0}
            /\ Top(t).at <= Len(Top(t).doc) =>
                 (~Top(t).doc[Top(t).at].follow => Top(t).doc[Top(t).at].to \in Keys)
        BY <1>3, EntryTypes
      <4>2. Top(t).at <= Len(Top(t).doc)
        BY <1>1, <4>1 DEF AtEnd
      <4> QED
        BY <1>1, <4>1, <4>2 DEF Current
    <3> QED
      BY <1>3, <3>1, NodeTypes DEF Frame
  <2>3. PICK n : n = new
    OBVIOUS
  <2>4. n \in Frame /\ n.file = Top(t).file
    <3>1. Merge(Top(t).node, own) \in Node
      BY <1>3, <2>2, NodeTypes DEF Frame
    <3>2. Top(t).at + 1 \in Nat \ {0}
      BY <1>3 DEF Frame
    <3> QED
      BY <1>3, <2>3, <3>1, <3>2 DEF Frame
  <2>5. ReplaceTop(t, n)
    BY <2>1, <2>3
  <2>6. /\ frames' \in [Threads -> Seq(Frame)]
        /\ frames'[t] # <<>> /\ Len(frames'[t]) = Len(frames[t])
        /\ \A i \in 1..Len(frames[t]) - 1 : frames'[t][i] = frames[t][i]
        /\ \A i \in 1..Len(frames[t]) : frames'[t][i].file = frames[t][i].file
        /\ Depth(t)' = Depth(t)
    BY <1>1, <2>4, <2>5, ReplaceTopFacts
  <2>7. pc' \in [Threads -> Labels] /\ pc'[t] = "flatten" /\ root' = root /\ result' = result /\ error' = error
    BY <2>1, ProceedTypes DEF Labels
  <2>8. Types'
    BY <1>1, <1>2, <2>6, <2>7 DEF Types
  <2>9. Phases(t)'
    BY <1>1, <2>6, <2>7 DEF Phases, Following
  <2>10. GuardsMatch(t)' /\ EachOnce(t)'
    <3>1. GuardAlive(t)' <=> GuardAlive(t)
      BY <1>3, <2>7 DEF GuardAlive
    <3> QED
      BY <1>1, <1>2, <2>6, <2>7, <3>1, SameFilesMatch
  <2>11. Chained(t)'
    BY <1>1, <2>6, <2>7, SameFilesChained DEF Following
  <2> QED
    BY <2>8, <2>9, <2>10, <2>11 DEF Local
<1> QED
  BY <1>4, <1>5

\* A step that keeps all stacks and target keeps the stacks' invariants.
LEMMA SameStacks ==
  ASSUME IInv, NEW t \in Threads, pc[t] \notin {"idle", "load"}, pc'[t] # "idle",
         frames' = frames, follow_stack' = follow_stack,
         GuardAlive(t)' <=> GuardAlive(t),
         GuardAlive(t) => target' = target,
         pc'[t] \in Following => Suspended(Top(t), target'[t])
  PROVE  Local(t)'
<1>1. Local(t)
  BY Own_t
<1>2. GuardsMatch(t)'
  BY <1>1, Open DEF Local, GuardsMatch, Depth
<1>3. EachOnce(t)'
  BY <1>1 DEF Local, EachOnce
<1>4. Chained(t)'
  BY <1>1 DEF Local, Chained, Top
<1> QED
  BY <1>2, <1>3, <1>4 DEF Local

\* insertNodes up to the guard keeps it: the file is that of the entry at which the frame stands.
LEMMA ResolveInv ==
  ASSUME IInv, NEW t \in Threads, Resolve(t)
  PROVE  Types' /\ Local(t)' /\ Phases(t)'
<1> DEFINE f == Current(t).to
<1>1. Types /\ Local(t) /\ Phases(t) /\ pc[t] = "flatten" /\ ~AtEnd(t) /\ Current(t).follow
  BY Own_t DEF Resolve
<1>2. /\ disk' = disk /\ edits' = edits /\ frames' = frames
      /\ follow_stack' = follow_stack /\ returned' = returned
  BY DEF Resolve
<1>3. Top(t) \in Frame /\ frames[t] # <<>> /\ ~GuardAlive(t)
  BY <1>1, Open DEF GuardAlive
<1>4. ASSUME NEW kind \in Errors, Throw(t, kind, "unwind"), target' = target
      PROVE  Types' /\ Local(t)' /\ Phases(t)'
  <2>1. pc' \in [Threads -> Labels] /\ pc'[t] = "unwind" /\ root' = root /\ result' = result
        /\ error' \in [Threads -> Errors \cup {"none"}]
    BY <1>4, ThrowTypes
  <2>2. Types'
    BY <1>1, <1>2, <1>4, <2>1 DEF Types
  <2>3. Phases(t)'
    BY <1>1, <1>2, <1>3, <2>1 DEF Phases, Following
  <2>4. ~GuardAlive(t)'
    BY <2>1 DEF GuardAlive
  <2> QED
    BY <1>1, <1>2, <1>3, <2>1, <2>2, <2>3, <2>4, SameStacks DEF Following
<1>5. ASSUME target' = [target EXCEPT ![t] = f], Proceed(t, "guard")
      PROVE  Types' /\ Local(t)' /\ Phases(t)'
  <2>1. f \in Files /\ Suspended(Top(t), f)
    <3>1. /\ Len(Top(t).doc) \in Nat /\ Top(t).at \in Nat \ {0}
          /\ Top(t).at <= Len(Top(t).doc) =>
               (Top(t).doc[Top(t).at].follow =>
                  /\ Top(t).doc[Top(t).at].to \in Files
                  /\ Top(t).doc[Top(t).at] = Follow(Top(t).doc[Top(t).at].to))
      BY <1>3, EntryTypes
    <3>2. Top(t).at <= Len(Top(t).doc)
      BY <1>1, <3>1 DEF AtEnd
    <3> QED
      BY <1>1, <3>1, <3>2 DEF Current, Suspended
  <2>2. pc' \in [Threads -> Labels] /\ pc'[t] = "guard" /\ root' = root /\ result' = result /\ error' = error
    BY <1>5, ProceedTypes DEF Labels
  <2>3. target' \in [Threads -> Files \cup {NoFile}] /\ target'[t] = f
    BY <1>1, <1>5, <2>1 DEF Types
  <2>4. Types'
    BY <1>1, <1>2, <2>2, <2>3 DEF Types
  <2>5. Phases(t)'
    BY <1>1, <1>2, <1>3, <2>1, <2>2, <2>3 DEF Phases, Following
  <2>6. ~GuardAlive(t)'
    BY <2>2 DEF GuardAlive
  <2>7. Local(t)'
    BY <1>1, <1>2, <1>3, <2>1, <2>2, <2>3, <2>6, SameStacks
  <2> QED
    BY <2>4, <2>5, <2>7
<1> QED
  BY <1>4, <1>5 DEF Resolve, Errors

\* The constructor of FollowGuard keeps it: only a file that is not in the stack is pushed.
LEMMA GuardInv ==
  ASSUME IInv, NEW t \in Threads, Guard(t)
  PROVE  Types' /\ Local(t)' /\ Phases(t)'
<1>1. Types /\ Local(t) /\ Phases(t) /\ pc[t] = "guard" /\ target[t] \in Files
  BY Own_t DEF Guard, Phases, Following
<1>2. /\ disk' = disk /\ edits' = edits /\ frames' = frames
      /\ target' = target /\ returned' = returned
  BY DEF Guard
<1>3. /\ Top(t) \in Frame /\ frames[t] # <<>> /\ ~GuardAlive(t)
      /\ Len(frames[t]) \in Nat \ {0} /\ Depth(t) = Len(frames[t]) - 1
      /\ follow_stack[t] \in Seq(Files) /\ Len(follow_stack[t]) = Len(frames[t]) - 1
  BY <1>1, Open DEF GuardAlive
<1>4. ASSUME NEW kind \in Errors, Throw(t, kind, "unwind"), follow_stack' = follow_stack
      PROVE  Types' /\ Local(t)' /\ Phases(t)'
  <2>1. pc' \in [Threads -> Labels] /\ pc'[t] = "unwind" /\ root' = root /\ result' = result
        /\ error' \in [Threads -> Errors \cup {"none"}]
    BY <1>4, ThrowTypes
  <2>2. Types'
    BY <1>1, <1>2, <1>4, <2>1 DEF Types
  <2>3. Phases(t)'
    BY <1>1, <1>2, <1>3, <2>1 DEF Phases, Following
  <2>4. ~GuardAlive(t)'
    BY <2>1 DEF GuardAlive
  <2>5. pc'[t] \notin Following /\ pc'[t] # "idle" /\ pc[t] \notin {"idle", "load"}
    BY <1>1, <2>1 DEF Following
  <2> QED
    BY <1>2, <1>3, <1>4, <2>2, <2>3, <2>4, <2>5, SameStacks
<1>5. ASSUME ~InStack(t, target[t]), Proceed(t, "load"),
             follow_stack' = [follow_stack EXCEPT ![t] = Append(@, target[t])]
      PROVE  Types' /\ Local(t)' /\ Phases(t)'
  <2>1. pc' \in [Threads -> Labels] /\ pc'[t] = "load" /\ root' = root /\ result' = result /\ error' = error
    BY <1>5, ProceedTypes DEF Labels
  <2>2. PICK s : s = Append(follow_stack[t], target[t])
    OBVIOUS
  <2>3. /\ s \in Seq(Files) /\ Len(s) = Len(frames[t])
        /\ \A i \in 1..Len(frames[t]) - 1 : s[i] = follow_stack[t][i]
        /\ s[Len(frames[t])] = target[t]
    BY <1>1, <1>3, <2>2, PushProperties
  <2>4. follow_stack' \in [Threads -> Seq(Files)] /\ follow_stack'[t] = s
    BY <1>1, <1>5, <2>2, <2>3 DEF Types
  <2>5. Types'
    BY <1>1, <1>2, <2>1, <2>4 DEF Types
  <2>6. Phases(t)'
    BY <1>1, <1>2, <1>3, <2>1 DEF Phases, Following
  <2>7. GuardsMatch(t)'
    <3>1. GuardAlive(t)' /\ Depth(t)' = Len(frames[t]) - 1
      BY <1>2, <1>3, <2>1 DEF GuardAlive, Depth
    <3>2. \A i \in 1..Len(frames[t]) - 1 : follow_stack[t][i] = frames[t][i + 1].file
      BY <1>1, <1>3 DEF Local, GuardsMatch
    <3>3. Len(s) = Len(frames[t]) - 1 + 1
      BY <1>3, <2>3
    <3> QED
      BY <1>2, <1>3, <2>1, <2>3, <2>4, <3>1, <3>2, <3>3 DEF GuardsMatch
  <2>8. EachOnce(t)'
    <3> SUFFICES ASSUME NEW i \in 1..Len(s), NEW j \in 1..Len(s), s[i] = s[j], i # j
                 PROVE  FALSE
      BY <2>4 DEF EachOnce
    <3>1. \A k \in 1..Len(frames[t]) - 1 : s[k] # target[t]
      BY <1>3, <1>5, <2>3 DEF InStack
    <3>2. i # Len(frames[t]) /\ j # Len(frames[t])
      BY <1>3, <2>3, <3>1
    <3>3. i \in 1..Len(frames[t]) - 1 /\ j \in 1..Len(frames[t]) - 1
      BY <1>3, <2>3, <3>2
    <3> QED
      BY <1>1, <1>3, <2>3, <3>3 DEF Local, EachOnce
  <2>9. Chained(t)'
    BY <1>1, <1>2, <1>3, <2>1 DEF Local, Chained, Following, Top
  <2> QED
    BY <2>5, <2>6, <2>7, <2>8, <2>9 DEF Local
<1> QED
  BY <1>4, <1>5 DEF Guard, Errors

\* A frame that is left uncovers the guard of its file,
LEMMA PopInner ==
  ASSUME IInv, NEW t \in Threads, pc[t] \in {"flatten", "unwind"}, Len(frames[t]) # 1,
         frames' = [frames EXCEPT ![t] = Pop(@)], follow_stack' = follow_stack,
         target' = [target EXCEPT ![t] = Top(t).file], pc'[t] \in {"merge", "unguard"}
  PROVE  /\ Local(t)' /\ frames'[t] # <<>>
         /\ target' \in [Threads -> Files \cup {NoFile}] /\ target'[t] \in Files
<1>1. Types /\ Local(t) /\ ~GuardAlive(t) /\ pc[t] \notin {"idle", "load"}
  BY Own_t DEF GuardAlive
<1>2. /\ frames[t] # <<>> /\ Top(t) \in Frame
      /\ Len(frames[t]) \in Nat \ {0} /\ Depth(t) = Len(frames[t]) - 1
      /\ Len(follow_stack[t]) = Len(frames[t]) - 1
  BY <1>1, Open
<1>3. /\ Len(frames'[t]) = Len(frames[t]) - 1
      /\ \A i \in 1..Len(frames[t]) - 1 : frames'[t][i] = frames[t][i]
      /\ frames'[t] # <<>>
      /\ Depth(t)' = Len(frames[t]) - 2
  BY <1>1, PopFrameFacts
<1>4. target' \in [Threads -> Files \cup {NoFile}] /\ target'[t] = Top(t).file /\ Top(t).file \in Files
  BY <1>1, <1>2 DEF Types, Frame
<1>5. PICK n \in Nat \ {0, 1} : n = Len(frames[t])
  BY <1>2
<1>two. n - 1 \in 1..n - 1 /\ (n - 1) + 1 = n
  BY AtLeastTwo
<1>6. GuardsMatch(t)'
  <2>1. \A i \in 1..n - 1 : follow_stack[t][i] = frames[t][i + 1].file
    BY <1>1, <1>2, <1>5 DEF Local, GuardsMatch
  <2>2. n - 1 \in 1..n - 1 /\ (n - 1) + 1 = n
    BY <1>two
  <2>3. follow_stack[t][n - 1] = frames[t][n].file
    BY <2>1, <2>2
  <2>4. \A i \in 1..n - 2 : i \in 1..n - 1 /\ i + 1 \in 1..n - 1
    BY <1>5
  <2>5. \A i \in 1..n - 2 : follow_stack[t][i] = frames'[t][i + 1].file
    BY <1>3, <1>5, <2>1, <2>4
  <2>6. GuardAlive(t)'
    BY <1>3 DEF GuardAlive
  <2>7. Len(follow_stack[t]) = n - 2 + 1 /\ Len(follow_stack[t]) = n - 1
    BY <1>2, <1>5
  <2> QED
    BY <1>2, <1>3, <1>4, <1>5, <2>3, <2>5, <2>6, <2>7 DEF GuardsMatch, Top
<1>7. EachOnce(t)'
  BY <1>1 DEF Local, EachOnce
<1>8. Chained(t)'
  <2>1. \A i \in 1..n - 1 : Suspended(frames[t][i], frames[t][i + 1].file)
    BY <1>1, <1>5 DEF Local, Chained
  <2>2. n - 1 \in 1..n - 1 /\ (n - 1) + 1 = n
    BY <1>two
  <2>3. Suspended(frames'[t][n - 1], frames[t][n].file)
    BY <1>3, <1>5, <2>1, <2>2
  <2>4. \A i \in 1..n - 2 : i \in 1..n - 1 /\ i + 1 \in 1..n - 1
    BY <1>5
  <2>5. \A i \in 1..n - 2 : Suspended(frames'[t][i], frames'[t][i + 1].file)
    BY <1>3, <1>5, <2>1, <2>4
  <2>6. Len(frames'[t]) = n - 1 /\ Len(frames'[t]) - 1 = n - 2
    BY <1>3, <1>5
  <2> QED
    BY <1>3, <1>4, <1>5, <2>3, <2>5, <2>6 DEF Chained, Top
<1> QED
  BY <1>3, <1>4, <1>6, <1>7, <1>8 DEF Local

\* and with the frame of the root the stack is empty.
LEMMA PopRoot ==
  ASSUME IInv, NEW t \in Threads, pc[t] \in {"flatten", "unwind"}, Len(frames[t]) = 1,
         frames' = [frames EXCEPT ![t] = Pop(@)], follow_stack' = follow_stack,
         target' = [target EXCEPT ![t] = Top(t).file], pc'[t] = "idle"
  PROVE  Local(t)' /\ frames'[t] = <<>> /\ target' \in [Threads -> Files \cup {NoFile}]
<1>1. Types /\ Local(t) /\ ~GuardAlive(t) /\ pc[t] \notin {"idle", "load"}
  BY Own_t DEF GuardAlive
<1>2. Top(t) \in Frame /\ Len(follow_stack[t]) = 0
  BY <1>1, Open
<1>3. frames'[t] = <<>>
  BY <1>1, PopFrameFacts
<1>4. Local(t)'
  BY <1>2, <1>3 DEF Local, GuardsMatch, GuardAlive, Depth, EachOnce, Chained
<1>5. target' \in [Threads -> Files \cup {NoFile}]
  BY <1>1, <1>2 DEF Types, Frame
<1> QED
  BY <1>3, <1>4, <1>5

\* The end of flattenMap keeps it, for the root as for a followed document.
LEMMA ReturnInv ==
  ASSUME IInv, NEW t \in Threads, Return(t)
  PROVE  Types' /\ Local(t)' /\ Phases(t)'
<1>1. Types /\ Phases(t) /\ pc[t] = "flatten"
  BY Own_t DEF Return
<1>2. /\ disk' = disk /\ edits' = edits /\ follow_stack' = follow_stack
      /\ frames' = [frames EXCEPT ![t] = Pop(@)]
      /\ target' = [target EXCEPT ![t] = Top(t).file]
  BY DEF Return
<1>3. frames' \in [Threads -> Seq(Frame)] /\ Top(t).node \in Node /\ Len(frames[t]) \in Nat
  BY <1>1, <1>2, PopFrameFacts, Open DEF Frame
<1>4. CASE Len(frames[t]) = 1
  <2>1. Finish(t, root[t], "ok", Top(t).node) /\ returned' = returned
    BY <1>4 DEF Return
  <2>2. /\ pc' \in [Threads -> Labels] /\ pc'[t] = "idle"
        /\ root' \in [Threads -> Files \cup {NoFile}] /\ root'[t] = NoFile
        /\ error' \in [Threads -> Errors \cup {"none"}] /\ error'[t] = "none"
        /\ result' \in [Threads -> Result]
    BY <1>1, <1>3, <2>1, FinishTypes DEF Types
  <2>3. Local(t)' /\ frames'[t] = <<>> /\ target' \in [Threads -> Files \cup {NoFile}]
    BY <1>1, <1>2, <1>4, <2>2, PopRoot
  <2>4. Types'
    BY <1>1, <1>2, <1>3, <2>1, <2>2, <2>3 DEF Types
  <2> QED
    BY <2>2, <2>3, <2>4 DEF Phases, Following
<1>5. CASE Len(frames[t]) # 1
  <2>1. returned' = [returned EXCEPT ![t] = Top(t).node] /\ Proceed(t, "merge")
    BY <1>5 DEF Return
  <2>2. pc' \in [Threads -> Labels] /\ pc'[t] = "merge" /\ root' = root /\ result' = result /\ error' = error
    BY <2>1, ProceedTypes DEF Labels
  <2>3. Local(t)' /\ frames'[t] # <<>> /\ target' \in [Threads -> Files \cup {NoFile}] /\ target'[t] \in Files
    BY <1>1, <1>2, <1>5, <2>2, PopInner
  <2>4. Types'
    BY <1>1, <1>2, <1>3, <2>1, <2>2, <2>3 DEF Types
  <2> QED
    BY <1>1, <2>2, <2>3, <2>4 DEF Phases, Following
<1> QED
  BY <1>4, <1>5 DEF Return

\* An exception that leaves flattenMap keeps it.
LEMMA UnwindInv ==
  ASSUME IInv, NEW t \in Threads, Unwind(t)
  PROVE  Types' /\ Local(t)' /\ Phases(t)'
<1>1. Types /\ Phases(t) /\ pc[t] = "unwind"
  BY Own_t DEF Unwind
<1>2. /\ disk' = disk /\ edits' = edits /\ follow_stack' = follow_stack /\ returned' = returned
      /\ frames' = [frames EXCEPT ![t] = Pop(@)]
      /\ target' = [target EXCEPT ![t] = Top(t).file]
  BY DEF Unwind
<1>3. frames' \in [Threads -> Seq(Frame)] /\ Len(frames[t]) \in Nat
  BY <1>1, <1>2, PopFrameFacts, Open
<1>4. CASE Len(frames[t]) = 1
  <2>1. Finish(t, root[t], error[t], EmptyNode)
    BY <1>4 DEF Unwind
  <2>2. /\ pc' \in [Threads -> Labels] /\ pc'[t] = "idle"
        /\ root' \in [Threads -> Files \cup {NoFile}] /\ root'[t] = NoFile
        /\ error' \in [Threads -> Errors \cup {"none"}] /\ error'[t] = "none"
        /\ result' \in [Threads -> Result]
    <3>1. error[t] \in Errors \cup {"none", "ok"} /\ root[t] \in Files \cup {NoFile} /\ EmptyNode \in Node
      BY <1>1, NodeTypes DEF Types
    <3> QED
      BY <2>1, <3>1, FinishTypes
  <2>3. Local(t)' /\ frames'[t] = <<>> /\ target' \in [Threads -> Files \cup {NoFile}]
    BY <1>1, <1>2, <1>4, <2>2, PopRoot
  <2>4. Types'
    BY <1>1, <1>2, <1>3, <2>2, <2>3 DEF Types
  <2> QED
    BY <2>2, <2>3, <2>4 DEF Phases, Following
<1>5. CASE Len(frames[t]) # 1
  <2>1. Proceed(t, "unguard")
    BY <1>5 DEF Unwind
  <2>2. pc' \in [Threads -> Labels] /\ pc'[t] = "unguard" /\ root' = root /\ result' = result /\ error' = error
    BY <2>1, ProceedTypes DEF Labels
  <2>3. Local(t)' /\ frames'[t] # <<>> /\ target' \in [Threads -> Files \cup {NoFile}] /\ target'[t] \in Files
    BY <1>1, <1>2, <1>5, <2>2, PopInner
  <2>4. Types'
    BY <1>1, <1>2, <1>3, <2>2, <2>3 DEF Types
  <2> QED
    BY <1>1, <2>2, <2>3, <2>4 DEF Phases, Following
<1> QED
  BY <1>4, <1>5 DEF Unwind

\* Adding the followed document to its follower, or the error of a repeated key, keeps it.
LEMMA MergeChildInv ==
  ASSUME IInv, NEW t \in Threads, MergeChild(t)
  PROVE  Types' /\ Local(t)' /\ Phases(t)'
<1>1. Types /\ Local(t) /\ Phases(t) /\ pc[t] = "merge" /\ target[t] \in Files
  BY Own_t DEF MergeChild, Phases, Following
<1>2. /\ disk' = disk /\ edits' = edits /\ follow_stack' = follow_stack
      /\ target' = target /\ returned' = returned
  BY DEF MergeChild
<1>3. Top(t) \in Frame /\ frames[t] # <<>> /\ GuardAlive(t) /\ Len(frames[t]) \in Nat \ {0}
  BY <1>1, Open DEF GuardAlive
<1>4. Suspended(Top(t), target[t])
  BY <1>1, <1>3 DEF Local, Chained, Following
<1>5. CASE Conflict(Top(t).node, returned[t])
  <2>1. frames' = frames /\ Throw(t, "conflict", "unguard")
    BY <1>5 DEF MergeChild
  <2>2. Types' /\ pc'[t] = "unguard" /\ root' = root
    BY <1>1, <1>2, <2>1, ThrowTypes DEF Types, Errors
  <2>3. Phases(t)'
    BY <1>1, <1>2, <1>3, <2>1, <2>2 DEF Phases, Following
  <2>4. GuardAlive(t)'
    BY <1>3, <2>1, <2>2 DEF GuardAlive
  <2> QED
    BY <1>1, <1>2, <1>3, <1>4, <2>1, <2>2, <2>3, <2>4, SameStacks
<1>6. CASE ~Conflict(Top(t).node, returned[t])
  <2> DEFINE new == [Top(t) EXCEPT !.node = Merge(Top(t).node, returned[t])]
  <2>1. ReplaceTop(t, new) /\ Proceed(t, "unguard")
    BY <1>6 DEF MergeChild
  <2>2. PICK n : n = new
    OBVIOUS
  <2>3. n \in Frame /\ n.file = Top(t).file /\ n.at = Top(t).at /\ n.doc = Top(t).doc
    <3>1. Merge(Top(t).node, returned[t]) \in Node
      BY <1>1, <1>3, NodeTypes DEF Frame, Types
    <3> QED
      BY <1>3, <2>2, <3>1 DEF Frame
  <2>4. ReplaceTop(t, n)
    BY <2>1, <2>2
  <2>5. /\ frames' \in [Threads -> Seq(Frame)]
        /\ frames'[t] # <<>> /\ Len(frames'[t]) = Len(frames[t])
        /\ \A i \in 1..Len(frames[t]) - 1 : frames'[t][i] = frames[t][i]
        /\ frames'[t][Len(frames[t])] = n
        /\ \A i \in 1..Len(frames[t]) : frames'[t][i].file = frames[t][i].file
        /\ Depth(t)' = Depth(t)
    BY <1>1, <2>3, <2>4, ReplaceTopFacts
  <2>6. pc' \in [Threads -> Labels] /\ pc'[t] = "unguard" /\ root' = root /\ result' = result /\ error' = error
    BY <2>1, ProceedTypes DEF Labels
  <2>7. Types'
    BY <1>1, <1>2, <2>5, <2>6 DEF Types
  <2>8. Phases(t)'
    BY <1>1, <1>2, <2>5, <2>6 DEF Phases, Following
  <2>9. GuardsMatch(t)' /\ EachOnce(t)'
    <3>1. GuardAlive(t)'
      BY <2>5, <2>6 DEF GuardAlive
    <3> QED
      BY <1>1, <1>2, <1>3, <2>5, <2>6, <3>1, SameFilesMatch
  <2>10. Chained(t)'
    <3>1. Top(t)' = n
      BY <2>5 DEF Top
    <3>2. Suspended(Top(t)', target'[t])
      BY <1>2, <1>4, <2>3, <3>1 DEF Suspended
    <3> QED
      BY <1>1, <2>5, <3>2, SameFilesChained
  <2> QED
    BY <2>7, <2>8, <2>9, <2>10 DEF Local
<1> QED
  BY <1>5, <1>6

\* The destructor of FollowGuard keeps it, after the block and while an exception unwinds it.
LEMMA UnguardInv ==
  ASSUME IInv, NEW t \in Threads, Unguard(t)
  PROVE  Types' /\ Local(t)' /\ Phases(t)'
<1>1. Types /\ Local(t) /\ Phases(t) /\ pc[t] = "unguard"
  BY Own_t DEF Unguard
<1>2. /\ disk' = disk /\ edits' = edits /\ target' = target /\ returned' = returned
      /\ follow_stack' = [follow_stack EXCEPT ![t] = Pop(follow_stack[t])]
  BY DEF Unguard, AfterGuard
<1>3. /\ Top(t) \in Frame /\ frames[t] # <<>> /\ GuardAlive(t)
      /\ Len(frames[t]) \in Nat \ {0} /\ Depth(t) = Len(frames[t]) - 1
      /\ follow_stack[t] \in Seq(Files) /\ Len(follow_stack[t]) = Len(frames[t])
  BY <1>1, Open DEF GuardAlive
<1>4. follow_stack[t] # <<>>
  BY <1>3, EmptySeq
<1>5. PICK s : s = Pop(follow_stack[t])
  OBVIOUS
<1>6. /\ s \in Seq(Files) /\ Len(s) = Len(frames[t]) - 1
      /\ \A i \in 1..Len(frames[t]) - 1 : s[i] = follow_stack[t][i]
  BY <1>3, <1>4, <1>5, PopProperties
<1>7. follow_stack' \in [Threads -> Seq(Files)] /\ follow_stack'[t] = s
  BY <1>1, <1>2, <1>5, <1>6 DEF Types
<1>8. EachOnce(t)'
  <2>1. \A i \in 1..Len(s) : i \in 1..Len(follow_stack[t]) /\ s[i] = follow_stack[t][i]
    BY <1>3, <1>6
  <2> QED
    BY <1>1, <1>7, <2>1 DEF Local, EachOnce
<1>9. \A i \in 1..Len(frames[t]) - 1 : s[i] = frames[t][i + 1].file
  BY <1>1, <1>3, <1>6 DEF Local, GuardsMatch
<1>10. CASE error[t] = "none"
  <2> DEFINE new == [Top(t) EXCEPT !.at = Top(t).at + 1]
  <2>1. ReplaceTop(t, new) /\ Proceed(t, "flatten")
    BY <1>10 DEF Unguard, AfterFollow
  <2>2. PICK n : n = new
    OBVIOUS
  <2>3. n \in Frame /\ n.file = Top(t).file
    <3>1. Top(t).at + 1 \in Nat \ {0}
      BY <1>3 DEF Frame
    <3> QED
      BY <1>3, <2>2, <3>1 DEF Frame
  <2>4. /\ frames' \in [Threads -> Seq(Frame)]
        /\ frames'[t] # <<>> /\ Len(frames'[t]) = Len(frames[t])
        /\ \A i \in 1..Len(frames[t]) - 1 : frames'[t][i] = frames[t][i]
        /\ \A i \in 1..Len(frames[t]) : frames'[t][i].file = frames[t][i].file
        /\ Depth(t)' = Depth(t)
    BY <1>1, <2>1, <2>2, <2>3, ReplaceTopFacts
  <2>5. pc' \in [Threads -> Labels] /\ pc'[t] = "flatten" /\ root' = root /\ result' = result /\ error' = error
    BY <2>1, ProceedTypes DEF Labels
  <2>6. Types'
    BY <1>1, <1>2, <1>7, <2>4, <2>5 DEF Types
  <2>7. Phases(t)'
    BY <1>1, <1>10, <2>4, <2>5 DEF Phases, Following
  <2>8. GuardsMatch(t)'
    <3>1. \A i \in 1..Len(frames[t]) - 1 : i + 1 \in 1..Len(frames[t])
      BY <1>3
    <3>2. \A i \in 1..Len(frames[t]) - 1 : s[i] = frames'[t][i + 1].file
      BY <1>9, <2>4, <3>1
    <3>3. ~GuardAlive(t)' /\ Depth(t)' = Len(frames[t]) - 1
      BY <1>3, <2>4, <2>5 DEF GuardAlive
    <3> QED
      BY <1>3, <1>6, <1>7, <2>4, <2>5, <3>2, <3>3 DEF GuardsMatch
  <2>9. Chained(t)'
    <3>1. pc'[t] \notin Following /\ pc[t] \notin {"idle", "load"}
      BY <1>1, <2>5 DEF Following
    <3> QED
      BY <2>4, <3>1, SameFilesChained
  <2> QED
    BY <1>8, <2>6, <2>7, <2>8, <2>9 DEF Local
<1>11. CASE error[t] # "none"
  <2>1. Proceed(t, "unwind") /\ frames' = frames
    BY <1>11 DEF Unguard
  <2>2. pc' \in [Threads -> Labels] /\ pc'[t] = "unwind" /\ root' = root /\ result' = result /\ error' = error
    BY <2>1, ProceedTypes DEF Labels
  <2>3. Types'
    BY <1>1, <1>2, <1>7, <2>1, <2>2 DEF Types
  <2>4. Phases(t)'
    BY <1>1, <1>3, <2>1, <2>2 DEF Phases, Following
  <2>5. GuardsMatch(t)'
    <3>1. ~GuardAlive(t)' /\ Depth(t)' = Len(frames[t]) - 1
      BY <1>3, <2>1, <2>2 DEF GuardAlive, Depth
    <3> QED
      BY <1>3, <1>6, <1>7, <1>9, <2>1, <2>2, <3>1 DEF GuardsMatch
  <2>6. Chained(t)'
    BY <1>1, <2>1, <2>2 DEF Local, Chained, Following
  <2> QED
    BY <1>8, <2>3, <2>4, <2>5, <2>6 DEF Local
<1> QED
  BY <1>10, <1>11

-----------------------------------------------------------------------------
(* The theorems.                                                           *)

\* Parts, of the next state.
LEMMA PartsNext == Types' /\ (\A u \in Threads : Local(u)' /\ Phases(u)') => IInv'
<1>1. Types' /\ (\A u \in Threads : Phases(u)') => TypeOK'
  BY DEF TypeOK, Types, Phases
<1>2. (\A u \in Threads : Local(u)')
        => GuardsMatchFrames' /\ NoFileTwice' /\ ChainOfFollows'
  BY DEF GuardsMatchFrames, NoFileTwice, ChainOfFollows, Local
<1> QED
  BY <1>1, <1>2 DEF IInv

\* A change of the file system keeps it: documents that are open were read before.
LEMMA EditInv ==
  ASSUME IInv, NEW f \in Files, Edit(f)
  PROVE  IInv'
<1>1. Types /\ \A u \in Threads : Local(u) /\ Phases(u)
  BY Parts
<1>2. Types'
  BY <1>1, EditsAssumption DEF Edit, locals, Types
<1>3. \A u \in Threads : Same(u)
  BY DEF Edit, locals, Same
<1>4. \A u \in Threads : Local(u)' /\ Phases(u)'
  BY <1>1, <1>3, SameLocal
<1> QED
  BY <1>2, <1>4, PartsNext

\* Every step keeps the inductive invariant.
LEMMA NextInv == IInv /\ [Next]_vars => IInv'
<1> SUFFICES ASSUME IInv, [Next]_vars PROVE IInv'
  OBVIOUS
<1>1. ASSUME NEW t \in Threads, Step(t) \/ \E f \in Files : Call(t, f)
      PROVE  IInv'
  <2>1. Types' /\ Local(t)' /\ Phases(t)'
    BY <1>1, CallInv, LoadFileInv, AddEntryInv, ResolveInv, GuardInv, ReturnInv,
       MergeChildInv, UnguardInv, UnwindInv DEF Step
  <2>2. \A u \in Threads : Local(u)' /\ Phases(u)'
    BY <1>1, <2>1, OneThread
  <2> QED
    BY <2>1, <2>2, PartsNext
<1>2. ASSUME NEW f \in Files, Edit(f)
      PROVE  IInv'
  BY <1>2, EditInv
<1>3. CASE UNCHANGED vars
  <2>1. Types /\ \A u \in Threads : Local(u) /\ Phases(u)
    BY Parts
  <2>2. Types'
    BY <1>3, <2>1 DEF vars, locals, Types
  <2>3. \A u \in Threads : Same(u)
    BY <1>3 DEF vars, locals, Same
  <2>4. \A u \in Threads : Local(u)' /\ Phases(u)'
    BY <2>1, <2>3, SameLocal
  <2> QED
    BY <2>2, <2>4, PartsNext
<1> QED
  BY <1>1, <1>2, <1>3 DEF Next

\* The inductive invariant holds in every reachable state.
LEMMA Invariance == Spec => []IInv
  BY InitInv, NextInv, PTL DEF Spec

\* The variables keep their types and the phases of a load their order.
THEOREM TypeCorrect == Spec => []TypeOK
<1>1. IInv => TypeOK
  BY DEF IInv
<1> QED
  BY <1>1, Invariance, PTL

\* The guards match the open documents at every point of every load, also
\* while an exception unwinds them: every push of follow_stack has its pop.
THEOREM GuardsBalanced == Spec => []GuardsMatchFrames
<1>1. IInv => GuardsMatchFrames
  BY DEF IInv
<1> QED
  BY <1>1, Invariance, PTL

\* No thread follows a file that it is following.
THEOREM FollowedOnce == Spec => []NoFileTwice
<1>1. IInv => NoFileTwice
  BY DEF IInv
<1> QED
  BY <1>1, Invariance, PTL

\* Every open document is suspended where it follows the next one.
THEOREM ChainHolds == Spec => []ChainOfFollows
<1>1. IInv => ChainOfFollows
  BY DEF IInv
<1> QED
  BY <1>1, Invariance, PTL

\* Every guard is for another file: so there are at most as many as files.
LEMMA GuardsBounded ==
  ASSUME IsFiniteSet(Files), IInv, NEW t \in Threads
  PROVE  /\ Cardinality(Files) \in Nat
         /\ Len(frames[t]) <= Cardinality(Files) + 1
         /\ GuardAlive(t) => Len(frames[t]) <= Cardinality(Files)
<1>1. Types /\ Local(t)
  BY Own_t
<1>2. Cardinality(Files) \in Nat
  BY FS_CardinalityType
<1>3. frames[t] \in Seq(Frame) /\ follow_stack[t] \in Seq(Files)
  BY <1>1 DEF Types
<1>4. PICK n \in Nat : n = Len(follow_stack[t])
  BY <1>3
<1>5. n <= Cardinality(Files)
  <2>1. SUFFICES ASSUME n > Cardinality(Files) PROVE FALSE
    BY <1>2, <1>4
  <2>2. IsFiniteSet(1..n) /\ Cardinality(1..n) = n
    <3>1. 1 \in Int /\ n \in Int /\ ~(1 > n) /\ n - 1 + 1 = n
      BY <1>2, <1>4, <2>1
    <3>2. /\ IsFiniteSet(1..n)
          /\ Cardinality(1..n) = IF 1 > n THEN 0 ELSE n - 1 + 1
      BY <3>1, FS_Interval
    <3> QED
      BY <3>1, <3>2
  <2>3. follow_stack[t] \in [1..n -> Files]
    BY <1>3, <1>4, LenProperties
  <2>4. \E i, j \in 1..n : i # j /\ follow_stack[t][i] = follow_stack[t][j]
    BY <2>1, <2>2, <2>3, FS_PigeonHole
  <2> QED
    BY <1>1, <1>4, <2>4 DEF Local, EachOnce
<1>6. n = Depth(t) + IF GuardAlive(t) THEN 1 ELSE 0
  BY <1>1, <1>4 DEF Local, GuardsMatch
<1>7. CASE frames[t] = <<>>
  BY <1>2, <1>7, EmptySeq DEF GuardAlive
<1>8. CASE frames[t] # <<>>
  <2>1. Depth(t) = Len(frames[t]) - 1 /\ Len(frames[t]) \in Nat
    BY <1>3, <1>8, EmptySeq DEF Depth
  <2>2. CASE GuardAlive(t)
    BY <1>2, <1>4, <1>5, <1>6, <2>1, <2>2
  <2>3. CASE ~GuardAlive(t)
    BY <1>2, <1>4, <1>5, <1>6, <2>1, <2>3
  <2> QED
    BY <2>2, <2>3
<1> QED
  BY <1>2, <1>7, <1>8

\* The recursion is never deeper than the files are many, plus the root.
THEOREM RecursionBounded ==
  ASSUME IsFiniteSet(Files)
  PROVE  Spec => []BoundedRecursion
<1>1. IInv => BoundedRecursion
  BY GuardsBounded DEF BoundedRecursion
<1> QED
  BY <1>1, Invariance, PTL

\* Whoever is told of a cycle has a cycle among the documents he has open.
LEMMA CycleStep ==
  ASSUME IInv, [Next]_vars, NEW t \in Threads, error[t] # "cycle", error'[t] = "cycle"
  PROVE  ClosesCycle(t)
<1>1. Types /\ Local(t) /\ Phases(t)
  BY Own_t
<1>2. Guard(t) /\ Throw(t, "cycle", "unwind") /\ InStack(t, target[t])
  <2>1. CASE UNCHANGED vars \/ \E f \in Files : Edit(f)
    BY <2>1 DEF vars, locals, Edit
  <2>2. ASSUME NEW u \in Threads, Step(u) \/ \E f \in Files : Call(u, f), u # t
        PROVE  FALSE
    BY <2>2, OthersSame DEF Same, IInv
  <2>3. ASSUME \E f \in Files : Call(t, f)
        PROVE  FALSE
    BY <1>1, <2>3 DEF Call, Finish, Types
  <2>4. ASSUME LoadFile(t) \/ AddEntry(t) \/ Resolve(t) \/ Return(t)
               \/ MergeChild(t) \/ Unguard(t) \/ Unwind(t)
        PROVE  FALSE
    BY <1>1, <2>4 DEF LoadFile, AddEntry, Resolve, Return, MergeChild, Unguard, Unwind,
                      Finish, Throw, Proceed, Types
  <2>5. CASE Guard(t)
    BY <1>1, <2>5 DEF Guard, Throw, Proceed, Types
  <2> QED
    BY <2>1, <2>2, <2>3, <2>4, <2>5 DEF Next, Step
<1>3. /\ frames[t] # <<>> /\ Len(frames[t]) \in Nat \ {0} /\ Depth(t) = Len(frames[t]) - 1
      /\ Len(follow_stack[t]) = Len(frames[t]) - 1 /\ pc[t] = "guard"
  BY <1>2, Open DEF Guard, GuardAlive
<1>4. PICK i \in 1..Len(frames[t]) - 1 : follow_stack[t][i] = target[t]
  BY <1>2, <1>3 DEF InStack
<1>5. frames[t][i + 1].file = target[t] /\ i + 1 \in 2..Len(frames[t])
  BY <1>1, <1>3, <1>4 DEF Local, GuardsMatch
<1>6. ASSUME NEW j \in (i + 1)..Len(frames[t])
      PROVE  Suspended(frames[t][j], IF j < Len(frames[t]) THEN frames[t][j + 1].file
                                                           ELSE target[t])
  <2>1. CASE j < Len(frames[t])
    <3>1. j \in 1..Len(frames[t]) - 1
      BY <1>3, <1>4, <2>1
    <3> QED
      BY <1>1, <2>1, <3>1 DEF Local, Chained
  <2>2. CASE j = Len(frames[t])
    <3>1. Suspended(Top(t), target[t])
      BY <1>1, <1>3 DEF Local, Chained, Following
    <3> QED
      BY <1>3, <2>2, <3>1 DEF Top
  <2> QED
    BY <1>3, <1>4, <2>1, <2>2
<1> QED
  BY <1>5, <1>6 DEF ClosesCycle

\* A reported cycle is real, whatever other threads and editors do meanwhile.
THEOREM CyclesAreReal == Spec => CycleIsReal
<1>1. IInv /\ [Next]_vars =>
        [\A t \in Threads : error[t] # "cycle" /\ error'[t] = "cycle" => ClosesCycle(t)]_vars
  BY CycleStep
<1> QED
  BY <1>1, Invariance, PTL DEF Spec, CycleIsReal

-----------------------------------------------------------------------------
(***************************************************************************)
(* That the recursion through followed documents, with its guards and      *)
(* exceptions, computes the text that FollowLoad says the files stand for, *)
(* for any threads, files and documents, as long as nobody edits them.     *)
(*                                                                         *)
(* The invariant says that every open document has been put together up to *)
(* the entry at which it stands (Walked), that its next entry stands for   *)
(* the document that is open above it (Waits), and that an exception is    *)
(* what the innermost document amounts to (Fails).                         *)
(***************************************************************************)

Nesting == Abstract!Nesting
Text(D, n) == Abstract!Text(D)[n]
Good(node) == [status |-> "ok", node |-> node]
Failure(kind) == Abstract!Failure(kind)

\* What the entries of the i-th open document stand for, which is f.
Pieces(D, f, i) == Abstract!Parts(D, f, Text(D, Nesting - i))

\* The first n parts can be put together, and the node is what they amount to.
Clean(parts, n) == \A j \in 1..n : parts[j].status = "ok" /\ ~Abstract!Clash(parts, j)
Holds(parts, n, node) == \A k \in Keys :
  \/ node[k] = NoFile /\ \A j \in 1..n : parts[j].node[k] = NoFile
  \/ /\ node[k] # NoFile
     /\ \E j \in 1..n : /\ parts[j].node[k] = node[k]
                        /\ \A i \in (j + 1)..n : parts[i].node[k] = NoFile

\* The n-th part is the first one that cannot be, for a reason.
Fails(parts, n, e) ==
  /\ n \in DOMAIN parts /\ Clean(parts, n - 1)
  /\ \/ parts[n] = Failure(e)
     \/ parts[n].status = "ok" /\ Abstract!Clash(parts, n) /\ e = "conflict"

Walked(D, frame, i, n) ==
  /\ frame.doc = D[frame.file] /\ (frame.folders <=> Kind[frame.file] = "schema")
  /\ n \in 0..Len(frame.doc)
  /\ Clean(Pieces(D, frame.file, i), n) /\ Holds(Pieces(D, frame.file, i), n, frame.node)
Waits(D, frame, f) ==
  /\ Suspended(frame, f)
  /\ Kind[f] # "other" /\ D[f] # Absent /\ (Kind[f] = "schema" => frame.folders)

\* The entries of a document that its node has: a guard is destroyed after the merge.
Done(t, i) ==
  IF pc[t] = "unguard" /\ error[t] = "none" /\ i = Len(frames[t]) THEN frames[t][i].at
                                                                  ELSE frames[t][i].at - 1

\* All open documents, from the root to the innermost one.
Built(t) ==
  /\ \A i \in 1..Len(frames[t]) : Walked(disk, frames[t][i], i, Done(t, i))
  /\ \A i \in 1..Len(frames[t]) - 1 : Waits(disk, frames[t][i], frames[t][i + 1].file)
  /\ frames[t] # <<>> => frames[t][1].file = root[t]

\* The document that is opened first; the one that the innermost document follows; and
\* why an exception is in flight.
Starts(t) == frames[t] = <<>> /\ pc[t] = "load" => target[t] = root[t] /\ disk[root[t]] # Absent
Follows(t) ==
  /\ frames[t] # <<>> /\ pc[t] \in Following => Waits(disk, Top(t), target[t])
  /\ pc[t] = "merge" => Text(disk, Nesting - Len(frames[t]))[target[t]] = Good(returned[t])
Raises(t) ==
  /\ pc[t] = "unwind" => error[t] # "none"
  /\ error[t] # "none" => Fails(Pieces(disk, Top(t).file, Len(frames[t])), Top(t).at, error[t])

Running(t) == Built(t) /\ Starts(t) /\ Follows(t) /\ Raises(t)

DInv == IInv /\ \A t \in Threads : Running(t)


-----------------------------------------------------------------------------
(* Parts that are put together.                                            *)

Texts == {x \in [status : Errors \cup {"ok"}, node : Node] : x.status # "ok" => x.node = EmptyNode}

\* Both modules mean the same by a failure.
LEMMA Failures ==
  /\ Abstract!EmptyNode = EmptyNode /\ EmptyNode \in Node
  /\ \A e : Failure(e).status = e /\ Failure(e).node = EmptyNode
  /\ \A e \in Errors : e # "ok" /\ e # "none" /\ Failure(e) \in Texts
  /\ \A node \in Node : Good(node) \in Texts
  /\ \A x \in Texts : /\ x.status # "ok" => x.status \in Errors /\ x = Failure(x.status)
                      /\ x.status = "ok" => x = Good(x.node)
                      /\ x.node \in Node
<1>1. Abstract!EmptyNode = EmptyNode /\ EmptyNode \in Node
  BY NodeTypes DEF Abstract!EmptyNode, EmptyNode
<1>2. \A e : Failure(e) = [status |-> e, node |-> EmptyNode]
  BY <1>1 DEF Failure, Abstract!Failure
<1>3. \A e \in Errors : e # "ok" /\ e # "none"
  BY DEF Errors
<1> QED
  BY <1>1, <1>2, <1>3 DEF Texts, Good

\* If parts are put together up to one that fails, that one decides.
LEMMA PastedFirst ==
  ASSUME NEW n \in Nat, NEW parts, DOMAIN parts = 1..n, NEW m \in 1..n,
         m \in Abstract!Failing(parts), \A j \in 1..(m - 1) : j \notin Abstract!Failing(parts)
  PROVE  Abstract!Pasted(parts) = IF parts[m].status # "ok" THEN parts[m] ELSE Failure("conflict")
<1> DEFINE F == Abstract!Failing(parts)
           first == CHOOSE i \in F : \A j \in F : i <= j
<1>1. \A j \in F : j \in 1..n /\ m <= j
  BY DEF Abstract!Failing
<1>2. \A i \in F : (\A j \in F : i <= j) => i = m
  BY <1>1
<1>3. first = m
  <2>1. m \in F /\ \A j \in F : m <= j
    BY <1>1
  <2> HIDE DEF F
  <2> QED
    BY <1>2, <2>1
<1>4. F # {}
  OBVIOUS
<1>5. Abstract!Pasted(parts) = IF parts[first].status # "ok" THEN parts[first] ELSE Failure("conflict")
  BY <1>4 DEF Abstract!Pasted, Failure
<1> HIDE DEF first
<1> QED
  BY <1>3, <1>5

\* A part that fails for a reason gives that reason.
LEMMA PastedFails ==
  ASSUME NEW n \in Nat, NEW parts \in [1..n -> Texts], NEW m, NEW e \in Errors, Fails(parts, m, e)
  PROVE  Abstract!Pasted(parts) = Failure(e)
<1>1. m \in 1..n /\ m \in Abstract!Failing(parts)
  BY Failures DEF Fails, Abstract!Failing
<1>2. \A j \in 1..(m - 1) : j \notin Abstract!Failing(parts)
  BY <1>1 DEF Fails, Clean, Abstract!Failing
<1>3. Abstract!Pasted(parts) = IF parts[m].status # "ok" THEN parts[m] ELSE Failure("conflict")
  BY <1>1, <1>2, PastedFirst
<1> QED
  BY <1>3, Failures DEF Fails

\* If all can be put together, the node is what they amount to.
LEMMA PastedDone ==
  ASSUME NEW n \in Nat, NEW parts \in [1..n -> Texts], Clean(parts, n),
         NEW node \in Node, Holds(parts, n, node)
  PROVE  Abstract!Pasted(parts) = Good(node)
<1> DEFINE D(k) == Abstract!Defining(parts, k)
           last(k) == CHOOSE i \in D(k) : \A j \in D(k) : j <= i
           all == [k \in Keys |-> IF D(k) = {} THEN NoFile ELSE parts[last(k)].node[k]]
<1>1. Abstract!Failing(parts) = {}
  BY DEF Abstract!Failing, Clean
<1>2. Abstract!Pasted(parts) = [status |-> "ok", node |-> all]
  BY <1>1 DEF Abstract!Pasted
<1>3. ASSUME NEW k \in Keys PROVE node[k] = IF D(k) = {} THEN NoFile ELSE parts[last(k)].node[k]
  <2>1. CASE node[k] = NoFile
    <3>1. D(k) = {}
      BY <2>1 DEF Holds, Abstract!Defining
    <3> QED
      BY <2>1, <3>1
  <2>2. CASE node[k] # NoFile
    <3>1. PICK j \in 1..n : /\ parts[j].node[k] = node[k]
                            /\ \A i \in (j + 1)..n : parts[i].node[k] = NoFile
      BY <2>2 DEF Holds
    <3>2. j \in D(k) /\ \A i \in D(k) : i \in 1..n /\ i <= j
      BY <2>2, <3>1 DEF Abstract!Defining
    <3>3. last(k) = j
      <4>1. \A i \in D(k) : (\A l \in D(k) : l <= i) => i = j
        BY <3>2
      <4> HIDE DEF D
      <4> QED
        BY <3>2, <4>1
    <3> HIDE DEF last
    <3> QED
      BY <3>1, <3>2, <3>3
  <2> QED
    BY <2>1, <2>2
<1> HIDE DEF last
<1>4. node = all
  BY <1>3 DEF Node
<1> QED
  BY <1>2, <1>4 DEF Good

\* Parts put together are a text.
LEMMA PastedType ==
  ASSUME NEW n \in Nat, NEW parts \in [1..n -> Texts]
  PROVE  Abstract!Pasted(parts) \in Texts
<1> DEFINE F == Abstract!Failing(parts)
<1>1. CASE F # {}
  <2>1. F \in SUBSET Nat /\ \A i \in F : i \in 1..n
    BY DEF Abstract!Failing
  <2>2. PICK m \in F : \A j \in F : m <= j
    <3> HIDE DEF F
    <3> QED
      BY <1>1, <2>1, Least
  <2>3. \A j \in 1..(m - 1) : j \notin F
    BY <2>1, <2>2
  <2>4. Abstract!Pasted(parts) = IF parts[m].status # "ok" THEN parts[m] ELSE Failure("conflict")
    BY <2>1, <2>2, <2>3, PastedFirst
  <2> QED
    BY <2>1, <2>4, Failures DEF Errors
<1>2. CASE F = {}
  <2> DEFINE D(k) == Abstract!Defining(parts, k)
             last(k) == CHOOSE i \in D(k) : \A j \in D(k) : j <= i
             all == [k \in Keys |-> IF D(k) = {} THEN NoFile ELSE parts[last(k)].node[k]]
  <2>1. Abstract!Pasted(parts) = [status |-> "ok", node |-> all]
    BY <1>2 DEF Abstract!Pasted
  <2>2. ASSUME NEW k \in Keys, D(k) # {} PROVE last(k) \in 1..n
    <3>1. D(k) \in SUBSET (1..n)
      BY DEF Abstract!Defining
    <3> HIDE DEF D
    <3>2. \E i \in D(k) : \A j \in D(k) : j <= i
      BY <2>2, <3>1, Greatest
    <3> QED
      BY <3>1, <3>2
  <2> HIDE DEF last, D
  <2>3. all \in Node
    <3>1. ASSUME NEW k \in Keys, NEW i \in 1..n PROVE parts[i].node[k] \in Files \cup {NoFile}
      BY Failures DEF Node
    <3> QED
      BY <2>2, <3>1 DEF Node
  <2> QED
    BY <2>1, <2>3 DEF Texts
<1> QED
  BY <1>1, <1>2


\* What is added to a node: the part is in conflict with the parts before exactly if its
\* node is with the node so far, and otherwise is merged into it.
LEMMA AddPart ==
  ASSUME NEW n \in Nat, NEW parts \in [1..n -> Texts], NEW m \in 1..n, NEW node \in Node,
         Holds(parts, m - 1, node)
  PROVE  /\ Conflict(node, parts[m].node) <=> Abstract!Clash(parts, m)
         /\ Holds(parts, m, Merge(node, parts[m].node))
<1>1. ASSUME NEW k \in Keys
      PROVE  node[k] # NoFile <=> \E j \in 1..n : j < m /\ parts[j].node[k] # NoFile
  <2>1. ASSUME node[k] # NoFile PROVE \E j \in 1..n : j < m /\ parts[j].node[k] # NoFile
    <3>1. PICK j \in 1..(m - 1) : parts[j].node[k] = node[k]
      BY <2>1 DEF Holds
    <3>2. j \in 1..n /\ j < m
      OBVIOUS
    <3> QED
      BY <2>1, <3>1, <3>2
  <2>2. ASSUME NEW j \in 1..n, j < m, parts[j].node[k] # NoFile PROVE node[k] # NoFile
    <3>1. j \in 1..(m - 1)
      BY <2>2
    <3> QED
      BY <2>2, <3>1 DEF Holds
  <2> QED
    BY <2>1, <2>2
<1>2. Conflict(node, parts[m].node) <=> Abstract!Clash(parts, m)
  BY <1>1 DEF Conflict, Has, Abstract!Clash, Abstract!Defining
<1>3. ASSUME NEW k \in Keys
      PROVE  LET new == Merge(node, parts[m].node)
             IN \/ new[k] = NoFile /\ \A j \in 1..m : parts[j].node[k] = NoFile
                \/ /\ new[k] # NoFile
                   /\ \E j \in 1..m : /\ parts[j].node[k] = new[k]
                                      /\ \A i \in (j + 1)..m : parts[i].node[k] = NoFile
  <2> DEFINE new == Merge(node, parts[m].node)
  <2>1. CASE parts[m].node[k] # NoFile
    <3>1. new[k] = parts[m].node[k]
      BY <2>1 DEF Merge, Has
    <3>2. m \in 1..m /\ \A i \in (m + 1)..m : parts[i].node[k] = NoFile
      OBVIOUS
    <3> QED
      BY <2>1, <3>1, <3>2
  <2>2. CASE parts[m].node[k] = NoFile
    <3>1. new[k] = node[k]
      BY <2>2 DEF Merge, Has
    <3>2. \A j \in 1..m : j \in 1..(m - 1) \/ j = m
      OBVIOUS
    <3>3. CASE node[k] = NoFile /\ \A j \in 1..(m - 1) : parts[j].node[k] = NoFile
      BY <2>2, <3>1, <3>2, <3>3
    <3>4. CASE node[k] # NoFile
      <4>1. PICK j \in 1..(m - 1) : /\ parts[j].node[k] = node[k]
                                    /\ \A i \in (j + 1)..(m - 1) : parts[i].node[k] = NoFile
        BY <3>4 DEF Holds
      <4>2. j \in 1..m /\ \A i \in (j + 1)..m : i \in (j + 1)..(m - 1) \/ i = m
        OBVIOUS
      <4>3. \A i \in (j + 1)..m : parts[i].node[k] = NoFile
        BY <2>2, <4>1, <4>2
      <4> QED
        BY <3>1, <3>4, <4>1, <4>2, <4>3
    <3> QED
      BY <3>3, <3>4 DEF Holds
  <2> QED
    BY <2>1, <2>2
<1>4. Holds(parts, m, Merge(node, parts[m].node))
  BY <1>3 DEF Holds
<1> QED
  BY <1>2, <1>4

-----------------------------------------------------------------------------
(* The texts, one level of nesting after the other.                        *)

Contents == [Files -> Docs \cup {Absent, Corrupt}]

\* The parts of a document are texts, if those of the documents that it follows are.
LEMMA PartsTypes ==
  ASSUME NEW D \in Contents, NEW f \in Files, D[f] \in Docs, NEW inner \in [Files -> Texts]
  PROVE  /\ Len(D[f]) \in Nat /\ DOMAIN D[f] = 1..Len(D[f])
         /\ Abstract!Parts(D, f, inner) \in [1..Len(D[f]) -> Texts]
<1>1. D[f] \in Seq(Entry)
  BY DocsAssumption
<1>2. Len(D[f]) \in Nat /\ DOMAIN D[f] = 1..Len(D[f])
  BY <1>1
<1>3. ASSUME NEW i \in 1..Len(D[f]) PROVE Abstract!Part(D, f, D[f][i], inner) \in Texts
  <2>1. PICK e \in Entry : e = D[f][i]
    BY <1>1, ElementOfSeq
  <2>2. (e.follow => e.to \in Files) /\ (~e.follow => e.to \in Keys)
    BY DEF Entry, Follow, Define
  <2>3. Abstract!Failure("extension") \in Texts /\ Abstract!Failure("missing") \in Texts
    BY Failures DEF Errors, Failure
  <2>4. [EmptyNode EXCEPT ![e.to] = f] \in Node
    BY DEF EmptyNode, Node
  <2>5. ~e.follow => Abstract!Part(D, f, e, inner) = Good([EmptyNode EXCEPT ![e.to] = f])
    BY Failures DEF Abstract!Part, Good
  <2>6. e.follow => Abstract!Part(D, f, e, inner) \in {Abstract!Failure("extension"),
                                                       Abstract!Failure("missing"), inner[e.to]}
    BY DEF Abstract!Part
  <2> QED
    BY <2>1, <2>2, <2>3, <2>4, <2>5, <2>6, Failures
<1>4. Abstract!Parts(D, f, inner) = [i \in 1..Len(D[f]) |-> Abstract!Part(D, f, D[f][i], inner)]
  BY <1>2 DEF Abstract!Parts
<1> QED
  BY <1>2, <1>3, <1>4

\* So what a file stands for is a text.
LEMMA MeaningTypes ==
  ASSUME NEW D \in Contents, NEW f \in Files
  PROVE  /\ Abstract!Meaning(D, f, 0, <<>>) = Failure("cycle") /\ Failure("cycle") \in Texts
         /\ \A inner \in [Files -> Texts], n \in Nat \ {0} :
              /\ Abstract!Meaning(D, f, n, inner) = Abstract!Meaning(D, f, 1, inner)
              /\ Abstract!Meaning(D, f, n, inner) \in Texts
              /\ Abstract!Meaning(D, f, n, inner) =
                   IF D[f] \in Docs THEN Abstract!Pasted(Abstract!Parts(D, f, inner)) ELSE Failure("parse")
<1>1. Abstract!Meaning(D, f, 0, <<>>) = Failure("cycle") /\ Failure("cycle") \in Texts
  BY Failures DEF Abstract!Meaning, Failure, Errors
<1>2. ASSUME NEW inner \in [Files -> Texts], NEW n \in Nat \ {0}
      PROVE  /\ Abstract!Meaning(D, f, n, inner) = Abstract!Meaning(D, f, 1, inner)
             /\ Abstract!Meaning(D, f, n, inner) \in Texts
             /\ Abstract!Meaning(D, f, n, inner) =
                   IF D[f] \in Docs THEN Abstract!Pasted(Abstract!Parts(D, f, inner)) ELSE Failure("parse")
  <2>1. D[f] \in Docs <=> D[f] \notin {Absent, Corrupt}
    BY ContentAssumption DEF Contents
  <2>2. Abstract!Meaning(D, f, n, inner) =
          IF D[f] \in {Absent, Corrupt} THEN Abstract!Failure("parse")
          ELSE Abstract!Pasted(Abstract!Parts(D, f, inner))
    BY DEF Abstract!Meaning
  <2>3. Abstract!Meaning(D, f, 1, inner) =
          IF D[f] \in {Absent, Corrupt} THEN Abstract!Failure("parse")
          ELSE Abstract!Pasted(Abstract!Parts(D, f, inner))
    BY DEF Abstract!Meaning
  <2>4. D[f] \in Docs => Abstract!Pasted(Abstract!Parts(D, f, inner)) \in Texts
    BY PartsTypes, PastedType
  <2>5. Failure("parse") \in Texts
    BY Failures DEF Errors
  <2> QED
    BY <2>1, <2>2, <2>3, <2>4, <2>5 DEF Failure
<1> QED
  BY <1>1, <1>2

\* The texts exist: with one more level of nesting they come from those without.
LEMMA TextDefined ==
  ASSUME IsFiniteSet(Files), NEW D \in Contents
  PROVE  /\ Nesting \in Nat \ {0} /\ Nesting = Cardinality(Files) + 1
         /\ \A n \in 0..Nesting : Text(D, n) \in [Files -> Texts]
         /\ \A f \in Files : Text(D, 0)[f] = Failure("cycle")
         /\ \A n \in 1..Nesting, f \in Files :
              Text(D, n)[f] = IF D[f] \in Docs THEN Abstract!Pasted(Abstract!Parts(D, f, Text(D, n - 1)))
                                               ELSE Failure("parse")
<1> DEFINE S == [Files -> Texts]
           first == [f \in Files |-> Abstract!Meaning(D, f, 0, <<>>)]
           step == [g \in S |-> [f \in Files |-> Abstract!Meaning(D, f, 1, g)]]
           Body(t) == [n \in 0..Nesting |-> [f \in Files |->
                         Abstract!Meaning(D, f, n, IF n = 0 THEN <<>> ELSE t[n - 1])]]
<1>1. Nesting \in Nat \ {0} /\ Nesting = Cardinality(Files) + 1
  <2>1. Cardinality(Files) \in Nat
    BY FS_CardinalityType
  <2>2. Nesting = Cardinality(Files) + 1
    BY DEF Nesting, Abstract!Nesting, Cardinality, Abstract!Cardinality
  <2> QED
    BY <2>1, <2>2
<1>2. first \in S
  BY MeaningTypes
<1>3. step \in [S -> S]
  <2>1. ASSUME NEW g \in S PROVE [f \in Files |-> Abstract!Meaning(D, f, 1, g)] \in S
    BY MeaningTypes
  <2> QED
    BY <2>1
<1>4. PICK t \in [0..Nesting -> S] : t[0] = first /\ \A n \in 1..Nesting : t[n] = step[t[n - 1]]
  <2> HIDE DEF first, step
  <2>1. Recursive(S, first, step, Nesting) # {}
    BY <1>1, <1>2, <1>3, RecursiveFunction
  <2> QED
    BY <2>1 DEF Recursive
<1>5. ASSUME NEW n \in 0..Nesting
      PROVE  t[n] = [f \in Files |-> Abstract!Meaning(D, f, n, IF n = 0 THEN <<>> ELSE t[n - 1])]
  <2>1. CASE n = 0
    BY <1>4, <2>1
  <2>2. CASE n # 0
    <3>1. n \in 1..Nesting /\ n - 1 \in 0..Nesting /\ n \in Nat \ {0}
      BY <1>1, <2>2
    <3>2. t[n - 1] \in S
      BY <1>4, <3>1
    <3>3. t[n] = [f \in Files |-> Abstract!Meaning(D, f, 1, t[n - 1])]
      BY <1>4, <3>1, <3>2
    <3>4. \A f \in Files : Abstract!Meaning(D, f, 1, t[n - 1]) = Abstract!Meaning(D, f, n, t[n - 1])
      BY <3>1, <3>2, MeaningTypes
    <3> QED
      BY <2>2, <3>3, <3>4
  <2> QED
    BY <2>1, <2>2
<1>6. t = Body(t)
  BY <1>4, <1>5
<1>7. Abstract!Text(D) = CHOOSE g : g = Body(g)
  BY DEF Abstract!Text, Nesting
<1> HIDE DEF Body
<1>8. Abstract!Text(D) = Body(Abstract!Text(D))
  BY <1>6, <1>7
<1>9. \A n \in 0..Nesting : Text(D, n) =
        [f \in Files |-> Abstract!Meaning(D, f, n, IF n = 0 THEN <<>> ELSE Text(D, n - 1))]
  BY <1>8 DEF Body, Text
<1> DEFINE T == {n \in 0..Nesting : Text(D, n) \in S}
<1>10. 0 \in T
  <2>1. 0 \in 0..Nesting
    BY <1>1
  <2> QED
    BY <1>2, <1>9, <2>1
<1>11. ASSUME NEW n \in 0..Nesting, n < Nesting, n \in T PROVE n + 1 \in T
  <2>1. n + 1 \in 0..Nesting /\ n + 1 \in Nat \ {0} /\ (n + 1) - 1 = n
    BY <1>1, <1>11
  <2>2. Text(D, n) \in S
    BY <1>11
  <2>3. Text(D, n + 1) = [f \in Files |-> Abstract!Meaning(D, f, n + 1, Text(D, n))]
    BY <1>9, <2>1
  <2>4. Text(D, n + 1) \in S
    BY <2>1, <2>2, <2>3, MeaningTypes
  <2> QED
    BY <2>1, <2>4
<1>12. 0..Nesting \subseteq T
  <2> HIDE DEF T
  <2> QED
    BY <1>1, <1>10, <1>11, Induction
<1>13. \A n \in 0..Nesting : Text(D, n) \in S
  BY <1>12
<1>14. ASSUME NEW f \in Files PROVE Text(D, 0)[f] = Failure("cycle")
  <2>1. 0 \in 0..Nesting
    BY <1>1
  <2> QED
    BY <1>9, <2>1, MeaningTypes
<1>15. ASSUME NEW n \in 1..Nesting, NEW f \in Files
       PROVE  Text(D, n)[f] = IF D[f] \in Docs THEN Abstract!Pasted(Abstract!Parts(D, f, Text(D, n - 1)))
                                               ELSE Failure("parse")
  <2>1. n \in 0..Nesting /\ n # 0 /\ n \in Nat \ {0} /\ n - 1 \in 0..Nesting
    BY <1>1
  <2>2. Text(D, n)[f] = Abstract!Meaning(D, f, n, Text(D, n - 1))
    BY <1>9, <2>1
  <2>3. Text(D, n - 1) \in S
    BY <1>13, <2>1
  <2> QED
    BY <2>1, <2>2, <2>3, MeaningTypes
<1> QED
  BY <1>1, <1>13, <1>14, <1>15


-----------------------------------------------------------------------------
(* Why a reported cycle is one.                                            *)

\* Where parts are as others that can be put together, or cycles, and one of them is a
\* cycle, the whole is.
LEMMA PastedCycle ==
  ASSUME NEW n \in Nat, NEW p \in [1..n -> Texts], NEW q \in [1..n -> Texts], NEW a \in 1..n,
         \A i \in 1..(a - 1) : p[i] = q[i] \/ p[i] = Failure("cycle"),
         Clean(q, a - 1), p[a] = Failure("cycle")
  PROVE  Abstract!Pasted(p) = Failure("cycle")
<1> DEFINE F == Abstract!Failing(p)
<1>1. a \in F
  BY Failures DEF Abstract!Failing, Errors
<1>2. F \in SUBSET Nat /\ \A i \in F : i \in 1..n
  BY DEF Abstract!Failing
<1>3. PICK m \in F : \A j \in F : m <= j
  <2> HIDE DEF F
  <2> QED
    BY <1>1, <1>2, Least
<1>4. m \in 1..n /\ m <= a /\ \A j \in 1..(m - 1) : j \notin F
  BY <1>1, <1>2, <1>3
<1>5. p[m] = Failure("cycle")
  <2>1. SUFFICES ASSUME p[m] # Failure("cycle") PROVE FALSE
    OBVIOUS
  <2>2. m \in 1..(a - 1)
    BY <1>4, <2>1
  <2>3. p[m] = q[m] /\ q[m].status = "ok" /\ ~Abstract!Clash(q, m)
    BY <2>1, <2>2 DEF Clean
  <2>4. Abstract!Clash(p, m)
    BY <1>3, <2>3 DEF Abstract!Failing
  <2>5. PICK k \in Keys : \E j \in 1..n : j < m /\ p[j].node[k] # NoFile /\ p[m].node[k] # NoFile
    BY <2>4 DEF Abstract!Clash, Abstract!Defining
  <2>6. PICK j \in 1..n : j < m /\ p[j].node[k] # NoFile
    BY <2>5
  <2>7. p[j] # Failure("cycle")
    BY <2>6, Failures DEF EmptyNode
  <2>8. p[j] = q[j]
    BY <2>2, <2>6, <2>7
  <2>9. Abstract!Clash(q, m)
    BY <2>3, <2>4, <2>5, <2>6, <2>8 DEF Abstract!Clash, Abstract!Defining
  <2> QED
    BY <2>3, <2>9
<1>6. Abstract!Pasted(p) = IF p[m].status # "ok" THEN p[m] ELSE Failure("conflict")
  BY <1>4, PastedFirst
<1> QED
  BY <1>5, <1>6, Failures DEF Errors

\* Parts that are as others or cycles make the same, or a cycle.
LEMMA PastedLess ==
  ASSUME NEW n \in Nat, NEW p \in [1..n -> Texts], NEW q \in [1..n -> Texts],
         \A i \in 1..n : p[i] = q[i] \/ p[i] = Failure("cycle")
  PROVE  Abstract!Pasted(p) = Abstract!Pasted(q) \/ Abstract!Pasted(p) = Failure("cycle")
<1> DEFINE G == {i \in 1..n : i \in Abstract!Failing(q) \/ p[i] # q[i]}
<1>1. CASE G = {}
  <2>1. p = q
    BY <1>1
  <2> QED
    BY <2>1
<1>2. CASE G # {}
  <2>1. G \in SUBSET Nat
    OBVIOUS
  <2>2. PICK m \in G : \A j \in G : m <= j
    <3> HIDE DEF G
    <3> QED
      BY <1>2, <2>1, Least
  <2>3. m \in 1..n /\ \A j \in 1..(m - 1) : j \notin Abstract!Failing(q) /\ p[j] = q[j]
    BY <2>2
  <2>4. CASE p[m] # q[m]
    <3>1. Clean(q, m - 1)
      BY <2>3 DEF Clean, Abstract!Failing
    <3>2. p[m] = Failure("cycle")
      BY <2>3, <2>4
    <3> QED
      BY <2>3, <3>1, <3>2, PastedCycle
  <2>5. CASE p[m] = q[m]
    <3>1. m \in Abstract!Failing(q)
      BY <2>2, <2>5
    <3>2. \A j \in 1..m : p[j] = q[j] /\ j \in 1..n
      BY <2>3, <2>5
    <3>3. ASSUME NEW i \in 1..m PROVE Abstract!Clash(p, i) <=> Abstract!Clash(q, i)
      <4>1. \A j \in 1..n : j < i => p[j] = q[j]
        BY <2>3, <3>2
      <4>2. p[i] = q[i] /\ i \in 1..n
        BY <3>2
      <4> QED
        BY <4>1, <4>2 DEF Abstract!Clash, Abstract!Defining
    <3>4. m \in Abstract!Failing(p) /\ \A j \in 1..(m - 1) : j \notin Abstract!Failing(p)
      BY <2>3, <3>1, <3>2, <3>3 DEF Abstract!Failing
    <3>5. Abstract!Pasted(p) = IF p[m].status # "ok" THEN p[m] ELSE Failure("conflict")
      BY <2>3, <3>4, PastedFirst
    <3>6. Abstract!Pasted(q) = IF q[m].status # "ok" THEN q[m] ELSE Failure("conflict")
      BY <2>3, <3>1, PastedFirst
    <3> QED
      BY <2>5, <3>5, <3>6
  <2> QED
    BY <2>4, <2>5
<1> QED
  BY <1>1, <1>2

\* So does a document, one of whose levels is less.
LEMMA PartsLess ==
  ASSUME NEW D \in Contents, NEW f \in Files, D[f] \in Docs,
         NEW inner \in [Files -> Texts], NEW other \in [Files -> Texts],
         \A g \in Files : inner[g] = other[g] \/ inner[g] = Failure("cycle")
  PROVE  \A i \in 1..Len(D[f]) :
           \/ Abstract!Parts(D, f, inner)[i] = Abstract!Parts(D, f, other)[i]
           \/ Abstract!Parts(D, f, inner)[i] = Failure("cycle")
<1> SUFFICES ASSUME NEW i \in 1..Len(D[f])
             PROVE  \/ Abstract!Parts(D, f, inner)[i] = Abstract!Parts(D, f, other)[i]
                    \/ Abstract!Parts(D, f, inner)[i] = Failure("cycle")
  OBVIOUS
<1>1. D[f] \in Seq(Entry) /\ i \in DOMAIN D[f]
  BY DocsAssumption, PartsTypes
<1>2. PICK e \in Entry : e = D[f][i]
  BY <1>1, ElementOfSeq
<1>3. e.follow => e.to \in Files
  BY DEF Entry, Follow, Define
<1>4. /\ Abstract!Parts(D, f, inner)[i] = Abstract!Part(D, f, e, inner)
      /\ Abstract!Parts(D, f, other)[i] = Abstract!Part(D, f, e, other)
  BY <1>1, <1>2 DEF Abstract!Parts
<1>5. \/ Abstract!Part(D, f, e, inner) = Abstract!Part(D, f, e, other)
      \/ Abstract!Part(D, f, e, inner) = Failure("cycle")
  BY <1>3 DEF Abstract!Part
<1> QED
  BY <1>4, <1>5

\* With fewer levels of nesting, a file stands for the same or for a cycle.
LEMMA TextLess ==
  ASSUME IsFiniteSet(Files), NEW D \in Contents, NEW n \in 0..Nesting, NEW m \in 0..n
  PROVE  \A f \in Files : Text(D, m)[f] = Text(D, n)[f] \/ Text(D, m)[f] = Failure("cycle")
<1> DEFINE Less(i, j) == \A f \in Files : Text(D, i)[f] = Text(D, j)[f] \/ Text(D, i)[f] = Failure("cycle")
           T == {k \in 0..Nesting : k < Nesting => Less(k, k + 1)}
<1>0. Nesting \in Nat \ {0}
  BY TextDefined
<1>1. 0 \in T
  BY <1>0, TextDefined
<1>2. ASSUME NEW k \in 0..Nesting, k < Nesting, k \in T PROVE k + 1 \in T
  <2> SUFFICES ASSUME k + 1 < Nesting, NEW f \in Files
               PROVE  Text(D, k + 1)[f] = Text(D, (k + 1) + 1)[f] \/ Text(D, k + 1)[f] = Failure("cycle")
    BY <1>0, <1>2
  <2>1. /\ k + 1 \in 1..Nesting /\ (k + 1) + 1 \in 1..Nesting /\ k + 1 \in 0..Nesting
        /\ (k + 1) - 1 = k /\ ((k + 1) + 1) - 1 = k + 1
    BY <1>0
  <2>2. /\ Text(D, k) \in [Files -> Texts] /\ Text(D, k + 1) \in [Files -> Texts]
        /\ Less(k, k + 1)
    BY <1>2, <2>1, TextDefined
  <2>3. CASE D[f] \in Docs
    <3> DEFINE p == Abstract!Parts(D, f, Text(D, k))
               q == Abstract!Parts(D, f, Text(D, k + 1))
    <3>1. Text(D, k + 1)[f] = Abstract!Pasted(p) /\ Text(D, (k + 1) + 1)[f] = Abstract!Pasted(q)
      BY <2>1, <2>3, TextDefined
    <3>2. /\ Len(D[f]) \in Nat /\ p \in [1..Len(D[f]) -> Texts] /\ q \in [1..Len(D[f]) -> Texts]
      BY <2>2, <2>3, PartsTypes
    <3>3. \A i \in 1..Len(D[f]) : p[i] = q[i] \/ p[i] = Failure("cycle")
      BY <2>2, <2>3, PartsLess
    <3> HIDE DEF p, q
    <3> QED
      BY <3>1, <3>2, <3>3, PastedLess
  <2>4. CASE D[f] \notin Docs
    BY <2>1, <2>4, TextDefined
  <2> QED
    BY <2>3, <2>4
<1>3. 0..Nesting \subseteq T
  <2> HIDE DEF T
  <2> QED
    BY <1>0, <1>1, <1>2, Induction
<1>4. ASSUME NEW k \in 0..Nesting, k < Nesting PROVE Less(k, k + 1)
  BY <1>3, <1>4
<1> DEFINE U == {k \in 0..Nesting : m <= k => Less(m, k)}
<1> HIDE DEF Less
<1>5. 0 \in U
  <2>1. m <= 0 => m = 0
    OBVIOUS
  <2> QED
    BY <1>0, <2>1 DEF Less
<1>6. ASSUME NEW k \in 0..Nesting, k < Nesting, k \in U PROVE k + 1 \in U
  <2>1. k + 1 \in 0..Nesting
    BY <1>0, <1>6
  <2>2. CASE m = k + 1
    BY <2>1, <2>2 DEF Less
  <2>3. CASE m <= k
    <3>1. Less(m, k) /\ Less(k, k + 1)
      BY <1>4, <1>6, <2>3
    <3>2. Less(m, k + 1)
      BY <3>1 DEF Less
    <3> QED
      BY <2>1, <3>2
  <2>4. CASE ~(m <= k + 1)
    BY <2>1, <2>4
  <2> QED
    BY <2>2, <2>3, <2>4
<1>7. 0..Nesting \subseteq U
  <2> HIDE DEF U
  <2> QED
    BY <1>0, <1>5, <1>6, Induction
<1>8. Less(m, n)
  BY <1>7
<1> QED
  BY <1>8 DEF Less


-----------------------------------------------------------------------------
(* What the invariant says of the open documents.                          *)

\* An open document, what its entries stand for, and how that is put together.
LEMMA Opened ==
  ASSUME IsFiniteSet(Files), DInv, NEW t \in Threads, NEW i \in 1..Len(frames[t])
  PROVE  LET frame == frames[t][i]
             parts == Pieces(disk, frame.file, i)
         IN /\ disk \in Contents /\ frame \in Frame /\ frame.file \in Files /\ frame.doc \in Docs
            /\ frame.doc = disk[frame.file] /\ (frame.folders <=> Kind[frame.file] = "schema")
            /\ Len(frame.doc) \in Nat /\ frame.at \in Nat \ {0} /\ frame.node \in Node
            /\ Len(frames[t]) \in Nat /\ Nesting \in Nat /\ Len(frames[t]) <= Nesting
            /\ Nesting - i \in 0..Nesting /\ Nesting - i + 1 \in 1..Nesting
            /\ parts \in [1..Len(frame.doc) -> Texts]
            /\ \A j \in 1..Len(frame.doc) :
                 /\ frame.doc[j] \in Entry
                 /\ parts[j] = Abstract!Part(disk, frame.file, frame.doc[j], Text(disk, Nesting - i))
            /\ Text(disk, Nesting - i + 1)[frame.file] = Abstract!Pasted(parts)
<1> DEFINE frame == frames[t][i]
           parts == Pieces(disk, frame.file, i)
<1>1. disk \in Contents /\ frames[t] \in Seq(Frame)
  BY DEF DInv, IInv, TypeOK, Contents
<1>2. Len(frames[t]) \in Nat /\ frame \in Frame
  BY <1>1, ElementOfSeq
<1>3. Nesting \in Nat /\ Nesting = Cardinality(Files) + 1 /\ Len(frames[t]) <= Nesting
  BY <1>1, TextDefined, GuardsBounded DEF DInv
<1>4. Nesting - i \in 0..Nesting /\ Nesting - i + 1 \in 1..Nesting /\ (Nesting - i + 1) - 1 = Nesting - i
  BY <1>2, <1>3
<1>5. /\ frame.file \in Files /\ frame.doc \in Docs /\ frame.at \in Nat \ {0} /\ frame.node \in Node
  BY <1>2 DEF Frame
<1>6. frame.doc = disk[frame.file] /\ (frame.folders <=> Kind[frame.file] = "schema")
  <2>1. Running(t)
    BY DEF DInv
  <2>2. Walked(disk, frame, i, Done(t, i))
    BY <2>1 DEF Running, Built
  <2> QED
    BY <2>2 DEF Walked
<1>7. Text(disk, Nesting - i) \in [Files -> Texts]
  BY <1>1, <1>4, TextDefined
<1>8. /\ Len(frame.doc) \in Nat /\ DOMAIN frame.doc = 1..Len(frame.doc)
      /\ parts \in [1..Len(frame.doc) -> Texts]
  BY <1>1, <1>5, <1>6, <1>7, PartsTypes DEF Pieces
<1>9. ASSUME NEW j \in 1..Len(frame.doc)
      PROVE  /\ frame.doc[j] \in Entry
             /\ parts[j] = Abstract!Part(disk, frame.file, frame.doc[j], Text(disk, Nesting - i))
  <2>1. frame.doc \in Seq(Entry)
    BY <1>5, DocsAssumption
  <2>2. frame.doc[j] \in Entry
    BY <2>1, ElementOfSeq
  <2> QED
    BY <1>6, <1>8, <2>2 DEF Pieces, Abstract!Parts
<1>10. Text(disk, Nesting - i + 1)[frame.file] = Abstract!Pasted(parts)
  <2>1. PICK n \in 1..Nesting : n = Nesting - i + 1 /\ n - 1 = Nesting - i
    BY <1>4
  <2>2. Text(disk, n)[frame.file] = Abstract!Pasted(Abstract!Parts(disk, frame.file, Text(disk, n - 1)))
    BY <1>1, <1>5, <1>6, TextDefined
  <2> QED
    BY <2>1, <2>2 DEF Pieces
<1> QED
  BY <1>1, <1>2, <1>3, <1>4, <1>5, <1>6, <1>8, <1>9, <1>10

\* An entry that follows a file stands for what the file does.
LEMMA Waiting ==
  ASSUME NEW D, NEW frame, NEW f, NEW inner, Waits(D, frame, f),
         frame.folders <=> Kind[frame.file] = "schema"
  PROVE  Abstract!Part(D, frame.file, frame.doc[frame.at], inner) = inner[f]
<1>1. frame.doc[frame.at].follow /\ frame.doc[frame.at].to = f
  BY DEF Waits, Suspended, Follow
<1> QED
  BY <1>1 DEF Waits, Abstract!Part

\* The innermost one.
LEMMA TopOpened ==
  ASSUME IsFiniteSet(Files), DInv, NEW t \in Threads, frames[t] # <<>>
  PROVE  /\ Len(frames[t]) \in 1..Len(frames[t]) /\ Top(t) = frames[t][Len(frames[t])]
         /\ Walked(disk, Top(t), Len(frames[t]), Done(t, Len(frames[t])))
<1>1. frames[t] \in Seq(Frame)
  BY DEF DInv, IInv, TypeOK
<1>2. Len(frames[t]) \in 1..Len(frames[t])
  BY <1>1, EmptySeq
<1> QED
  BY <1>2 DEF Top, DInv, Running, Built

\* A file that is being followed, and is followed again, stands for a cycle: every
\* document of the chain is put together up to the entry that follows the next one.
LEMMA CycleText ==
  ASSUME IsFiniteSet(Files), DInv, NEW t \in Threads, pc[t] = "guard", InStack(t, target[t])
  PROVE  Text(disk, Nesting - Len(frames[t]))[target[t]] = Failure("cycle")
<1> DEFINE L == Len(frames[t])
           file(i) == frames[t][i].file
           next(i) == IF i < L THEN file(i + 1) ELSE target[t]
<1>1. /\ frames[t] # <<>> /\ L \in Nat \ {0} /\ Depth(t) = L - 1
      /\ Len(follow_stack[t]) = L - 1
  BY Open DEF DInv, GuardAlive
<1>2. PICK first \in 2..L : file(first) = target[t]
  <2>1. PICK i \in 1..L - 1 : follow_stack[t][i] = target[t]
    BY <1>1 DEF InStack
  <2>2. file(i + 1) = target[t] /\ i + 1 \in 2..L
    BY <1>1, <2>1, Own_t DEF DInv, Local, GuardsMatch
  <2> QED
    BY <2>2
<1>3. disk \in Contents /\ Nesting \in Nat /\ L <= Nesting
  BY <1>2, Opened
<1>4. ASSUME NEW i \in first..L PROVE Waits(disk, frames[t][i], next(i))
  <2>1. CASE i < L
    <3>1. i \in 1..L - 1
      BY <1>1, <2>1
    <3> QED
      BY <2>1, <3>1 DEF DInv, Running, Built
  <2>2. CASE i = L
    BY <1>1, <2>2, TopOpened DEF DInv, Running, Follows, Following
  <2> QED
    BY <1>1, <2>1, <2>2
<1>5. \A i \in first..L : \E j \in first..L : next(i) = file(j)
  <2> SUFFICES ASSUME NEW i \in first..L PROVE \E j \in first..L : next(i) = file(j)
    OBVIOUS
  <2>1. CASE i < L
    <3>1. i + 1 \in first..L
      BY <1>1, <2>1
    <3> QED
      BY <2>1, <3>1
  <2>2. CASE ~(i < L)
    <3>1. first \in first..L
      BY <1>1
    <3> QED
      BY <1>2, <2>2, <3>1
  <2> QED
    BY <2>1, <2>2
<1> DEFINE Cycle(n) == \A i \in first..L : Text(disk, n)[file(i)] = Failure("cycle")
           T == {n \in 0..(Nesting - L) : Cycle(n)}
<1>6. 0 \in T
  <2>1. ASSUME NEW i \in first..L PROVE file(i) \in Files
    <3>1. i \in 1..L
      BY <1>1
    <3> QED
      BY <3>1, Opened
  <2>3. 0 \in 0..(Nesting - L)
    BY <1>1, <1>3
  <2>2. Cycle(0)
    BY <1>3, <2>1, TextDefined
  <2> QED
    BY <2>2, <2>3
<1>7. ASSUME NEW n \in 0..(Nesting - L), n < Nesting - L, n \in T PROVE n + 1 \in T
  <2>1. Cycle(n) /\ n + 1 \in 0..(Nesting - L) /\ n + 1 \in 1..Nesting /\ (n + 1) - 1 = n
    BY <1>1, <1>3, <1>7
  <2>2. ASSUME NEW i \in first..L PROVE Text(disk, n + 1)[file(i)] = Failure("cycle")
    <3> DEFINE frame == frames[t][i]
               p == Abstract!Parts(disk, frame.file, Text(disk, n))
               q == Pieces(disk, frame.file, i)
    <3>1. i \in 1..L
      BY <1>1
    <3>2. /\ frame.file \in Files /\ frame.doc \in Docs /\ frame.doc = disk[frame.file]
          /\ Len(frame.doc) \in Nat /\ frame.at \in Nat \ {0} /\ Nesting - i \in 0..Nesting
          /\ q \in [1..Len(frame.doc) -> Texts]
      BY <3>1, Opened
    <3>3. n \in 0..Nesting /\ n \in 0..(Nesting - i)
      BY <1>1, <1>3, <2>1
    <3>4. Text(disk, n) \in [Files -> Texts] /\ Text(disk, Nesting - i) \in [Files -> Texts]
      BY <1>3, <3>2, <3>3, TextDefined
    <3>5. \A g \in Files : \/ Text(disk, n)[g] = Text(disk, Nesting - i)[g]
                           \/ Text(disk, n)[g] = Failure("cycle")
      BY <1>3, <3>2, <3>3, TextLess
    <3>6. \A j \in 1..Len(frame.doc) : p[j] = q[j] \/ p[j] = Failure("cycle")
      <4>1. q = Abstract!Parts(disk, frame.file, Text(disk, Nesting - i))
        BY DEF Pieces
      <4>2. PICK inner \in [Files -> Texts] : inner = Text(disk, n)
        BY <3>4
      <4>3. PICK other \in [Files -> Texts] : other = Text(disk, Nesting - i)
        BY <3>4
      <4>4. \A g \in Files : inner[g] = other[g] \/ inner[g] = Failure("cycle")
        BY <3>5, <4>2, <4>3
      <4>5. disk[frame.file] \in Docs /\ Len(disk[frame.file]) = Len(frame.doc)
        BY <3>2
      <4>6. p = Abstract!Parts(disk, frame.file, inner) /\ q = Abstract!Parts(disk, frame.file, other)
        BY <4>1, <4>2, <4>3
      <4> HIDE DEF frame, p, q
      <4>7. \A j \in 1..Len(disk[frame.file]) :
              \/ Abstract!Parts(disk, frame.file, inner)[j] = Abstract!Parts(disk, frame.file, other)[j]
              \/ Abstract!Parts(disk, frame.file, inner)[j] = Failure("cycle")
        BY <1>3, <3>2, <4>4, <4>5, PartsLess
      <4> QED
        BY <4>5, <4>6, <4>7
    <3>7. p \in [1..Len(frame.doc) -> Texts]
      BY <1>3, <3>2, <3>4, PartsTypes
    <3>8. Clean(q, frame.at - 1)
      <4>1. Done(t, i) = frame.at - 1
        BY DEF Done
      <4> QED
        BY <3>1, <4>1 DEF DInv, Running, Built, Walked
    <3>9. frame.at \in 1..Len(frame.doc) /\ Waits(disk, frame, next(i))
      BY <1>4, <3>2 DEF Waits, Suspended
    <3>10. p[frame.at] = Failure("cycle")
      <4>1. frame.folders <=> Kind[frame.file] = "schema"
        BY <3>1, Opened
      <4>2. p[frame.at] = Abstract!Part(disk, frame.file, frame.doc[frame.at], Text(disk, n))
        <5>1. DOMAIN disk[frame.file] = 1..Len(frame.doc)
          BY <1>3, <3>2, <3>4, PartsTypes
        <5> QED
          BY <3>2, <3>9, <5>1 DEF Abstract!Parts
      <4>3. Abstract!Part(disk, frame.file, frame.doc[frame.at], Text(disk, n)) = Text(disk, n)[next(i)]
        <5> HIDE DEF frame, next
        <5> QED
          BY <3>9, <4>1, Waiting
      <4>4. Text(disk, n)[next(i)] = Failure("cycle")
        BY <1>5, <2>1
      <4> QED
        BY <4>2, <4>3, <4>4
    <3> HIDE DEF p, q
    <3>11. Abstract!Pasted(p) = Failure("cycle")
      <4>1. \A j \in 1..(frame.at - 1) : p[j] = q[j] \/ p[j] = Failure("cycle")
        <5> HIDE DEF frame
        <5>1. 1..(frame.at - 1) \subseteq 1..Len(frame.doc)
          BY <3>2, <3>9
        <5> QED
          BY <3>6, <5>1
      <4> QED
        BY <3>2, <3>7, <3>8, <3>9, <3>10, <4>1, PastedCycle
    <3>12. n + 1 \in 1..Nesting /\ (n + 1) - 1 = n
      BY <1>1, <1>3, <2>1
    <3>13. Text(disk, n + 1)[frame.file] = Abstract!Pasted(Abstract!Parts(disk, frame.file, Text(disk, n)))
      <4> HIDE DEF frame
      <4> QED
        BY <1>3, <3>2, <3>12, TextDefined
    <3> QED
      BY <3>11, <3>13 DEF p
  <2> QED
    BY <2>1, <2>2
<1>8. 0..(Nesting - L) \subseteq T
  <2>1. Nesting - L \in Nat
    BY <1>1, <1>3
  <2> HIDE DEF T
  <2> QED
    BY <1>6, <1>7, <2>1, Induction
<1>9. Nesting - L \in T
  BY <1>1, <1>3, <1>8
<1> QED
  BY <1>1, <1>2, <1>9


-----------------------------------------------------------------------------
(* How a step changes what the invariant says of the open documents.       *)

\* What is said of a thread depends on that thread's variables and the file system.
LEMMA SameRunning ==
  ASSUME NEW u \in Threads, Same(u), returned'[u] = returned[u], disk' = disk, Running(u)
  PROVE  Running(u)'
<1>1. \A i : Done(u, i)' = Done(u, i)
  BY DEF Done, Same
<1>2. Built(u)'
  BY <1>1 DEF Running, Built, Same
<1>3. Starts(u)'
  BY DEF Running, Starts, Same
<1>4. Follows(u)'
  BY DEF Running, Follows, Same, Top
<1>5. Raises(u)'
  BY DEF Running, Raises, Same, Top
<1> QED
  BY <1>2, <1>3, <1>4, <1>5 DEF Running

\* So a step is a matter of the thread that moves.
LEMMA OthersRunning ==
  ASSUME DInv, IInv', NEW t \in Threads, disk' = disk,
         Step(t) \/ \E f \in Files : Call(t, f), Running(t)'
  PROVE  DInv'
<1> SUFFICES ASSUME NEW u \in Threads, u # t PROVE Running(u)'
  BY DEF DInv
<1>1. Same(u)
  BY OthersSame DEF DInv, IInv
<1>2. returned'[u] = returned[u]
  <2>1. returned \in [Threads -> Node]
    BY DEF DInv, IInv, TypeOK
  <2> QED
    BY <2>1 DEF Step, Call, LoadFile, AddEntry, Resolve, Guard, Return, MergeChild, Unguard, Unwind
<1> QED
  BY <1>1, <1>2, SameRunning DEF DInv

\* A step that leaves the open documents.
LEMMA BuiltSame ==
  ASSUME NEW t \in Threads, Built(t), disk' = disk, frames'[t] = frames[t],
         frames[t] # <<>> => root'[t] = root[t],
         (pc'[t] = "unguard" /\ error'[t] = "none") <=> (pc[t] = "unguard" /\ error[t] = "none")
  PROVE  Built(t)'
<1>1. \A i : Done(t, i)' = Done(t, i)
  BY DEF Done
<1> QED
  BY <1>1 DEF Built

\* A step that goes on in the innermost document.
LEMMA BuiltTop ==
  ASSUME DInv, NEW t \in Threads, disk' = disk, root' = root, frames[t] # <<>>,
         NEW frame \in Frame, frame.file = Top(t).file, ReplaceTop(t, frame),
         pc[t] \notin {"idle", "load"},
         NEW n, n = IF pc'[t] = "unguard" /\ error'[t] = "none" THEN frame.at ELSE frame.at - 1,
         Walked(disk, frame, Len(frames[t]), n)
  PROVE  Built(t)' /\ Top(t)' = frame /\ Len(frames'[t]) = Len(frames[t]) /\ frames'[t] # <<>>
<1> DEFINE L == Len(frames[t])
<1>1. /\ frames'[t] # <<>> /\ Len(frames'[t]) = L
      /\ \A i \in 1..L - 1 : frames'[t][i] = frames[t][i]
      /\ frames'[t][L] = frame
      /\ \A i \in 1..L : frames'[t][i].file = frames[t][i].file
  BY ReplaceTopFacts DEF DInv
<1>2. L \in Nat \ {0}
  BY Open DEF DInv
<1>3. ASSUME NEW i \in 1..L PROVE Walked(disk, frames'[t][i], i, Done(t, i)')
  <2>1. CASE i = L
    <3>1. Done(t, i)' = n
      BY <1>1, <2>1 DEF Done
    <3> QED
      BY <1>1, <2>1, <3>1
  <2>2. CASE i # L
    <3>1. i \in 1..L - 1
      BY <1>2, <2>2
    <3>2. Done(t, i)' = Done(t, i)
      BY <1>1, <2>2, <3>1 DEF Done
    <3> QED
      BY <1>1, <3>1, <3>2 DEF DInv, Running, Built
  <2> QED
    BY <2>1, <2>2
<1>4. ASSUME NEW i \in 1..L - 1 PROVE Waits(disk, frames'[t][i], frames'[t][i + 1].file)
  <2>1. i + 1 \in 1..L
    BY <1>2
  <2> QED
    BY <1>1, <2>1 DEF DInv, Running, Built
<1>5. frames'[t][1].file = root[t]
  <2>1. 1 \in 1..L
    BY <1>2
  <2> QED
    BY <1>1, <2>1 DEF DInv, Running, Built
<1> QED
  BY <1>1, <1>3, <1>4, <1>5 DEF Built, Top

\* A step that opens a document.
LEMMA BuiltPush ==
  ASSUME DInv, NEW t \in Threads, disk' = disk, root' = root, pc[t] = "load", pc'[t] = "flatten",
         NEW frame \in Frame, frame.file = target[t], frame.at = 1,
         frames'[t] = Append(frames[t], frame),
         Walked(disk, frame, Len(frames[t]) + 1, 0)
  PROVE  Built(t)'
<1> DEFINE L == Len(frames[t])
<1>1. frames[t] \in Seq(Frame) /\ L \in Nat
  BY DEF DInv, IInv, TypeOK
<1>2. /\ Len(frames'[t]) = L + 1
      /\ \A i \in 1..L : frames'[t][i] = frames[t][i]
      /\ frames'[t][L + 1] = frame
  BY <1>1, PushProperties
<1>3. ASSUME NEW i \in 1..L + 1 PROVE Walked(disk, frames'[t][i], i, Done(t, i)')
  <2>1. CASE i = L + 1
    <3>1. Done(t, i)' = 0
      BY <1>2, <2>1 DEF Done
    <3> QED
      BY <1>2, <2>1, <3>1
  <2>2. CASE i # L + 1
    <3>1. i \in 1..L
      BY <1>1, <2>2
    <3>2. Done(t, i)' = Done(t, i)
      BY <1>2, <3>1 DEF Done
    <3> QED
      BY <1>2, <3>1, <3>2 DEF DInv, Running, Built
  <2> QED
    BY <2>1, <2>2
<1>4. ASSUME NEW i \in 1..L PROVE Waits(disk, frames'[t][i], frames'[t][i + 1].file)
  <2>1. CASE i = L
    <3>1. frames[t] # <<>>
      BY <1>1, <2>1
    <3> QED
      BY <1>2, <2>1, <3>1 DEF DInv, Running, Follows, Following, Top
  <2>2. CASE i # L
    <3>1. i \in 1..L - 1 /\ i + 1 \in 1..L
      BY <1>1, <2>2
    <3> QED
      BY <1>2, <3>1 DEF DInv, Running, Built
  <2> QED
    BY <2>1, <2>2
<1>5. frames'[t][1].file = root[t]
  <2>1. CASE frames[t] = <<>>
    BY <1>2, <2>1 DEF DInv, Running, Starts
  <2>2. CASE frames[t] # <<>>
    <3>1. 1 \in 1..L
      BY <1>1, <2>2, EmptySeq
    <3> QED
      BY <1>2, <2>2, <3>1 DEF DInv, Running, Built
  <2> QED
    BY <2>1, <2>2
<1>6. Len(frames'[t]) - 1 = L
  BY <1>1, <1>2
<1> QED
  BY <1>2, <1>3, <1>4, <1>5, <1>6 DEF Built

\* A step that leaves a document that another one follows.
LEMMA BuiltPop ==
  ASSUME DInv, NEW t \in Threads, disk' = disk, pc[t] \in {"flatten", "unwind"},
         frames' = [frames EXCEPT ![t] = Pop(@)],
         Len(frames[t]) # 1, root' = root, pc'[t] # "unguard" \/ error'[t] # "none"
  PROVE  /\ Built(t)' /\ Waits(disk, Top(t)', Top(t).file)
         /\ Len(frames'[t]) = Len(frames[t]) - 1 /\ frames'[t] # <<>>
         /\ Len(frames[t]) \in Nat \ {0, 1} /\ Top(t)' = frames[t][Len(frames[t]) - 1]
<1> DEFINE L == Len(frames[t])
<1>1. /\ Len(frames'[t]) = L - 1
      /\ \A i \in 1..L - 1 : frames'[t][i] = frames[t][i]
      /\ frames'[t] # <<>>
  BY PopFrameFacts DEF DInv
<1>2. L \in Nat \ {0, 1}
  BY Open DEF DInv
<1>3. ASSUME NEW i \in 1..L - 1
      PROVE  /\ Walked(disk, frames'[t][i], i, Done(t, i)')
             /\ Waits(disk, frames'[t][i], frames[t][i + 1].file)
  <2>1. Done(t, i)' = Done(t, i)
    BY <1>1, <1>2 DEF Done
  <2>2. i \in 1..L
    BY <1>2
  <2> QED
    BY <1>1, <2>1, <2>2 DEF DInv, Running, Built
<1>4. /\ L - 1 \in 1..L - 1 /\ (L - 1) + 1 = L /\ 1 \in 1..L - 1
      /\ \A i \in 1..(L - 1) - 1 : i \in 1..L - 1 /\ i + 1 \in 1..L - 1
  <2>1. PICK n \in Nat \ {0, 1} : n = L
    BY <1>2
  <2>2. n - 1 \in 1..n - 1 /\ (n - 1) + 1 = n /\ 1 \in 1..n - 1
    BY AtLeastTwo
  <2>3. \A i \in 1..(n - 1) - 1 : i \in 1..n - 1 /\ i + 1 \in 1..n - 1
    OBVIOUS
  <2> QED
    BY <2>1, <2>2, <2>3
<1>5. Top(t)' = frames[t][L - 1]
  BY <1>1, <1>4 DEF Top
<1>6. Waits(disk, Top(t)', Top(t).file)
  BY <1>1, <1>3, <1>4, <1>5 DEF Top
<1>7. ASSUME NEW i \in 1..(L - 1) - 1 PROVE Waits(disk, frames'[t][i], frames'[t][i + 1].file)
  BY <1>1, <1>3, <1>4
<1>8. frames'[t][1].file = root[t]
  BY <1>1, <1>2, <1>4, EmptySeq DEF DInv, Running, Built
<1>9. Built(t)'
  BY <1>1, <1>3, <1>7, <1>8 DEF Built
<1> QED
  BY <1>1, <1>2, <1>5, <1>6, <1>9


-----------------------------------------------------------------------------
(* What the next entry of an open document does to it.                     *)

\* The entry that stands for a failure is the first one that fails.
LEMMA Failed ==
  ASSUME IsFiniteSet(Files), DInv, NEW t \in Threads, NEW i \in 1..Len(frames[t]),
         frames[t][i].at <= Len(frames[t][i].doc), Done(t, i) = frames[t][i].at - 1,
         NEW e, Pieces(disk, frames[t][i].file, i)[frames[t][i].at] = Failure(e)
  PROVE  Fails(Pieces(disk, frames[t][i].file, i), frames[t][i].at, e)
<1>1. /\ Pieces(disk, frames[t][i].file, i) \in [1..Len(frames[t][i].doc) -> Texts]
      /\ frames[t][i].at \in Nat \ {0} /\ Len(frames[t][i].doc) \in Nat
  BY Opened
<1>2. Clean(Pieces(disk, frames[t][i].file, i), frames[t][i].at - 1)
  BY DEF DInv, Running, Built, Walked
<1> QED
  BY <1>1, <1>2 DEF Fails

\* An open document that waits for another one: its next entry stands for that one.
LEMMA Awaited ==
  ASSUME IsFiniteSet(Files), DInv, NEW t \in Threads, NEW i \in 1..Len(frames[t]), NEW f,
         Waits(disk, frames[t][i], f)
  PROVE  /\ frames[t][i].at \in 1..Len(frames[t][i].doc) /\ frames[t][i].at <= Len(frames[t][i].doc)
         /\ Pieces(disk, frames[t][i].file, i)[frames[t][i].at] = Text(disk, Nesting - i)[f]
<1>1. /\ frames[t][i].at \in Nat \ {0} /\ Len(frames[t][i].doc) \in Nat
      /\ frames[t][i].folders <=> Kind[frames[t][i].file] = "schema"
  BY Opened
<1>2. frames[t][i].at \in 1..Len(frames[t][i].doc) /\ frames[t][i].at <= Len(frames[t][i].doc)
  BY <1>1 DEF Waits, Suspended
<1>3. Pieces(disk, frames[t][i].file, i)[frames[t][i].at] =
        Abstract!Part(disk, frames[t][i].file, frames[t][i].doc[frames[t][i].at], Text(disk, Nesting - i))
  BY <1>2, Opened
<1>4. Abstract!Part(disk, frames[t][i].file, frames[t][i].doc[frames[t][i].at], Text(disk, Nesting - i)) =
        Text(disk, Nesting - i)[f]
  <2>1. PICK frame : frame = frames[t][i]
    OBVIOUS
  <2>2. PICK inner : inner = Text(disk, Nesting - i)
    OBVIOUS
  <2>3. Abstract!Part(disk, frame.file, frame.doc[frame.at], inner) = inner[f]
    <3>1. Waits(disk, frame, f) /\ (frame.folders <=> Kind[frame.file] = "schema")
      BY <1>1, <2>1
    <3> QED
      BY <3>1, Waiting
  <2> QED
    BY <2>1, <2>2, <2>3
<1> QED
  BY <1>2, <1>3, <1>4

\* The same of the innermost document.
LEMMA TopAwaited ==
  ASSUME IsFiniteSet(Files), DInv, NEW t \in Threads, frames[t] # <<>>, NEW f,
         Waits(disk, Top(t), f)
  PROVE  /\ Top(t).at \in 1..Len(Top(t).doc) /\ Top(t).at <= Len(Top(t).doc)
         /\ Pieces(disk, Top(t).file, Len(frames[t]))[Top(t).at] =
              Text(disk, Nesting - Len(frames[t]))[f]
<1>1. PICK i \in 1..Len(frames[t]) : i = Len(frames[t]) /\ Top(t) = frames[t][i]
  BY TopOpened
<1>2. Waits(disk, frames[t][i], f)
  BY <1>1
<1>3. /\ frames[t][i].at \in 1..Len(frames[t][i].doc) /\ frames[t][i].at <= Len(frames[t][i].doc)
      /\ Pieces(disk, frames[t][i].file, i)[frames[t][i].at] = Text(disk, Nesting - i)[f]
  BY <1>2, Awaited
<1> QED
  BY <1>1, <1>3

\* What the innermost document amounts to.
LEMMA TopText ==
  ASSUME IsFiniteSet(Files), DInv, NEW t \in Threads, frames[t] # <<>>
  PROVE  /\ Len(Top(t).doc) \in Nat /\ Top(t).at \in Nat \ {0} /\ Nesting \in Nat
         /\ Pieces(disk, Top(t).file, Len(frames[t])) \in [1..Len(Top(t).doc) -> Texts]
         /\ Text(disk, Nesting - Len(frames[t]) + 1)[Top(t).file] =
              Abstract!Pasted(Pieces(disk, Top(t).file, Len(frames[t])))
<1>1. Len(frames[t]) \in 1..Len(frames[t]) /\ Top(t) = frames[t][Len(frames[t])]
  BY TopOpened
<1>2. PICK i \in 1..Len(frames[t]) : i = Len(frames[t])
  BY <1>1
<1>3. /\ Len(frames[t][i].doc) \in Nat /\ frames[t][i].at \in Nat \ {0} /\ Nesting \in Nat
      /\ Pieces(disk, frames[t][i].file, i) \in [1..Len(frames[t][i].doc) -> Texts]
      /\ Text(disk, Nesting - i + 1)[frames[t][i].file] = Abstract!Pasted(Pieces(disk, frames[t][i].file, i))
  BY Opened
<1> QED
  BY <1>1, <1>2, <1>3

\* What the entry at which the innermost document stands means.
LEMMA CurrentPart ==
  ASSUME IsFiniteSet(Files), DInv, NEW t \in Threads, frames[t] # <<>>, Top(t).at <= Len(Top(t).doc)
  PROVE  Pieces(disk, Top(t).file, Len(frames[t]))[Top(t).at] =
           Abstract!Part(disk, Top(t).file, Current(t), Text(disk, Nesting - Len(frames[t])))
<1>1. Len(frames[t]) \in 1..Len(frames[t]) /\ Top(t) = frames[t][Len(frames[t])]
  BY TopOpened
<1>2. PICK i \in 1..Len(frames[t]) : i = Len(frames[t])
  BY <1>1
<1>3. frames[t][i].at \in Nat \ {0} /\ Len(frames[t][i].doc) \in Nat
  BY Opened
<1>4. frames[t][i].at \in 1..Len(frames[t][i].doc)
  BY <1>1, <1>2, <1>3
<1>5. Pieces(disk, frames[t][i].file, i)[frames[t][i].at] =
        Abstract!Part(disk, frames[t][i].file, frames[t][i].doc[frames[t][i].at], Text(disk, Nesting - i))
  BY <1>4, Opened
<1> QED
  BY <1>1, <1>2, <1>5 DEF Current

\* The node that the next entry stands for is merged, or in conflict.
LEMMA Adding ==
  ASSUME IsFiniteSet(Files), DInv, NEW t \in Threads, frames[t] # <<>>,
         Top(t).at <= Len(Top(t).doc), Done(t, Len(frames[t])) = Top(t).at - 1,
         NEW node \in Node, Pieces(disk, Top(t).file, Len(frames[t]))[Top(t).at] = Good(node)
  PROVE  /\ Conflict(Top(t).node, node) =>
              Fails(Pieces(disk, Top(t).file, Len(frames[t])), Top(t).at, "conflict")
         /\ ~Conflict(Top(t).node, node) =>
              /\ Top(t).at \in 0..Len(Top(t).doc)
              /\ Clean(Pieces(disk, Top(t).file, Len(frames[t])), Top(t).at)
              /\ Holds(Pieces(disk, Top(t).file, Len(frames[t])), Top(t).at, Merge(Top(t).node, node))
<1> DEFINE L == Len(frames[t])
           parts == Pieces(disk, Top(t).file, L)
           n == Len(Top(t).doc)
           m == Top(t).at
<1>1. L \in 1..L /\ Top(t) = frames[t][L] /\ Walked(disk, Top(t), L, m - 1)
  BY TopOpened
<1>2. /\ parts \in [1..n -> Texts] /\ n \in Nat /\ m \in Nat \ {0} /\ Top(t).node \in Node
  <2>1. PICK i \in 1..L : i = L /\ Top(t) = frames[t][i]
    BY <1>1
  <2>2. frames[t][i].node \in Node
    BY Opened
  <2> QED
    BY <2>1, <2>2, TopText
<1>3. m \in 1..n /\ m \in 0..n /\ parts[m].status = "ok" /\ parts[m].node = node
  BY <1>2 DEF Good
<1>4. Clean(parts, m - 1) /\ Holds(parts, m - 1, Top(t).node)
  BY <1>1 DEF Walked
<1> HIDE DEF parts, n, m
<1>nn. PICK nn \in Nat : nn = n
  BY <1>2
<1>5. PICK mm \in 1..nn : nn = n /\ mm = m
  BY <1>3, <1>nn
<1>6. /\ Conflict(Top(t).node, node) <=> Abstract!Clash(parts, m)
      /\ Holds(parts, m, Merge(Top(t).node, node))
  <2>1. PICK p \in [1..nn -> Texts] : p = parts
    BY <1>2, <1>5
  <2>2. PICK top \in Node : top = Top(t).node
    BY <1>2
  <2>3. Holds(p, mm - 1, top)
    BY <1>4, <1>5, <2>1, <2>2
  <2>4. /\ Conflict(top, p[mm].node) <=> Abstract!Clash(p, mm)
        /\ Holds(p, mm, Merge(top, p[mm].node))
    BY <2>3, AddPart
  <2> QED
    BY <1>3, <1>5, <2>1, <2>2, <2>4
<1>7. ~Abstract!Clash(parts, m) => Clean(parts, m)
  <2>1. \A j \in 1..m : j \in 1..(m - 1) \/ j = m
    BY <1>5
  <2> QED
    BY <1>3, <1>4, <2>1 DEF Clean
<1>8. Abstract!Clash(parts, m) => Fails(parts, m, "conflict")
  BY <1>2, <1>3, <1>4 DEF Fails
<1> QED
  BY <1>3, <1>6, <1>7, <1>8 DEF parts, n, m


-----------------------------------------------------------------------------
(* One lemma per action: what is said of the thread stays true, and the    *)
(* caller sees the answer or nothing.                                      *)

Right(t) ==
  \/ Abstract!Reply(t)
  \/ \E f \in Files : Abstract!Request(t, f) \/ Abstract!Refuse(t, f)
  \/ UNCHANGED <<disk, root, result>>

\* A load that ends with what its file stands for is answered.
LEMMA Replies ==
  ASSUME IsFiniteSet(Files), DInv, NEW t \in Threads, disk' = disk, root[t] # NoFile,
         disk[root[t]] # Absent, NEW s, NEW node,
         Text(disk, Nesting)[root[t]] = [status |-> s, node |-> node], Finish(t, root[t], s, node)
  PROVE  Right(t)
<1>1. Abstract!Answer(disk, root[t]) = [status |-> s, node |-> node]
  BY DEF Abstract!Answer, Text, Nesting
<1>2. Abstract!Give(t, root[t])
  BY <1>1 DEF Abstract!Give, Finish
<1> QED
  BY <1>2 DEF Abstract!Reply, Finish, Right

\* The root of a load exists, and what the first document amounts to is the answer.
LEMMA RootOpened ==
  ASSUME IsFiniteSet(Files), DInv, NEW t \in Threads, Len(frames[t]) = 1
  PROVE  /\ root[t] \in Files /\ root[t] # NoFile /\ disk[root[t]] # Absent /\ root[t] = Top(t).file
         /\ Text(disk, Nesting)[root[t]] = Abstract!Pasted(Pieces(disk, Top(t).file, 1))
<1>1. Top(t) = frames[t][1] /\ frames[t] # <<>> /\ 1 \in 1..Len(frames[t])
  <2>1. frames[t] \in Seq(Frame)
    BY DEF DInv, IInv, TypeOK
  <2>2. frames[t] = <<>> <=> Len(frames[t]) = 0
    BY <2>1, EmptySeq
  <2> QED
    BY <2>2 DEF Top
<1>2. root[t] = Top(t).file
  BY <1>1 DEF DInv, Running, Built
<1>3. /\ Top(t).file \in Files /\ disk[Top(t).file] \in Docs /\ Nesting \in Nat
      /\ Text(disk, Nesting - 1 + 1)[Top(t).file] = Abstract!Pasted(Pieces(disk, Top(t).file, 1))
  <2>1. PICK i \in 1..Len(frames[t]) : i = 1
    BY <1>1
  <2>2. /\ frames[t][i].file \in Files /\ frames[t][i].doc = disk[frames[t][i].file]
        /\ frames[t][i].doc \in Docs /\ Nesting \in Nat
        /\ Text(disk, Nesting - i + 1)[frames[t][i].file] = Abstract!Pasted(Pieces(disk, frames[t][i].file, i))
    BY Opened
  <2> QED
    BY <1>1, <2>1, <2>2
<1>4. Nesting - 1 + 1 = Nesting
  BY <1>3
<1> QED
  BY <1>2, <1>3, <1>4, FilesAssumption, ContentAssumption

\* The call of loadYaml or loadSchema: the file is looked for first.
LEMMA CallRight ==
  ASSUME IsFiniteSet(Files), DInv, NEW t \in Threads, NEW f \in Files, Call(t, f)
  PROVE  Running(t)' /\ Right(t)
<1>1. /\ Types /\ Phases(t) /\ pc[t] = "idle" /\ frames[t] = <<>> /\ root[t] = NoFile
      /\ error[t] = "none" /\ disk' = disk /\ frames' = frames
  BY Own_t DEF DInv, Call, Phases, Local, GuardsMatch
<1>2. CASE disk[f] = Absent
  <2>1. Finish(t, f, "missing", EmptyNode)
    BY <1>2 DEF Call
  <2>2. pc'[t] = "idle" /\ error'[t] = "none" /\ root' = root
    BY <1>1, <2>1 DEF Finish, Goto, Types
  <2>3. Built(t)'
    BY <1>1, <2>2, BuiltSame DEF DInv, Running
  <2>4. Running(t)'
    BY <1>1, <2>2, <2>3 DEF Running, Starts, Follows, Raises
  <2>5. Abstract!Answer(disk, f) = [status |-> "missing", node |-> EmptyNode]
    BY <1>2, Failures DEF Abstract!Answer, Abstract!Failure
  <2>6. Abstract!Give(t, f)
    BY <2>1, <2>5 DEF Abstract!Give, Finish
  <2>7. Abstract!Refuse(t, f)
    BY <1>1, <1>2, <2>2, <2>6 DEF Abstract!Refuse
  <2> QED
    BY <2>4, <2>7 DEF Right
<1>3. CASE disk[f] # Absent
  <2>1. /\ Goto(t, "load") /\ root' = [root EXCEPT ![t] = f]
        /\ target' = [target EXCEPT ![t] = f] /\ error' = error /\ result' = result
    BY <1>3 DEF Call
  <2>2. pc'[t] = "load" /\ target'[t] = root'[t] /\ root'[t] = f
    BY <1>1, <2>1 DEF Goto, Types
  <2>3. Built(t)'
    BY <1>1, <2>1, <2>2, BuiltSame DEF DInv, Running
  <2>4. Running(t)'
    BY <1>1, <1>3, <2>1, <2>2, <2>3 DEF Running, Starts, Follows, Raises
  <2>5. Abstract!Request(t, f)
    BY <1>1, <1>3, <2>1 DEF Abstract!Request
  <2> QED
    BY <2>4, <2>5 DEF Right
<1> QED
  BY <1>2, <1>3

\* Opening a document: nothing of it has been put together.
LEMMA OpenRight ==
  ASSUME IsFiniteSet(Files), DInv, NEW t \in Threads, LoadFile(t), disk[target[t]] \in Docs
  PROVE  Running(t)' /\ Right(t)
<1> DEFINE L == Len(frames[t])
<1>1. /\ Types /\ Phases(t) /\ pc[t] = "load" /\ error[t] = "none" /\ target[t] \in Files
      /\ disk' = disk
  BY Own_t DEF DInv, LoadFile, Phases, Following
<1>2. PICK new : new = [file |-> target[t], folders |-> Folders(t), doc |-> disk[target[t]],
                        at |-> 1, node |-> EmptyNode]
  OBVIOUS
<1>3. frames' = [frames EXCEPT ![t] = Append(@, new)] /\ Proceed(t, "flatten")
  BY <1>2, ContentAssumption DEF LoadFile
<1>4. /\ pc'[t] = "flatten" /\ root' = root /\ result' = result /\ error' = error
      /\ frames'[t] = Append(frames[t], new)
  BY <1>1, <1>3 DEF Proceed, Goto, Types
<1>5. new \in Frame
  <2>1. Folders(t) \in BOOLEAN
    BY DEF Folders
  <2> QED
    BY <1>1, <1>2, <2>1, NodeTypes DEF Frame
<1>6. new.folders <=> Kind[new.file] = "schema"
  <2>1. frames[t] # <<>> => (Kind[target[t]] = "schema" => Top(t).folders)
    BY <1>1 DEF DInv, Running, Follows, Waits, Following
  <2> QED
    BY <1>2, <2>1 DEF Folders
<1>7. Walked(disk, new, L + 1, 0)
  <2>1. 0 \in 0..Len(new.doc)
    BY <1>5, EntryTypes
  <2> QED
    BY <1>2, <1>6, <2>1, NodeTypes DEF Walked, Clean, Holds, EmptyNode
<1>8. Built(t)'
  BY <1>1, <1>2, <1>4, <1>5, <1>7, BuiltPush
<1> QED
  BY <1>1, <1>4, <1>8 DEF Running, Starts, Follows, Raises, Following, Right

\* A file that cannot be parsed is the end of the load, or of the document that follows it.
LEMMA ParseRight ==
  ASSUME IsFiniteSet(Files), DInv, NEW t \in Threads, LoadFile(t), disk[target[t]] \notin Docs
  PROVE  Running(t)' /\ Right(t)
<1> DEFINE L == Len(frames[t])
<1>1. /\ Types /\ Phases(t) /\ pc[t] = "load" /\ error[t] = "none" /\ target[t] \in Files
      /\ disk' = disk /\ target' = target /\ frames' = frames /\ root[t] # NoFile
  BY Own_t DEF DInv, LoadFile, Phases, Following
<1>2. disk \in Contents /\ Nesting \in Nat \ {0} /\ Nesting = Cardinality(Files) + 1
  BY <1>1, TextDefined DEF Types, Contents
<1>3. CASE frames[t] = <<>>
  <2>1. Finish(t, root[t], "parse", EmptyNode) /\ target[t] = root[t] /\ disk[root[t]] # Absent
    BY <1>1, <1>3 DEF LoadFile, DInv, Running, Starts
  <2>2. pc'[t] = "idle" /\ error'[t] = "none"
    BY <1>1, <2>1 DEF Finish, Goto, Types
  <2>3. Running(t)'
    BY <1>1, <1>3, <2>2, BuiltSame DEF DInv, Running, Starts, Follows, Raises
  <2>4. Text(disk, Nesting)[root[t]] = [status |-> "parse", node |-> EmptyNode]
    <3>1. Text(disk, Nesting)[root[t]] = Failure("parse")
      BY <1>1, <1>2, <2>1, TextDefined
    <3> QED
      BY <3>1, Failures DEF Failure, Abstract!Failure
  <2> QED
    BY <1>1, <2>1, <2>3, <2>4, Replies
<1>4. CASE frames[t] # <<>>
  <2>1. Throw(t, "parse", "unguard")
    BY <1>4 DEF LoadFile
  <2>2. /\ pc'[t] = "unguard" /\ error'[t] = "parse" /\ root' = root /\ result' = result
    BY <1>1, <2>1 DEF Throw, Goto, Types
  <2>3. L \in 1..L /\ Top(t) = frames[t][L] /\ Waits(disk, Top(t), target[t])
    BY <1>1, <1>4, TopOpened DEF DInv, Running, Follows, Following
  <2>4. Cardinality(Files) \in Nat /\ L \in Nat /\ L <= Cardinality(Files)
    BY <1>1, <1>4, GuardsBounded DEF DInv, GuardAlive, Types
  <2>5. Text(disk, Nesting - L)[target[t]] = Failure("parse")
    <3>1. Nesting - L \in 1..Nesting
      BY <1>2, <2>3, <2>4
    <3> QED
      BY <1>1, <1>2, <3>1, TextDefined
  <2>6. /\ Top(t).at <= Len(Top(t).doc)
        /\ Pieces(disk, Top(t).file, L)[Top(t).at] = Text(disk, Nesting - L)[target[t]]
    BY <1>1, <1>4, <2>3, TopAwaited
  <2>7. Fails(Pieces(disk, Top(t).file, L), Top(t).at, "parse")
    <3>1. Done(t, L) = Top(t).at - 1
      BY <1>1, <2>3 DEF Done
    <3> QED
      BY <2>3, <2>5, <2>6, <3>1, Failed
  <2>8. Built(t)'
    BY <1>1, <2>2, BuiltSame DEF DInv, Running
  <2>9. Running(t)'
    BY <1>1, <1>4, <2>2, <2>3, <2>7, <2>8 DEF Running, Starts, Follows, Raises, Top
  <2> QED
    BY <1>1, <2>2, <2>9 DEF Right
<1> QED
  BY <1>3, <1>4


\* An exception that is thrown for the entry at which the innermost document stands.
LEMMA ThrowRight ==
  ASSUME DInv, NEW t \in Threads, frames[t] # <<>>, pc[t] # "unguard",
         disk' = disk, frames' = frames, NEW e \in Errors, NEW label \in {"unwind", "unguard"},
         Throw(t, e, label), label = "unguard" => Waits(disk, Top(t), target'[t]),
         Fails(Pieces(disk, Top(t).file, Len(frames[t])), Top(t).at, e)
  PROVE  Running(t)' /\ Right(t)
<1>1. /\ pc'[t] = label /\ error'[t] = e /\ e # "none" /\ root' = root /\ result' = result
  BY ThrowTypes DEF DInv
<1>2. Built(t)'
  BY <1>1, BuiltSame DEF DInv, Running
<1> QED
  BY <1>1, <1>2 DEF Running, Starts, Follows, Raises, Top, Following, Right

\* An entry that defines a key stands for itself.
LEMMA AddEntryRight ==
  ASSUME IsFiniteSet(Files), DInv, NEW t \in Threads, AddEntry(t)
  PROVE  Running(t)' /\ Right(t)
<1> DEFINE L == Len(frames[t])
           parts == Pieces(disk, Top(t).file, L)
<1>1. /\ pc[t] = "flatten" /\ ~AtEnd(t) /\ ~Current(t).follow /\ error[t] = "none"
      /\ disk' = disk
  BY Own_t DEF DInv, AddEntry, Phases
<1>2. /\ frames[t] # <<>> /\ Top(t) \in Frame /\ L \in 1..L /\ Top(t) = frames[t][L]
      /\ Done(t, L) = Top(t).at - 1
  BY <1>1, Open, TopOpened DEF DInv, Done
<1>3. /\ Len(Top(t).doc) \in Nat /\ Top(t).at \in Nat \ {0} /\ Top(t).node \in Node /\ Top(t).file \in Files
      /\ Top(t).at <= Len(Top(t).doc) /\ Top(t).at \in 1..Len(Top(t).doc)
  BY <1>1, <1>2, EntryTypes DEF AtEnd, Frame
<1>4. Current(t).to \in Keys
  BY <1>1, <1>2, <1>3, EntryTypes DEF Current
<1>5. PICK own \in Node : own = Own(Top(t).file, Current(t).to)
  BY <1>3, <1>4, NodeTypes
<1>6. parts[Top(t).at] = Good(own)
  <2>1. parts[Top(t).at] = Abstract!Part(disk, Top(t).file, Current(t), Text(disk, Nesting - L))
    BY <1>2, <1>3, CurrentPart
  <2> QED
    BY <1>1, <1>5, <2>1, Failures DEF Abstract!Part, Good, Own
<1>7. /\ Conflict(Top(t).node, own) => Fails(parts, Top(t).at, "conflict")
      /\ ~Conflict(Top(t).node, own) =>
           /\ Top(t).at \in 0..Len(Top(t).doc)
           /\ Clean(parts, Top(t).at)
           /\ Holds(parts, Top(t).at, Merge(Top(t).node, own))
  BY <1>2, <1>3, <1>6, Adding
<1>8. CASE Conflict(Top(t).node, own)
  <2>1. Throw(t, "conflict", "unwind") /\ frames' = frames
    BY <1>5, <1>8 DEF AddEntry
  <2> QED
    BY <1>1, <1>2, <1>7, <1>8, <2>1, ThrowRight DEF Errors
<1>9. CASE ~Conflict(Top(t).node, own)
  <2>1. PICK new : new = [Top(t) EXCEPT !.at = Top(t).at + 1, !.node = Merge(Top(t).node, own)]
    OBVIOUS
  <2>2. ReplaceTop(t, new) /\ Proceed(t, "flatten")
    BY <1>5, <1>9, <2>1 DEF AddEntry
  <2>3. /\ new \in Frame /\ new.file = Top(t).file /\ new.doc = Top(t).doc /\ new.folders = Top(t).folders
        /\ new.at = Top(t).at + 1 /\ new.node = Merge(Top(t).node, own)
    <3>1. Merge(Top(t).node, own) \in Node /\ Top(t).at + 1 \in Nat \ {0}
      BY <1>3, NodeTypes
    <3> QED
      BY <1>2, <2>1, <3>1 DEF Frame
  <2>4. pc'[t] = "flatten" /\ root' = root /\ result' = result /\ error' = error
    BY <2>2, ProceedTypes DEF DInv, Labels
  <2>5. Walked(disk, new, L, Top(t).at)
    <3>1. Walked(disk, Top(t), L, Done(t, L))
      BY <1>2, TopOpened
    <3> QED
      BY <1>7, <1>9, <2>3, <3>1 DEF Walked
  <2>6. Top(t).at = IF pc'[t] = "unguard" /\ error'[t] = "none" THEN new.at ELSE new.at - 1
    BY <1>3, <2>3, <2>4
  <2>7. Built(t)' /\ frames'[t] # <<>>
    BY <1>1, <1>2, <2>2, <2>3, <2>4, <2>5, <2>6, BuiltTop
  <2> QED
    BY <1>1, <2>4, <2>7 DEF Running, Starts, Follows, Raises, Following, Right
<1> QED
  BY <1>8, <1>9

\* An entry that follows what is no input file, or does not exist, is that failure.
LEMMA ResolveRight ==
  ASSUME IsFiniteSet(Files), DInv, NEW t \in Threads, Resolve(t)
  PROVE  Running(t)' /\ Right(t)
<1> DEFINE L == Len(frames[t])
           parts == Pieces(disk, Top(t).file, L)
           f == Current(t).to
<1>1. /\ Types /\ pc[t] = "flatten" /\ ~AtEnd(t) /\ Current(t).follow /\ error[t] = "none"
      /\ disk' = disk /\ frames' = frames
  BY Own_t DEF DInv, Resolve, Phases
<1>2. /\ frames[t] # <<>> /\ Top(t) \in Frame /\ L \in 1..L /\ Top(t) = frames[t][L]
      /\ Done(t, L) = Top(t).at - 1
  BY <1>1, Open, TopOpened DEF DInv, Done
<1>3. /\ Len(Top(t).doc) \in Nat /\ Top(t).at \in Nat \ {0}
      /\ Top(t).at <= Len(Top(t).doc) /\ Top(t).at \in 1..Len(Top(t).doc)
  BY <1>1, <1>2, EntryTypes DEF AtEnd
<1>4. f \in Files /\ Suspended(Top(t), f)
  BY <1>1, <1>2, <1>3, EntryTypes DEF Current, Suspended
<1>5. Top(t).folders <=> Kind[Top(t).file] = "schema"
  BY <1>2, TopOpened DEF Walked
<1>6. parts[Top(t).at] = Abstract!Part(disk, Top(t).file, Current(t), Text(disk, Nesting - L))
  BY <1>2, <1>3, CurrentPart
<1>7. ASSUME NEW e \in Errors, parts[Top(t).at] = Failure(e), Throw(t, e, "unwind")
      PROVE  Running(t)' /\ Right(t)
  <2>1. Fails(parts, Top(t).at, e)
    BY <1>2, <1>3, <1>7, Failed
  <2> QED
    BY <1>1, <1>2, <1>7, <2>1, ThrowRight
<1>8. CASE Kind[f] = "other"
  <2>1. parts[Top(t).at] = Failure("extension")
    BY <1>1, <1>6, <1>8 DEF Abstract!Part, Failure
  <2>2. Throw(t, "extension", "unwind")
    BY <1>8 DEF Resolve
  <2> QED
    BY <1>7, <2>1, <2>2 DEF Errors
<1>9. CASE Kind[f] # "other" /\ Unresolved(t, f)
  <2>1. parts[Top(t).at] = Failure("missing")
    BY <1>1, <1>5, <1>6, <1>9 DEF Abstract!Part, Failure, Unresolved
  <2>2. Throw(t, "missing", "unwind")
    BY <1>9 DEF Resolve
  <2> QED
    BY <1>7, <2>1, <2>2 DEF Errors
<1>10. CASE Kind[f] # "other" /\ ~Unresolved(t, f)
  <2>1. target' = [target EXCEPT ![t] = f] /\ Proceed(t, "guard")
    BY <1>10 DEF Resolve
  <2>2. /\ pc'[t] = "guard" /\ root' = root /\ result' = result /\ error' = error /\ target'[t] = f
    BY <1>1, <2>1, ProceedTypes DEF DInv, Labels, Types
  <2>3. Waits(disk, Top(t), f)
    BY <1>4, <1>10 DEF Waits, Unresolved
  <2>4. Built(t)'
    BY <1>1, <2>2, BuiltSame DEF DInv, Running
  <2> QED
    BY <1>1, <1>2, <2>2, <2>3, <2>4 DEF Running, Starts, Follows, Raises, Top, Right
<1> QED
  BY <1>8, <1>9, <1>10

\* The constructor of FollowGuard refuses a file that stands for a cycle.
LEMMA GuardRight ==
  ASSUME IsFiniteSet(Files), DInv, NEW t \in Threads, Guard(t)
  PROVE  Running(t)' /\ Right(t)
<1> DEFINE L == Len(frames[t])
<1>1. /\ Types /\ pc[t] = "guard" /\ error[t] = "none"
      /\ disk' = disk /\ frames' = frames /\ target' = target
  BY Own_t DEF DInv, Guard, Phases
<1>2. /\ frames[t] # <<>> /\ L \in 1..L /\ Top(t) = frames[t][L] /\ Done(t, L) = Top(t).at - 1
  BY <1>1, Open, TopOpened DEF DInv, Done
<1>3. Waits(disk, Top(t), target[t])
  BY <1>1, <1>2 DEF DInv, Running, Follows, Following
<1>4. CASE InStack(t, target[t])
  <2>1. Throw(t, "cycle", "unwind")
    BY <1>3, <1>4 DEF Guard, Waits
  <2>2. /\ Top(t).at <= Len(Top(t).doc)
        /\ Pieces(disk, Top(t).file, L)[Top(t).at] = Text(disk, Nesting - L)[target[t]]
    BY <1>2, <1>3, TopAwaited
  <2>3. Text(disk, Nesting - L)[target[t]] = Failure("cycle")
    BY <1>1, <1>4, CycleText
  <2>4. Fails(Pieces(disk, Top(t).file, L), Top(t).at, "cycle")
    BY <1>2, <2>2, <2>3, Failed
  <2> QED
    BY <1>1, <1>2, <2>1, <2>4, ThrowRight DEF Errors
<1>5. CASE ~InStack(t, target[t])
  <2>1. Proceed(t, "load")
    BY <1>3, <1>5 DEF Guard, Waits
  <2>2. /\ pc'[t] = "load" /\ root' = root /\ result' = result /\ error' = error
    BY <2>1, ProceedTypes DEF DInv, Labels
  <2>3. Built(t)'
    BY <1>1, <2>2, BuiltSame DEF DInv, Running
  <2> QED
    BY <1>1, <1>2, <1>3, <2>2, <2>3 DEF Running, Starts, Follows, Raises, Top, Right
<1> QED
  BY <1>4, <1>5


\* A document that is through stands for the node that it has been put together to.
LEMMA ReturnRight ==
  ASSUME IsFiniteSet(Files), DInv, NEW t \in Threads, Return(t)
  PROVE  Running(t)' /\ Right(t)
<1> DEFINE L == Len(frames[t])
           parts == Pieces(disk, Top(t).file, L)
<1>1. /\ Types /\ pc[t] = "flatten" /\ AtEnd(t) /\ error[t] = "none" /\ disk' = disk
      /\ frames' = [frames EXCEPT ![t] = Pop(@)] /\ target' = [target EXCEPT ![t] = Top(t).file]
  BY Own_t DEF DInv, Return, Phases
<1>2. /\ frames[t] # <<>> /\ L \in Nat \ {0} /\ L \in 1..L /\ Top(t) = frames[t][L]
      /\ Done(t, L) = Top(t).at - 1 /\ Top(t).node \in Node /\ Top(t).file \in Files
  BY <1>1, Open, TopOpened DEF DInv, Done, Frame
<1>3. /\ Len(Top(t).doc) \in Nat /\ Top(t).at \in Nat \ {0} /\ parts \in [1..Len(Top(t).doc) -> Texts]
      /\ Text(disk, Nesting - L + 1)[Top(t).file] = Abstract!Pasted(parts) /\ Nesting \in Nat
  BY <1>2, TopText
<1>4. Text(disk, Nesting - L + 1)[Top(t).file] = Good(Top(t).node)
  <2>1. Walked(disk, Top(t), L, Top(t).at - 1)
    BY <1>2, TopOpened
  <2>2. Top(t).at - 1 = Len(Top(t).doc)
    BY <1>1, <1>3, <2>1 DEF Walked, AtEnd
  <2>3. Clean(parts, Len(Top(t).doc)) /\ Holds(parts, Len(Top(t).doc), Top(t).node)
    BY <2>1, <2>2 DEF Walked
  <2>4. Abstract!Pasted(parts) = Good(Top(t).node)
    <3>1. PICK n \in Nat : n = Len(Top(t).doc)
      BY <1>3
    <3>2. PICK p \in [1..n -> Texts] : p = parts
      BY <1>3, <3>1
    <3> QED
      BY <1>2, <2>3, <3>1, <3>2, PastedDone
  <2> QED
    BY <1>3, <2>4
<1>5. CASE L = 1
  <2>1. Finish(t, root[t], "ok", Top(t).node)
    BY <1>5 DEF Return
  <2>2. pc'[t] = "idle" /\ error'[t] = "none" /\ frames'[t] = <<>>
    BY <1>1, <1>5, <2>1, PopFrameFacts DEF DInv, Finish, Goto, Types
  <2>3. Running(t)'
    BY <2>2 DEF Running, Built, Starts, Follows, Raises
  <2>4. Nesting - L + 1 = Nesting
    BY <1>3, <1>5
  <2>5. Text(disk, Nesting)[root[t]] = [status |-> "ok", node |-> Top(t).node]
    BY <1>4, <1>5, <2>4, RootOpened DEF Good
  <2> QED
    BY <1>1, <1>5, <2>1, <2>3, <2>5, RootOpened, Replies
<1>6. CASE L # 1
  <2>1. returned' = [returned EXCEPT ![t] = Top(t).node] /\ Proceed(t, "merge")
    BY <1>6 DEF Return
  <2>2. /\ pc'[t] = "merge" /\ root' = root /\ result' = result /\ error' = error
        /\ returned'[t] = Top(t).node /\ target'[t] = Top(t).file
    BY <1>1, <2>1, ProceedTypes DEF DInv, Labels, Types
  <2>3. /\ Built(t)' /\ Waits(disk, Top(t)', Top(t).file)
        /\ Len(frames'[t]) = L - 1 /\ frames'[t] # <<>>
    BY <1>1, <1>6, <2>2, BuiltPop
  <2>4. Text(disk, Nesting - Len(frames'[t]))[target'[t]] = Good(returned'[t])
    <3>1. Nesting - (L - 1) = Nesting - L + 1
      BY <1>2, <1>3
    <3> QED
      BY <1>4, <2>2, <2>3, <3>1
  <2> QED
    BY <1>1, <2>2, <2>3, <2>4 DEF Running, Starts, Follows, Raises, Right
<1> QED
  BY <1>5, <1>6

\* The followed document is what the entry stands for.
LEMMA MergeChildRight ==
  ASSUME IsFiniteSet(Files), DInv, NEW t \in Threads, MergeChild(t)
  PROVE  Running(t)' /\ Right(t)
<1> DEFINE L == Len(frames[t])
           parts == Pieces(disk, Top(t).file, L)
<1>1. /\ Types /\ pc[t] = "merge" /\ error[t] = "none" /\ disk' = disk
      /\ target' = target /\ returned' = returned /\ returned[t] \in Node
  BY Own_t DEF DInv, MergeChild, Phases, Types
<1>2. /\ frames[t] # <<>> /\ Top(t) \in Frame /\ L \in 1..L /\ Top(t) = frames[t][L]
      /\ Done(t, L) = Top(t).at - 1 /\ Top(t).node \in Node
  BY <1>1, Open, TopOpened DEF DInv, Done, Frame
<1>3. /\ Waits(disk, Top(t), target[t])
      /\ Text(disk, Nesting - L)[target[t]] = Good(returned[t])
  BY <1>1, <1>2 DEF DInv, Running, Follows, Following
<1>4. Top(t).at <= Len(Top(t).doc) /\ parts[Top(t).at] = Good(returned[t])
  BY <1>2, <1>3, TopAwaited
<1>5. /\ Conflict(Top(t).node, returned[t]) => Fails(parts, Top(t).at, "conflict")
      /\ ~Conflict(Top(t).node, returned[t]) =>
           /\ Top(t).at \in 0..Len(Top(t).doc)
           /\ Clean(parts, Top(t).at)
           /\ Holds(parts, Top(t).at, Merge(Top(t).node, returned[t]))
  BY <1>1, <1>2, <1>4, Adding
<1>6. CASE Conflict(Top(t).node, returned[t])
  <2>1. Throw(t, "conflict", "unguard") /\ frames' = frames
    BY <1>6 DEF MergeChild
  <2> QED
    BY <1>1, <1>2, <1>3, <1>5, <1>6, <2>1, ThrowRight DEF Errors
<1>7. CASE ~Conflict(Top(t).node, returned[t])
  <2>1. PICK new : new = [Top(t) EXCEPT !.node = Merge(Top(t).node, returned[t])]
    OBVIOUS
  <2>2. ReplaceTop(t, new) /\ Proceed(t, "unguard")
    BY <1>7, <2>1 DEF MergeChild
  <2>3. /\ new \in Frame /\ new.file = Top(t).file /\ new.doc = Top(t).doc /\ new.folders = Top(t).folders
        /\ new.at = Top(t).at /\ new.node = Merge(Top(t).node, returned[t])
    <3>1. Merge(Top(t).node, returned[t]) \in Node
      BY <1>1, <1>2, NodeTypes
    <3> QED
      BY <1>2, <2>1, <3>1 DEF Frame
  <2>4. pc'[t] = "unguard" /\ root' = root /\ result' = result /\ error' = error
    BY <2>2, ProceedTypes DEF DInv, Labels
  <2>5. Walked(disk, new, L, Top(t).at)
    <3>1. Walked(disk, Top(t), L, Done(t, L))
      BY <1>2, TopOpened
    <3> QED
      BY <1>5, <1>7, <2>3, <3>1 DEF Walked
  <2>6. Top(t).at = IF pc'[t] = "unguard" /\ error'[t] = "none" THEN new.at ELSE new.at - 1
    BY <1>1, <2>3, <2>4
  <2>7. Built(t)' /\ Top(t)' = new
    BY <1>1, <1>2, <2>2, <2>3, <2>4, <2>5, <2>6, BuiltTop
  <2>8. Waits(disk, Top(t)', target'[t])
    BY <1>1, <1>3, <2>3, <2>7 DEF Waits, Suspended
  <2> QED
    BY <1>1, <2>4, <2>7, <2>8 DEF Running, Starts, Follows, Raises, Right
<1> QED
  BY <1>6, <1>7

\* The destructor of FollowGuard changes nothing of the documents.
LEMMA UnguardRight ==
  ASSUME IsFiniteSet(Files), DInv, NEW t \in Threads, Unguard(t)
  PROVE  Running(t)' /\ Right(t)
<1> DEFINE L == Len(frames[t])
<1>1. Types /\ pc[t] = "unguard" /\ disk' = disk /\ target' = target
  BY Own_t DEF DInv, Unguard
<1>2. /\ frames[t] # <<>> /\ Top(t) \in Frame /\ L \in 1..L /\ Top(t) = frames[t][L]
  BY <1>1, Open, TopOpened DEF DInv
<1>3. CASE error[t] = "none"
  <2>1. PICK new : new = [Top(t) EXCEPT !.at = Top(t).at + 1]
    OBVIOUS
  <2>2. ReplaceTop(t, new) /\ Proceed(t, "flatten")
    BY <1>3, <2>1 DEF Unguard, AfterFollow
  <2>3. /\ new \in Frame /\ new.file = Top(t).file /\ new.doc = Top(t).doc /\ new.folders = Top(t).folders
        /\ new.at = Top(t).at + 1 /\ new.node = Top(t).node /\ Top(t).at \in Nat
    BY <1>2, <2>1 DEF Frame
  <2>4. pc'[t] = "flatten" /\ root' = root /\ result' = result /\ error' = error
    BY <2>2, ProceedTypes DEF DInv, Labels
  <2>5. Walked(disk, new, L, Top(t).at)
    <3>1. Walked(disk, Top(t), L, Done(t, L)) /\ Done(t, L) = Top(t).at
      BY <1>1, <1>2, <1>3, TopOpened DEF Done
    <3> QED
      BY <2>3, <3>1 DEF Walked
  <2>6. Top(t).at = IF pc'[t] = "unguard" /\ error'[t] = "none" THEN new.at ELSE new.at - 1
    BY <2>3, <2>4
  <2>7. Built(t)' /\ frames'[t] # <<>>
    BY <1>1, <1>2, <2>2, <2>3, <2>4, <2>5, <2>6, BuiltTop
  <2> QED
    BY <1>1, <1>3, <2>4, <2>7 DEF Running, Starts, Follows, Raises, Following, Right
<1>4. CASE error[t] # "none"
  <2>1. Proceed(t, "unwind") /\ frames' = frames
    BY <1>4 DEF Unguard
  <2>2. pc'[t] = "unwind" /\ root' = root /\ result' = result /\ error' = error
    BY <2>1, ProceedTypes DEF DInv, Labels
  <2>3. Built(t)'
    BY <1>1, <1>4, <2>1, <2>2, BuiltSame DEF DInv, Running
  <2> QED
    BY <1>1, <1>4, <2>1, <2>2, <2>3 DEF DInv, Running, Starts, Follows, Raises, Following, Top, Right
<1> QED
  BY <1>3, <1>4

\* The exception that leaves a document is what it amounts to, and what the entry that
\* follows it stands for.
LEMMA UnwindRight ==
  ASSUME IsFiniteSet(Files), DInv, NEW t \in Threads, Unwind(t)
  PROVE  Running(t)' /\ Right(t)
<1> DEFINE L == Len(frames[t])
           parts == Pieces(disk, Top(t).file, L)
           e == error[t]
<1>1. /\ Types /\ pc[t] = "unwind" /\ disk' = disk /\ e # "none" /\ e \in Errors
      /\ frames' = [frames EXCEPT ![t] = Pop(@)] /\ target' = [target EXCEPT ![t] = Top(t).file]
  BY Own_t DEF DInv, Unwind, Running, Raises, Types
<1>2. /\ frames[t] # <<>> /\ L \in Nat \ {0} /\ L \in 1..L /\ Top(t) = frames[t][L]
      /\ Top(t).file \in Files
  BY <1>1, Open, TopOpened DEF DInv, Frame
<1>3. /\ Len(Top(t).doc) \in Nat /\ parts \in [1..Len(Top(t).doc) -> Texts]
      /\ Text(disk, Nesting - L + 1)[Top(t).file] = Abstract!Pasted(parts) /\ Nesting \in Nat
  BY <1>2, TopText
<1>4. Text(disk, Nesting - L + 1)[Top(t).file] = Failure(e)
  <2>1. Fails(parts, Top(t).at, e)
    BY <1>1 DEF DInv, Running, Raises
  <2>2. Abstract!Pasted(parts) = Failure(e)
    <3>1. PICK n \in Nat : n = Len(Top(t).doc)
      BY <1>3
    <3>2. PICK p \in [1..n -> Texts] : p = parts
      BY <1>3, <3>1
    <3> QED
      BY <1>1, <2>1, <3>2, PastedFails
  <2> QED
    BY <1>3, <2>2
<1>5. CASE L = 1
  <2>1. Finish(t, root[t], e, EmptyNode)
    BY <1>5 DEF Unwind
  <2>2. pc'[t] = "idle" /\ error'[t] = "none" /\ frames'[t] = <<>>
    BY <1>1, <1>5, <2>1, PopFrameFacts DEF DInv, Finish, Goto, Types
  <2>3. Running(t)'
    BY <2>2 DEF Running, Built, Starts, Follows, Raises
  <2>4. Nesting - L + 1 = Nesting
    BY <1>3, <1>5
  <2>5. Text(disk, Nesting)[root[t]] = [status |-> e, node |-> EmptyNode]
    BY <1>4, <1>5, <2>4, RootOpened, Failures DEF Failure, Abstract!Failure
  <2> QED
    BY <1>1, <1>5, <2>1, <2>3, <2>5, RootOpened, Replies
<1>6. CASE L # 1
  <2>1. Proceed(t, "unguard")
    BY <1>6 DEF Unwind
  <2>2. /\ pc'[t] = "unguard" /\ root' = root /\ result' = result /\ error' = error
        /\ target'[t] = Top(t).file
    BY <1>1, <2>1, ProceedTypes DEF DInv, Labels, Types
  <2>3. /\ Built(t)' /\ Waits(disk, Top(t)', Top(t).file)
        /\ Len(frames'[t]) = L - 1 /\ frames'[t] # <<>>
        /\ L \in Nat \ {0, 1} /\ Top(t)' = frames[t][L - 1]
    BY <1>1, <1>6, <2>2, BuiltPop
  <2>4. PICK i \in 1..L : i = L - 1
    <3>1. PICK n \in Nat \ {0, 1} : n = L
      BY <2>3
    <3>2. n - 1 \in 1..n
      OBVIOUS
    <3> QED
      BY <3>1, <3>2
  <2>5. Top(t)' = frames[t][i] /\ Waits(disk, frames[t][i], Top(t).file) /\ Nesting - i = Nesting - L + 1
    BY <1>3, <2>3, <2>4
  <2>6. /\ frames[t][i].at <= Len(frames[t][i].doc)
        /\ Pieces(disk, frames[t][i].file, i)[frames[t][i].at] = Failure(e)
    BY <1>4, <2>5, Awaited
  <2>7. Fails(Pieces(disk, frames[t][i].file, i), frames[t][i].at, e)
    <3>1. Done(t, i) = frames[t][i].at - 1
      BY <1>1 DEF Done
    <3> QED
      BY <2>6, <3>1, Failed
  <2>8. Fails(Pieces(disk, Top(t)'.file, Len(frames'[t])), Top(t)'.at, error'[t])
    BY <2>2, <2>3, <2>4, <2>5, <2>7
  <2> QED
    BY <1>1, <2>2, <2>3, <2>8 DEF Running, Starts, Follows, Raises, Right
<1> QED
  BY <1>5, <1>6


-----------------------------------------------------------------------------
(* The refinement.                                                         *)

\* Every step of a thread keeps the invariant, and is a step of the caller's view.
LEMMA StepRight ==
  ASSUME IsFiniteSet(Files), DInv, IInv', NEW t \in Threads,
         Step(t) \/ \E f \in Files : Call(t, f)
  PROVE  DInv' /\ Right(t)
<1>1. disk' = disk
  BY DEF Step, Call, LoadFile, AddEntry, Resolve, Guard, Return, MergeChild, Unguard, Unwind
<1>2. Running(t)' /\ Right(t)
  <2>1. CASE \E f \in Files : Call(t, f)
    BY <2>1, CallRight
  <2>2. CASE LoadFile(t)
    BY <2>2, OpenRight, ParseRight
  <2>3. CASE AddEntry(t)
    BY <2>3, AddEntryRight
  <2>4. CASE Resolve(t)
    BY <2>4, ResolveRight
  <2>5. CASE Guard(t)
    BY <2>5, GuardRight
  <2>6. CASE Return(t)
    BY <2>6, ReturnRight
  <2>7. CASE MergeChild(t)
    BY <2>7, MergeChildRight
  <2>8. CASE Unguard(t)
    BY <2>8, UnguardRight
  <2>9. CASE Unwind(t)
    BY <2>9, UnwindRight
  <2> QED
    BY <2>1, <2>2, <2>3, <2>4, <2>5, <2>6, <2>7, <2>8, <2>9 DEF Step
<1> QED
  BY <1>1, <1>2, OthersRunning

\* No file is edited, so that no step is an Edit.
LEMMA NextRight ==
  ASSUME IsFiniteSet(Files), MaxEdits = 0, DInv, [Next]_vars
  PROVE  DInv' /\ [Abstract!Next]_(Abstract!vars)
<1>1. IInv'
  BY NextInv DEF DInv
<1>2. CASE UNCHANGED vars
  <2>1. /\ disk' = disk /\ pc' = pc /\ root' = root /\ frames' = frames /\ follow_stack' = follow_stack
        /\ target' = target /\ returned' = returned /\ error' = error /\ result' = result
    BY <1>2 DEF vars, locals
  <2>2. \A u \in Threads : Same(u) /\ returned'[u] = returned[u]
    BY <2>1 DEF Same
  <2>3. DInv'
    BY <1>1, <2>1, <2>2, SameRunning DEF DInv
  <2> QED
    BY <2>1, <2>3 DEF Abstract!vars
<1>3. ASSUME NEW t \in Threads, Step(t) \/ \E f \in Files : Call(t, f)
      PROVE  DInv' /\ [Abstract!Next]_(Abstract!vars)
  <2>1. DInv' /\ Right(t)
    BY <1>1, <1>3, StepRight
  <2> QED
    BY <2>1 DEF Right, Abstract!Next, Abstract!vars
<1>4. ASSUME NEW f \in Files, Edit(f) PROVE FALSE
  <2>1. edits \in Nat
    BY DEF DInv, IInv, TypeOK
  <2> QED
    BY <1>4, <2>1 DEF Edit
<1> QED
  BY <1>2, <1>3, <1>4 DEF Next

\* The initial states.
LEMMA InitRight == Init => DInv /\ Abstract!Init
<1> SUFFICES ASSUME Init PROVE DInv /\ Abstract!Init
  OBVIOUS
<1>1. \A t \in Threads : Running(t)
  BY DEF Init, Running, Built, Starts, Follows, Raises
<1>2. DInv
  BY <1>1, InitInv DEF DInv
<1>3. Abstract!Init
  BY Failures DEF Init, Abstract!Init, NoResult
<1> QED
  BY <1>2, <1>3

\* As long as nobody edits the files, the recursion with its thread_local stack computes
\* what FollowLoad promises: the answer to every load is the text that the files stand
\* for, or the failure that a reader of the files finds first (flattenMap, insertNodes).
THEOREM FollowsImplementLoad ==
  ASSUME IsFiniteSet(Files), MaxEdits = 0
  PROVE  Spec => ImplementsLoad
<1>1. Init => DInv /\ Abstract!Init
  BY InitRight
<1>2. DInv /\ [Next]_vars => DInv' /\ [Abstract!Next]_(Abstract!vars)
  BY NextRight
<1> QED
  BY <1>1, <1>2, PTL DEF Spec, ImplementsLoad, Abstract!Spec

=============================================================================
