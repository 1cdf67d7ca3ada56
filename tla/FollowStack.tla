---------------------------- MODULE FollowStack ----------------------------
(***************************************************************************)
(* How a YAML document and the documents it follows are loaded and         *)
(* flattened (src/src/yaml_utils.cpp: flattenMap, insertNodes and the      *)
(* FollowGuard kept in the thread_local follow_stack).                     *)
(*                                                                         *)
(* Every thread runs its own recursion: a frame is one activation of       *)
(* flattenMap on the top level map of a file, and between two frames lies  *)
(* the activation of insertNodes that opened the second file and owns its  *)
(* FollowGuard.  A step is one thing that insertNodes or flattenMap does   *)
(* and after which it may throw, so that an exception can leave from every *)
(* place where the code lets one leave, and unwinds the frames one by one. *)
(*                                                                         *)
(* A document is the sequence of the entries of its top level map.  The    *)
(* values are leaves, told apart by the file that defines them; nested     *)
(* maps are the subject of module NodeMerge.  A file is its canonical      *)
(* path.  The file system may change while a load is going on.             *)
(***************************************************************************)
EXTENDS Integers, Sequences, FiniteSets

CONSTANTS Threads,    \* the threads that load documents
          Files,      \* canonical paths
          NoFile,     \* not a file: no value for a key, no root
          Absent,     \* what a path that does not exist holds
          Corrupt,    \* what a file that YAML::LoadFile rejects holds
          Kind,       \* the extension of a file: "yaml", "schema" or "other"
          Keys,       \* keys of the top level maps, other than "follow"
          Docs,       \* documents a file may hold
          Override,   \* the flag 'override' that all calls carry
          Disks,      \* initial contents of the file system
          MaxEdits    \* bound: how often the file system changes

Follow(f) == [follow |-> TRUE, to |-> f]
Define(k) == [follow |-> FALSE, to |-> k]
Entry == {Follow(f) : f \in Files} \cup {Define(k) : k \in Keys}

ASSUME FilesAssumption == NoFile \notin Files
ASSUME KindAssumption == Kind \in [Files -> {"yaml", "schema", "other"}]
ASSUME DocsAssumption == Docs \subseteq Seq(Entry)
ASSUME ContentAssumption == Absent \notin Docs /\ Corrupt \notin Docs
ASSUME OverrideAssumption == Override \in BOOLEAN
ASSUME DisksAssumption == Disks \subseteq [Files -> Docs \cup {Absent, Corrupt}]
ASSUME EditsAssumption == MaxEdits \in Nat

(***************************************************************************)
(* A node is a map whose leaves are named by the file that defined them.   *)
(***************************************************************************)
Node == [Keys -> Files \cup {NoFile}]
EmptyNode == [k \in Keys |-> NoFile]
Has(node, k) == node[k] # NoFile

\* Without 'override', adding a key that exists throws.
Conflict(node, child) == ~Override /\ \E k \in Keys : Has(node, k) /\ Has(child, k)
Merge(node, child) == [k \in Keys |-> IF Has(child, k) THEN child[k] ELSE node[k]]
Own(f, k) == [EmptyNode EXCEPT ![k] = f]

Frame == [file : Files, folders : BOOLEAN, doc : Docs, at : Nat \ {0}, node : Node]

Errors == {"missing", "extension", "parse", "cycle", "conflict"}
Result == [root : Files \cup {NoFile}, status : Errors \cup {"none", "ok"}, node : Node]
NoResult == [root |-> NoFile, status |-> "none", node |-> EmptyNode]

VARIABLES
  disk,          \* the file system
  edits,         \* how often it changed
  pc,            \* what each thread is about to do
  root,          \* the file of the load in progress, NoFile if idle
  frames,        \* activations of flattenMap, outermost first
  follow_stack,  \* thread_local follow_stack
  target,        \* path_follow of the innermost insertNodes
  returned,      \* node_child of the innermost insertNodes, flattened
  error,         \* the exception in flight, "none" if there is none
  result         \* how the last load of each thread ended

locals == <<pc, root, frames, follow_stack, target, returned, error, result>>
vars == <<disk, edits, locals>>

Labels == {"idle", "load", "flatten", "guard", "merge", "unguard", "unwind"}

Top(t) == frames[t][Len(frames[t])]
Pop(s) == SubSeq(s, 1, Len(s) - 1)
ReplaceTop(t, frame) == frames' = [frames EXCEPT ![t] = [@ EXCEPT ![Len(@)] = frame]]
AtEnd(t) == Top(t).at > Len(Top(t).doc)
Current(t) == Top(t).doc[Top(t).at]

-----------------------------------------------------------------------------
Init ==
  /\ disk \in Disks
  /\ edits = 0
  /\ pc = [t \in Threads |-> "idle"]
  /\ root = [t \in Threads |-> NoFile]
  /\ frames = [t \in Threads |-> <<>>]
  /\ follow_stack = [t \in Threads |-> <<>>]
  /\ target = [t \in Threads |-> NoFile]
  /\ returned = [t \in Threads |-> EmptyNode]
  /\ error = [t \in Threads |-> "none"]
  /\ result = [t \in Threads |-> NoResult]

Goto(t, label) == pc' = [pc EXCEPT ![t] = label]

\* Slip: the exception is handled and not forgotten.
Finish_keepError(t, f, status, node) ==
  /\ Goto(t, "idle")
  /\ root' = [root EXCEPT ![t] = NoFile]
  /\ UNCHANGED error
  /\ result' = [result EXCEPT ![t] = [root |-> f, status |-> status, node |-> node]]

\* The load of thread t ends: loadYaml returns or throws to its caller.
Finish(t, f, status, node) ==
  /\ Goto(t, "idle")
  /\ root' = [root EXCEPT ![t] = NoFile]
  /\ error' = [error EXCEPT ![t] = "none"]
  /\ result' = [result EXCEPT ![t] = [root |-> f, status |-> status, node |-> node]]

\* An exception is thrown; its handlers run at 'label'.
Throw(t, kind, label) ==
  /\ Goto(t, label)
  /\ error' = [error EXCEPT ![t] = kind]
  /\ UNCHANGED <<root, result>>

Proceed(t, label) ==
  /\ Goto(t, label)
  /\ UNCHANGED <<root, error, result>>

(***************************************************************************)
(* loadYaml(f) or loadSchema(f): the file must exist.  The root file gets  *)
(* no FollowGuard.                                                         *)
(***************************************************************************)
Call(t, f) ==
  /\ pc[t] = "idle"
  /\ \/ /\ disk[f] = Absent
        /\ Finish(t, f, "missing", EmptyNode)
        /\ UNCHANGED target
     \/ /\ disk[f] # Absent
        /\ Goto(t, "load")
        /\ root' = [root EXCEPT ![t] = f]
        /\ target' = [target EXCEPT ![t] = f]
        /\ UNCHANGED <<error, result>>
  /\ UNCHANGED <<disk, edits, frames, follow_stack, returned>>

(***************************************************************************)
(* Whether schemas can be searched: the folders are passed down from a     *)
(* schema to the schemas it follows, and dropped at a YAML file.           *)
(***************************************************************************)
\* Slip: a YAML file hands on the folders that it was given.
Folders_inherited(t) == IF frames[t] = <<>> THEN Kind[target[t]] = "schema" ELSE Top(t).folders

Folders(t) ==
  /\ Kind[target[t]] = "schema"
  /\ frames[t] # <<>> => Top(t).folders

\* YAML::LoadFile, then the call of flattenNode on the new document.
LoadFile(t) ==
  /\ pc[t] = "load"
  /\ \/ /\ disk[target[t]] \in Docs
        /\ frames' = [frames EXCEPT ![t] = Append(@,
             [file |-> target[t], folders |-> Folders(t), doc |-> disk[target[t]],
              at |-> 1, node |-> EmptyNode])]
        /\ Proceed(t, "flatten")
     \/ /\ disk[target[t]] \notin Docs
        /\ IF frames[t] = <<>>
             THEN Finish(t, root[t], "parse", EmptyNode)
             ELSE Throw(t, "parse", "unguard")
        /\ UNCHANGED frames
  /\ UNCHANGED <<disk, edits, follow_stack, target, returned>>

\* flattenMap adds an entry of the document itself.
AddEntry(t) ==
  /\ pc[t] = "flatten" /\ ~AtEnd(t) /\ ~Current(t).follow
  /\ LET own == Own(Top(t).file, Current(t).to)
     IN \/ /\ Conflict(Top(t).node, own)
           /\ Throw(t, "conflict", "unwind")
           /\ UNCHANGED frames
        \/ /\ ~Conflict(Top(t).node, own)
           /\ ReplaceTop(t, [Top(t) EXCEPT !.at = @ + 1, !.node = Merge(@, own)])
           /\ Proceed(t, "flatten")
  /\ UNCHANGED <<disk, edits, follow_stack, target, returned>>

(***************************************************************************)
(* insertNodes up to the construction of the guard: the extension, the     *)
(* search of a schema in the folders, and the existence of the file.       *)
(***************************************************************************)
Unresolved(t, f) ==
  \/ Kind[f] = "schema" /\ ~Top(t).folders
  \/ disk[f] = Absent

Resolve(t) ==
  /\ pc[t] = "flatten" /\ ~AtEnd(t) /\ Current(t).follow
  /\ LET f == Current(t).to
     IN \/ /\ Kind[f] = "other"
           /\ Throw(t, "extension", "unwind")
           /\ UNCHANGED target
        \/ /\ Kind[f] # "other" /\ Unresolved(t, f)
           /\ Throw(t, "missing", "unwind")
           /\ UNCHANGED target
        \/ /\ Kind[f] # "other" /\ ~Unresolved(t, f)
           /\ target' = [target EXCEPT ![t] = f]
           /\ Proceed(t, "guard")
  /\ UNCHANGED <<disk, edits, frames, follow_stack, returned>>

\* Slips: the stack is not thread_local; only the direct follower is compared.
InStack_shared(t, f) == \E u \in Threads : \E i \in 1..Len(follow_stack[u]) : follow_stack[u][i] = f
InStack_parent(t, f) == follow_stack[t] # <<>> /\ follow_stack[t][Len(follow_stack[t])] = f

InStack(t, f) == \E i \in 1..Len(follow_stack[t]) : follow_stack[t][i] = f

\* The constructor of FollowGuard.  When it throws there is no guard to destroy.
Guard(t) ==
  /\ pc[t] = "guard"
  /\ \/ /\ disk[target[t]] = Absent       \* filesystem::canonical throws
        /\ Throw(t, "missing", "unwind")
        /\ UNCHANGED follow_stack
     \/ /\ disk[target[t]] # Absent /\ InStack(t, target[t])
        /\ Throw(t, "cycle", "unwind")
        /\ UNCHANGED follow_stack
     \/ /\ disk[target[t]] # Absent /\ ~InStack(t, target[t])
        /\ follow_stack' = [follow_stack EXCEPT ![t] = Append(@, target[t])]
        /\ Proceed(t, "load")
  /\ UNCHANGED <<disk, edits, frames, target, returned>>

\* Slip: path_follow is one variable and not a local of every insertNodes.
Return_static(t) ==
  /\ pc[t] = "flatten" /\ AtEnd(t)
  /\ frames' = [frames EXCEPT ![t] = Pop(@)]
  /\ UNCHANGED target
  /\ \/ /\ Len(frames[t]) = 1
        /\ Finish(t, root[t], "ok", Top(t).node)
        /\ UNCHANGED returned
     \/ /\ Len(frames[t]) # 1
        /\ returned' = [returned EXCEPT ![t] = Top(t).node]
        /\ Proceed(t, "merge")
  /\ UNCHANGED <<disk, edits, follow_stack>>

\* flattenMap is through with the document and returns to insertNodes or to the caller.
Return(t) ==
  /\ pc[t] = "flatten" /\ AtEnd(t)
  /\ frames' = [frames EXCEPT ![t] = Pop(@)]
  /\ target' = [target EXCEPT ![t] = Top(t).file]
  /\ \/ /\ Len(frames[t]) = 1
        /\ Finish(t, root[t], "ok", Top(t).node)
        /\ UNCHANGED returned
     \/ /\ Len(frames[t]) # 1
        /\ returned' = [returned EXCEPT ![t] = Top(t).node]
        /\ Proceed(t, "merge")
  /\ UNCHANGED <<disk, edits, follow_stack>>

\* insertNodes adds the children of the followed document to the follower's node.
MergeChild(t) ==
  /\ pc[t] = "merge"
  /\ \/ /\ Conflict(Top(t).node, returned[t])
        /\ Throw(t, "conflict", "unguard")
        /\ UNCHANGED frames
     \/ /\ ~Conflict(Top(t).node, returned[t])
        /\ ReplaceTop(t, [Top(t) EXCEPT !.node = Merge(@, returned[t])])
        /\ Proceed(t, "unguard")
  /\ UNCHANGED <<disk, edits, follow_stack, target, returned>>

(***************************************************************************)
(* The destructor of FollowGuard, at the end of the block of insertNodes   *)
(* or while an exception unwinds it; then flattenMap goes on to its next   *)
(* entry, or the exception goes on to leave it.                            *)
(***************************************************************************)
\* Slips: the entry is removed at the end of the block and not by a destructor;
\* the entry is followed again.
AfterGuard_noRaii(t) == IF error[t] = "none" THEN Pop(follow_stack[t]) ELSE follow_stack[t]
AfterFollow_again(frame) == frame

AfterGuard(t) == Pop(follow_stack[t])
AfterFollow(frame) == [frame EXCEPT !.at = @ + 1]

Unguard(t) ==
  /\ pc[t] = "unguard"
  /\ follow_stack' = [follow_stack EXCEPT ![t] = AfterGuard(t)]
  /\ \/ /\ error[t] = "none"
        /\ ReplaceTop(t, AfterFollow(Top(t)))
        /\ Proceed(t, "flatten")
     \/ /\ error[t] # "none"
        /\ Proceed(t, "unwind")
        /\ UNCHANGED frames
  /\ UNCHANGED <<disk, edits, target, returned>>

\* The exception leaves flattenMap; the insertNodes that called it destroys its guard.
Unwind(t) ==
  /\ pc[t] = "unwind"
  /\ frames' = [frames EXCEPT ![t] = Pop(@)]
  /\ target' = [target EXCEPT ![t] = Top(t).file]
  /\ \/ /\ Len(frames[t]) = 1
        /\ Finish(t, root[t], error[t], EmptyNode)
     \/ /\ Len(frames[t]) # 1
        /\ Proceed(t, "unguard")
  /\ UNCHANGED <<disk, edits, follow_stack, returned>>

\* Somebody creates, removes or rewrites a file.
Edit(f) ==
  /\ edits < MaxEdits
  /\ edits' = edits + 1
  /\ \E content \in Docs \cup {Absent, Corrupt} :
       content # disk[f] /\ disk' = [disk EXCEPT ![f] = content]
  /\ UNCHANGED locals

Step(t) ==
  \/ LoadFile(t) \/ AddEntry(t) \/ Resolve(t) \/ Guard(t) \/ Return(t)
  \/ MergeChild(t) \/ Unguard(t) \/ Unwind(t)

Next ==
  \/ \E t \in Threads : Step(t) \/ \E f \in Files : Call(t, f)
  \/ \E f \in Files : Edit(f)

Spec == Init /\ [][Next]_vars

\* A thread that is loading runs on; nobody has to start a load or to edit a file.
Fairness == \A t \in Threads : WF_vars(Step(t))
FairSpec == Spec /\ Fairness

-----------------------------------------------------------------------------
Following == {"guard", "load", "merge", "unguard"}

\* The types; a load has a root, insertNodes has a file, and an exception is
\* in flight only on its way out of insertNodes and flattenMap.
TypeOK ==
  /\ disk \in [Files -> Docs \cup {Absent, Corrupt}]
  /\ edits \in Nat
  /\ pc \in [Threads -> Labels]
  /\ root \in [Threads -> Files \cup {NoFile}]
  /\ frames \in [Threads -> Seq(Frame)]
  /\ follow_stack \in [Threads -> Seq(Files)]
  /\ target \in [Threads -> Files \cup {NoFile}]
  /\ returned \in [Threads -> Node]
  /\ error \in [Threads -> Errors \cup {"none"}]
  /\ result \in [Threads -> Result]
  /\ \A t \in Threads :
       /\ root[t] = NoFile <=> pc[t] = "idle"
       /\ frames[t] = <<>> => pc[t] \in {"idle", "load"}
       /\ pc[t] \in Following => target[t] \in Files
       /\ error[t] # "none" => pc[t] \in {"unguard", "unwind"}

\* The innermost insertNodes holds a guard and no frame of its document exists.
GuardAlive(t) == pc[t] \in {"load", "merge", "unguard"} /\ frames[t] # <<>>
Depth(t) == IF frames[t] = <<>> THEN 0 ELSE Len(frames[t]) - 1

GuardsMatch(t) ==
  /\ Len(follow_stack[t]) = Depth(t) + IF GuardAlive(t) THEN 1 ELSE 0
  /\ \A i \in 1..Depth(t) : follow_stack[t][i] = frames[t][i + 1].file
  /\ GuardAlive(t) => follow_stack[t][Len(follow_stack[t])] = target[t]
  /\ pc[t] = "idle" => frames[t] = <<>>

(***************************************************************************)
(* Guards and frames are in step: under every frame but the root's lies    *)
(* one guard, for the frame's file, and one more is alive while the        *)
(* innermost insertNodes holds one and no frame of its document exists.    *)
(* In particular an idle thread has an empty follow_stack, whatever        *)
(* exception ended its loads: a leftover would be taken for a cycle.       *)
(***************************************************************************)
GuardsMatchFrames == \A t \in Threads : GuardsMatch(t)

EachOnce(t) == \A i, j \in 1..Len(follow_stack[t]) :
  follow_stack[t][i] = follow_stack[t][j] => i = j

\* No thread is following a file twice at the same time: FollowGuard refuses it.
NoFileTwice == \A t \in Threads : EachOnce(t)

\* So the recursion is bounded by the number of files, whatever they hold.
BoundedRecursion == \A t \in Threads : Len(frames[t]) <= Cardinality(Files) + 1

\* The frame stands at an entry that follows f.
Suspended(frame, f) ==
  frame.at <= Len(frame.doc) /\ frame.doc[frame.at] = Follow(f)
Chained(t) ==
  /\ \A i \in 1..Len(frames[t]) - 1 : Suspended(frames[t][i], frames[t][i + 1].file)
  /\ frames[t] # <<>> /\ pc[t] \in Following => Suspended(Top(t), target[t])

\* Every frame is suspended at the very entry that follows the next frame's file,
\* so that flattenMap goes on behind that entry when insertNodes returns.
ChainOfFollows == \A t \in Threads : Chained(t)

\* A chain of open documents leads from target back to itself.
ClosesCycle(t) == \E first \in 2..Len(frames[t]) :
  /\ frames[t][first].file = target[t]
  /\ \A i \in first..Len(frames[t]) :
       Suspended(frames[t][i], IF i < Len(frames[t]) THEN frames[t][i + 1].file
                                                     ELSE target[t])

(***************************************************************************)
(* A 'follow' cycle is reported only for a chain of open documents that    *)
(* leads from the file back to itself, in this thread, whatever the other  *)
(* threads load and however the file system changes.                       *)
(***************************************************************************)
CycleIsReal == [][\A t \in Threads :
  error[t] # "cycle" /\ error'[t] = "cycle" => ClosesCycle(t)]_vars

\* Every load ends, with a node or with an exception, also on cyclic files.
EveryLoadEnds == \A t \in Threads : (pc[t] # "idle") ~> (pc[t] = "idle")

-----------------------------------------------------------------------------
\* What a caller sees of a load is the file that he asks for and the result.
Abstract == INSTANCE FollowLoad WITH disk <- disk, root <- root, result <- result

(***************************************************************************)
(* As long as nobody edits the files, the answer to every load is the text *)
(* that the files stand for: the recursion with its thread-local stack     *)
(* computes what FollowLoad promises.                                      *)
(***************************************************************************)
ImplementsLoad == Abstract!Spec

=============================================================================
