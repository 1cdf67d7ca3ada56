------------------------------ MODULE Flatten ------------------------------
(***************************************************************************)
(* What flattening makes of the contents of files that lie in several      *)
(* folders (src/src/yaml_utils.cpp): flattenNode, flattenSequence,         *)
(* flattenMap and insertNodes on nested documents, the search of schemas   *)
(* in folders, and the relative paths among the values.  FollowStack says  *)
(* how the same recursion runs, step by step.                              *)
(*                                                                         *)
(* A document is a tree like a node, but a map is the sequence of its      *)
(* entries <<key, value>>, and the key "follow" has a reference; one with  *)
(* several references is as many entries, as insertNodes deals with them   *)
(* in order.  A value is the file that defines it, whether it starts as a  *)
(* relative path, whether it is the value of a key, and the folders        *)
(* prepended to it so far.                                                 *)
(***************************************************************************)
EXTENDS YamlNodes

CONSTANTS Folder,        \* folders
          SchemaNames,   \* names of files that have the extension of schemas
          Dotted,        \* those whose path starts with "./" or "../"
          SchemaFolders, \* the sequence of folders in which schemas are searched
          Disks,         \* file systems: functions from <<folder, name>> to documents
          DocHeight,     \* bound: how many keys lead from the root of a document to what is deepest in it
          Depth          \* bound: how many calls of flattenNode may be open

NoFolder == "none"
NoFile == <<NoFolder, "none">>

Doc(entries) == [t |-> "doc", entries |-> entries]
ToFile(name) == [t |-> "ref", folder |-> NoFolder, name |-> name]
ToFileIn(folder, name) == [t |-> "ref", folder |-> folder, name |-> name]
Value(file, rel) == Scalar([by |-> file, rel |-> rel, keyed |-> TRUE, prefix |-> <<>>])
Element(file, rel) == Scalar([by |-> file, rel |-> rel, keyed |-> FALSE, prefix |-> <<>>])

IsSchema(file) == file[2] \in SchemaNames

\* A document and what is in it, level by level; and all of a file system.
Inner(d) ==
  CASE d.t = "doc" -> {d.entries[i][2] : i \in {j \in DOMAIN d.entries : d.entries[j][1] # "follow"}}
    [] d.t = "seq" -> Range(d.s)
    [] OTHER -> {}
PartLevels(d) ==
  LET level[h \in 0..(DocHeight + 1)] == IF h = 0 THEN {d} ELSE UNION {Inner(x) : x \in level[h - 1]}
  IN level
Parts(d) == UNION {PartLevels(d)[h] : h \in 0..DocHeight}
Documents(disk) == UNION {Parts(disk[f]) : f \in DOMAIN disk}

\* What a file may hold: values are its own, and those of keys are told from elements.
IsDocument(d, file) ==
  CASE d.t = "doc" ->
         /\ d.entries \in Seq(Range(d.entries))
         /\ \A i \in DOMAIN d.entries :
              LET e == d.entries[i]
              IN /\ e[1] = "follow" => e[2].t = "ref" /\ e[2].folder \in Folder \cup {NoFolder}
                 /\ e[1] # "follow" /\ e[2].t = "scalar" => \E rel \in BOOLEAN : e[2] = Value(file, rel)
    [] d.t = "seq" ->
         /\ d.s \in Seq(Range(d.s))
         /\ \A i \in DOMAIN d.s : d.s[i].t = "scalar" => \E rel \in BOOLEAN : d.s[i] = Element(file, rel)
    [] OTHER -> d = Null \/ d.t = "scalar"

ASSUME FolderAssumption ==
  NoFolder \notin Folder /\ Dotted \subseteq Folder /\ SchemaFolders \in Seq(Folder)
ASSUME DepthAssumption == DocHeight \in Nat /\ Depth \in Nat /\ Depth <= Height

\* A file is a map or a sequence, or empty, and Depth is no less than what can be open:
\* every file once and the root twice.
ASSUME DisksAssumption ==
  \A disk \in Disks :
    /\ \A f \in DOMAIN disk :
         /\ f[1] \in Folder /\ f = <<f[1], f[2]>> /\ disk[f].t # "scalar"
         /\ \A d \in Parts(disk[f]) : IsDocument(d, f)
         /\ PartLevels(disk[f])[DocHeight + 1] = {}
    /\ IsFiniteSet(DOMAIN disk) /\ Depth >= (Cardinality(DOMAIN disk) + 1) * (DocHeight + 1)

-----------------------------------------------------------------------------
\* isRelativePath, of a value with the folders prepended to it.
IsRelativePath(v) == IF v.prefix = <<>> THEN v.rel ELSE Head(v.prefix) \in Dotted

\* The last part of addNodeYaml; flattenMap gives a parent_path with scalars only.
Prepend(node, parent_path) ==
  IF node.t = "scalar" /\ IsRelativePath(node.v)
    THEN Scalar([node.v EXCEPT !.prefix = <<parent_path>> \o @])
    ELSE node

\* flattenMap adds an entry that is not 'follow' to the node of an input file.
AddInFolder(node, key, value, current_folder, override) ==
  LET merged == AddNodeYaml(node, key, value, override)
  IN IF merged # Thrown /\ value.t = "scalar"
       THEN Map([merged.m EXCEPT ![key] = Prepend(@, current_folder)])
       ELSE merged

\* findFileRecursive: the first folder that has the file.  A name that is not
\* found throws, and so does a file that does not exist.
FindFileRecursive(disk, name, folders) ==
  LET having == {i \in DOMAIN folders : <<folders[i], name>> \in DOMAIN disk}
  IN IF having = {} THEN NoFile ELSE <<folders[CHOOSE i \in having : \A j \in having : i <= j], name>>

\* The schema_folders: those of the server for a schema, none for an input file.
FoldersOf(file) == IF IsSchema(file) THEN SchemaFolders ELSE <<>>

\* The file that a reference means, in a file that is flattened in current_folder.
Target(disk, ref, file, current_folder) ==
  IF ref.name \in SchemaNames THEN FindFileRecursive(disk, ref.name, FoldersOf(file))
  ELSE LET to == <<IF ref.folder = NoFolder THEN current_folder ELSE ref.folder, ref.name>>
       IN IF to \in DOMAIN disk THEN to ELSE NoFile

-----------------------------------------------------------------------------
(***************************************************************************)
(* A call of flattenNode: the node d of a file, the current_folder, and    *)
(* the follow_stack.  What a call returns depends on what the calls that   *)
(* it makes return, which is flat.                                         *)
(***************************************************************************)
Calls(disk) ==
  [file : DOMAIN disk, d : Documents(disk), folder : Folder, stack : Seq(DOMAIN disk)]

\* flattenNode of a child, and of a followed file.
OfChild(call, d) == [call EXCEPT !.d = d]

\* Slip: a YAML file is flattened in the folder of its follower.
FolderOf_follower(file, current_folder) == current_folder

\* The folder with which insertNodes has the followed file flattened.
FolderOf(file, current_folder) == IF IsSchema(file) THEN current_folder ELSE file[1]

OfFile(disk, call, to) ==
  [file |-> to, d |-> disk[to], folder |-> FolderOf(to, call.folder), stack |-> Append(call.stack, to)]

\* The children of the followed file are added.
AddFile(node, child, override, is_schema) ==
  CASE child.t = "map" -> AddMap(node, child.m, override, is_schema)
    [] child = Thrown \/ (child.t = "seq" /\ child.s # <<>>) -> Thrown
    [] OTHER -> node

InsertNodes(disk, override, call, node, ref, flat) ==
  LET to == Target(disk, ref, call.file, call.folder)
  IN IF to = NoFile \/ to \in Range(call.stack) THEN Thrown
     ELSE AddFile(node, flat[OfFile(disk, call, to)], override, IsSchema(to))

AddEntry(disk, override, call, node, e, flat) ==
  LET child == flat[OfChild(call, e[2])]
  IN CASE node = Thrown -> Thrown
       [] node # Thrown /\ e[1] = "follow" -> InsertNodes(disk, override, call, node, e[2], flat)
       [] OTHER -> CASE child = Thrown -> Thrown
                     [] child # Thrown /\ IsSchema(call.file) -> AddNodeSchema(node, e[1], child, override)
                     [] OTHER -> AddInFolder(node, e[1], child, call.folder, override)

\* Slip: the entries that follow a file are dealt with first.
InOrder_followsFirst(entries) ==
  SelectSeq(entries, LAMBDA e : e[1] = "follow") \o SelectSeq(entries, LAMBDA e : e[1] # "follow")
InOrder(entries) == entries

\* Entry by entry; without entries (also for a map {}) the result is a null node,
\* since node_aux is one.
FlattenMap(disk, override, call, flat) ==
  LET entries == InOrder(call.d.entries)
      node_aux[i \in 0..Len(entries)] ==
        IF i = 0 THEN Null ELSE AddEntry(disk, override, call, node_aux[i - 1], entries[i], flat)
  IN node_aux[Len(entries)]

\* Slip: the elements of a sequence are left as they are.
FlattenSequence_skip(d, elements) == d

\* flattenSequence, of a sequence with these elements once they are flattened.
FlattenSequence(d, elements) == IF Thrown \in Range(elements) THEN Thrown ELSE Seq_(elements)

FlattenNode(disk, override, call, flat) ==
  CASE call.d.t = "doc" -> FlattenMap(disk, override, call, flat)
    [] call.d.t = "seq" ->
         FlattenSequence(call.d, [i \in DOMAIN call.d.s |-> flat[OfChild(call, call.d.s[i])]])
    [] OTHER -> call.d

\* What the calls return when so many of them may be open.
Flattened(disk, override) ==
  LET calls == Calls(disk)
      flat[h \in 0..Depth] ==
        [call \in calls |-> IF h = 0 THEN Thrown ELSE FlattenNode(disk, override, call, flat[h - 1])]
  IN flat

\* loadYaml and loadSchema up to the flattening, which begins without a follow_stack.
RootCall(disk, file) == [file |-> file, d |-> disk[file], folder |-> file[1], stack |-> <<>>]
Load(disk, file, override) == Flattened(disk, override)[Depth][RootCall(disk, file)]

-----------------------------------------------------------------------------
VARIABLES disk,      \* the file system
          override,  \* the flag of the server
          file,      \* the file that was loaded last
          result     \* what it was flattened to

vars == <<disk, override, file, result>>

Init == disk \in Disks /\ override \in BOOLEAN /\ file = NoFile /\ result = Null

LoadYaml(f) ==
  /\ f \in DOMAIN disk /\ ~IsSchema(f)
  /\ file' = f /\ result' = Load(disk, f, override)
  /\ UNCHANGED <<disk, override>>

LoadSchema(name) ==
  LET found == FindFileRecursive(disk, name, SchemaFolders)
  IN /\ name \in SchemaNames /\ found # NoFile
     /\ file' = found /\ result' = Load(disk, found, override)
     /\ UNCHANGED <<disk, override>>

Next == (\E f \in DOMAIN disk : LoadYaml(f)) \/ (\E name \in SchemaNames : LoadSchema(name))

Spec == Init /\ [][Next]_vars

-----------------------------------------------------------------------------
\* A file that was flattened is a tree of nodes, without any reference left in it,
\* at whatever depth, in maps as in sequences.
TypeOK ==
  /\ file \in DOMAIN disk \cup {NoFile}
  /\ result = Thrown \/ IsTree(result)

(***************************************************************************)
(* A relative path that is the value of a key of an input file is resolved *)
(* with the folder of that file, once, and nothing in a schema is.  The    *)
(* documentation has the elements of sequences resolved too, the code has  *)
(* not: whether they are is left open, but never with another folder.      *)
(***************************************************************************)
Resolved(v) ==
  LET own == IF v.rel /\ ~IsSchema(v.by) THEN <<v.by[1]>> ELSE <<>>
  IN v.prefix = own \/ (~v.keyed /\ v.prefix = <<>>)

(***************************************************************************)
(* All scalars, at whatever depth and through however many files they      *)
(* came, whatever their folders, also those that another file put in the   *)
(* place of one, and elements of a sequence that became a map.             *)
(***************************************************************************)
PathsOfOwner ==
  result # Thrown => \A x \in Places(result, "nodes") : x[2].t = "scalar" => Resolved(x[2].v)

=============================================================================
