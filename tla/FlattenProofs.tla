--------------------------- MODULE FlattenProofs ---------------------------
(***************************************************************************)
(* That flattening gives trees whose relative paths are resolved with the  *)
(* folder of the file that defines them, that it ends, and that 'follow'   *)
(* pastes: for any folders, any finite set of files and any documents.     *)
(*                                                                         *)
(* What a call of flattenNode returns is fit for its caller (Returns): the *)
(* value itself, or a node that is tame, that is, not too high a tree with *)
(* resolved values.  It follows by induction on the calls that are open.   *)
(*                                                                         *)
(* That what a call returns is also what its text means (Pastes) follows   *)
(* by induction on the calls that may still be opened (Room), from one     *)
(* fact: adding is associative, unless a map comes to a sequence           *)
(* (MeetAssociates).                                                       *)
(***************************************************************************)
EXTENDS PastedText, YamlNodesProofs, FiniteSetTheorems

-----------------------------------------------------------------------------
(* Documents and calls.                                                    *)

Inmost(L) == UNION {Inner(x) : x \in L}

\* The levels of a document exist, and each comes from the one above.
LEMMA PartLevelsDefined ==
  ASSUME NEW d
  PROVE  /\ PartLevels(d)[0] = {d}
         /\ \A h \in 1..(DocHeight + 1) : PartLevels(d)[h] = Inmost(PartLevels(d)[h - 1])
<1> DEFINE H == DocHeight + 1
           Body(f) == [h \in 0..H |-> IF h = 0 THEN {d} ELSE Inmost(f[h - 1])]
           T == {m \in 0..H : \E f : f = [h \in 0..m |-> IF h = 0 THEN {d} ELSE Inmost(f[h - 1])]}
<1>0. H \in Nat /\ H \in 0..H
  BY DepthAssumption
<1> HIDE DEF H
<1>1. 0 \in T
  <2> DEFINE f == [h \in 0..0 |-> {d}]
  <2>1. f = [h \in 0..0 |-> IF h = 0 THEN {d} ELSE Inmost(f[h - 1])]
    OBVIOUS
  <2> HIDE DEF f
  <2> QED
    BY <1>0, <2>1
<1>2. ASSUME NEW m \in 0..H, m < H, m \in T PROVE m + 1 \in T
  <2>1. PICK f : f = [h \in 0..m |-> IF h = 0 THEN {d} ELSE Inmost(f[h - 1])]
    BY <1>2
  <2> DEFINE g == [h \in 0..(m + 1) |-> IF h = m + 1 THEN Inmost(f[m]) ELSE f[h]]
  <2>2. ASSUME NEW h \in 0..(m + 1) PROVE g[h] = IF h = 0 THEN {d} ELSE Inmost(g[h - 1])
    <3>1. CASE h = 0
      BY <1>0, <2>1, <3>1
    <3>2. CASE h # 0 /\ h = m + 1
      BY <1>0, <3>2
    <3>3. CASE h # 0 /\ h # m + 1
      <4>1. h \in 0..m /\ h - 1 \in 0..m /\ h - 1 # m + 1 /\ h - 1 \in 0..(m + 1)
        BY <1>0, <3>3
      <4> QED
        BY <2>1, <3>3, <4>1
    <3> QED
      BY <3>1, <3>2, <3>3
  <2>3. g = [h \in 0..(m + 1) |-> IF h = 0 THEN {d} ELSE Inmost(g[h - 1])]
    <3>1. g = [h \in 0..(m + 1) |-> g[h]]
      OBVIOUS
    <3> HIDE DEF g
    <3> QED
      BY <2>2, <3>1
  <2>4. m + 1 \in 0..H
    BY <1>0, <1>2
  <2> HIDE DEF g
  <2> QED
    BY <2>3, <2>4
<1>3. \E f : f = Body(f)
  <2>1. 0..H \subseteq T
    <3> HIDE DEF T
    <3> QED
      BY <1>0, <1>1, <1>2, Induction
  <2> QED
    BY <1>0, <2>1
<1>4. PartLevels(d) = CHOOSE f : f = Body(f)
  BY DEF PartLevels, Inmost, H
<1>5. PartLevels(d) = Body(PartLevels(d))
  <2> HIDE DEF Body
  <2> QED
    BY <1>3, <1>4
<1>6. ASSUME NEW h \in 0..H
      PROVE  PartLevels(d)[h] = IF h = 0 THEN {d} ELSE Inmost(PartLevels(d)[h - 1])
  <2> DEFINE L == PartLevels(d)
  <2> HIDE DEF L
  <2>1. L = Body(L)
    BY <1>5 DEF L
  <2>2. L[h] = IF h = 0 THEN {d} ELSE Inmost(L[h - 1])
    BY <2>1
  <2> QED
    BY <2>2 DEF L
<1> QED
  BY <1>0, <1>6 DEF H

\* A file has its document, and whatever is in one of its parts.
LEMMA PartsOfFile ==
  ASSUME NEW D \in Disks, NEW f \in DOMAIN D
  PROVE  /\ D[f] \in Parts(D[f]) /\ Parts(D[f]) \subseteq Documents(D)
         /\ \A d \in Parts(D[f]) : IsDocument(d, f) /\ Inner(d) \subseteq Parts(D[f])
<1>0. DocHeight \in Nat /\ 0 \in 0..DocHeight
  BY DepthAssumption
<1>1. D[f] \in Parts(D[f])
  BY <1>0, PartLevelsDefined DEF Parts
<1>2. Parts(D[f]) \subseteq Documents(D)
  BY DEF Documents
<1>3. ASSUME NEW d \in Parts(D[f]), NEW x \in Inner(d) PROVE x \in Parts(D[f])
  <2>1. PICK h \in 0..DocHeight : d \in PartLevels(D[f])[h]
    BY DEF Parts
  <2>2. h + 1 \in 1..(DocHeight + 1) /\ (h + 1) - 1 = h
    BY <1>0
  <2>3. x \in PartLevels(D[f])[h + 1]
    <3>1. PartLevels(D[f])[h + 1] = Inmost(PartLevels(D[f])[h])
      BY <2>2, PartLevelsDefined
    <3> QED
      BY <2>1, <3>1 DEF Inmost
  <2>4. h # DocHeight
    BY <2>3, DisksAssumption
  <2>5. h + 1 \in 0..DocHeight
    BY <1>0, <2>4
  <2> QED
    BY <2>3, <2>5 DEF Parts
<1> QED
  BY <1>1, <1>2, <1>3, DisksAssumption

\* What the files are.
LEMMA FilesOfDisk ==
  ASSUME NEW D \in Disks, NEW f \in DOMAIN D
  PROVE  /\ f[1] \in Folder /\ f = <<f[1], f[2]>> /\ f # NoFile
         /\ D[f].t # "scalar"
  BY DisksAssumption, FolderAssumption DEF NoFile

\* A schema that is found is there.
LEMMA FoundIsFile ==
  ASSUME NEW D, NEW name, NEW folders, DOMAIN folders \subseteq Nat
  PROVE  FindFileRecursive(D, name, folders) \in DOMAIN D \cup {NoFile}
<1> DEFINE having == {i \in DOMAIN folders : <<folders[i], name>> \in DOMAIN D}
           first == CHOOSE i \in having : \A j \in having : i <= j
<1>1. CASE having = {}
  BY <1>1 DEF FindFileRecursive
<1>2. CASE having # {}
  <2>1. having \in SUBSET Nat
    OBVIOUS
  <2>2. \E i \in having : \A j \in having : i <= j
    <3> HIDE DEF having
    <3> QED
      BY <1>2, <2>1, Least
  <2>3. first \in having
    <3> HIDE DEF having
    <3> QED
      BY <2>2
  <2>4. FindFileRecursive(D, name, folders) = <<folders[first], name>>
    BY <1>2 DEF FindFileRecursive
  <2> QED
    BY <2>3, <2>4
<1> QED
  BY <1>1, <1>2

\* An input file is always flattened in its own folder.
Sound(D, call) ==
  /\ call \in Calls(D) /\ call.d \in Parts(D[call.file])
  /\ ~IsSchema(call.file) => call.folder = call.file[1]

\* The call for a part of a document is as sound as the one that makes it.
LEMMA SoundChild ==
  ASSUME NEW D \in Disks, NEW call, Sound(D, call), NEW d \in Inner(call.d)
  PROVE  Sound(D, OfChild(call, d)) /\ OfChild(call, d).d = d
<1>1. call \in Calls(D) /\ call.file \in DOMAIN D
  BY DEF Sound, Calls
<1>2. d \in Parts(D[call.file]) /\ d \in Documents(D)
  BY <1>1, PartsOfFile DEF Sound
<1>3. /\ OfChild(call, d) \in Calls(D) /\ OfChild(call, d).d = d
      /\ OfChild(call, d).file = call.file /\ OfChild(call, d).folder = call.folder
  BY <1>1, <1>2 DEF OfChild, Calls
<1> QED
  BY <1>2, <1>3 DEF Sound

\* So is the call for a file that is followed.
LEMMA SoundFile ==
  ASSUME NEW D \in Disks, NEW call, Sound(D, call), NEW to \in DOMAIN D
  PROVE  /\ Sound(D, OfFile(D, call, to)) /\ OfFile(D, call, to).d = D[to]
<1>1. call.folder \in Folder /\ call.stack \in Seq(DOMAIN D)
  BY DEF Sound, Calls
<1>2. to[1] \in Folder /\ D[to] \in Parts(D[to]) /\ D[to] \in Documents(D)
  BY FilesOfDisk, PartsOfFile
<1>3. FolderOf(to, call.folder) \in Folder /\ (~IsSchema(to) => FolderOf(to, call.folder) = to[1])
  BY <1>1, <1>2 DEF FolderOf
<1>4. Append(call.stack, to) \in Seq(DOMAIN D)
  BY <1>1
<1>5. /\ OfFile(D, call, to).d = D[to] /\ OfFile(D, call, to).file = to
      /\ OfFile(D, call, to).folder = FolderOf(to, call.folder)
      /\ OfFile(D, call, to) \in Calls(D)
  BY <1>2, <1>3, <1>4 DEF OfFile, Calls
<1> QED
  BY <1>2, <1>3, <1>5 DEF Sound

-----------------------------------------------------------------------------
(* Nodes that are fit for being added to each other.                       *)

\* What the code makes of a path, which decides what Resolved leaves open: an element of a
\* sequence stays as it is written.
ByCode(v) == v.prefix = IF v.rel /\ v.keyed /\ ~IsSchema(v.by) THEN <<v.by[1]>> ELSE <<>>

Clean(n) == \A x \in Places(n, "nodes") : x[2].t = "scalar" => ByCode(x[2].v)

\* A tree with nothing on level h and below.
Tame(n, h) == IsTree(n) /\ Levels(n, "nodes")[h] = {} /\ Clean(n)

\* It is no higher for a greater h.
LEMMA TameHigher ==
  ASSUME NEW n, NEW h \in 0..(Height + 1), Tame(n, h), NEW k \in h..(Height + 1)
  PROVE  Tame(n, k)
BY EmptyBelow DEF Tame

\* A value whose path is resolved.
LEMMA TameScalar ==
  ASSUME NEW n, n.t = "scalar", ByCode(n.v), NEW h \in 1..(Height + 1)
  PROVE  Tame(n, h)
<1>1. IsNode(n) /\ DOMAIN Children(n) = {}
  BY DEF IsNode, Children
<1> QED
  BY <1>1, LeafIsTree DEF Tame, Clean

\* The node that flattenMap begins with.
LEMMA TameNull ==
  ASSUME NEW h \in 1..(Height + 1)
  PROVE  Tame(Null, h)
<1>1. IsNode(Null) /\ DOMAIN Children(Null) = {} /\ Null.t # "scalar"
  BY DEF IsNode, Children, Null
<1> QED
  BY <1>1, LeafIsTree DEF Tame, Clean

\* A node is as tame as its children, and they are as tame as it is.
LEMMA TameOfChildren ==
  ASSUME NEW n, IsNode(n), n.t # "scalar", NEW h \in 0..Height,
         \A key \in DOMAIN Children(n) : Tame(Children(n)[key], h)
  PROVE  Tame(n, h + 1)
<1>1. \A key \in DOMAIN Children(n) : IsTree(Children(n)[key]) /\ Levels(Children(n)[key], "nodes")[h] = {}
  BY DEF Tame
<1>2. /\ IsTree(n) /\ Levels(n, "nodes")[h + 1] = {}
      /\ \A y \in Places(n, "nodes") :
           y[2] = n \/ \E key \in DOMAIN Children(n) : \E z \in Places(Children(n)[key], "nodes") : z[2] = y[2]
  BY <1>1, TreeOfChildren
<1>3. ASSUME NEW y \in Places(n, "nodes"), y[2].t = "scalar" PROVE ByCode(y[2].v)
  <2>1. PICK key \in DOMAIN Children(n) : \E z \in Places(Children(n)[key], "nodes") : z[2] = y[2]
    BY <1>2, <1>3
  <2>2. Clean(Children(n)[key])
    BY DEF Tame
  <2> QED
    BY <1>3, <2>1, <2>2 DEF Clean
<1> QED
  BY <1>2, <1>3 DEF Tame, Clean

\* A child is tame, one level above.
LEMMA TameChild ==
  ASSUME NEW n, NEW h \in 0..Height, Tame(n, h + 1), NEW key \in DOMAIN Children(n)
  PROVE  Tame(Children(n)[key], h)
<1> DEFINE c == Children(n)[key]
<1>1. /\ IsTree(c) /\ Levels(c, "nodes")[h] = {}
      /\ \A z \in Places(c, "nodes") : \E y \in Places(n, "nodes") : y[2] = z[2]
  BY ChildIsTree DEF Tame
<1> HIDE DEF c
<1>2. Clean(c)
  <2>1. SUFFICES ASSUME NEW z \in Places(c, "nodes"), z[2].t = "scalar" PROVE ByCode(z[2].v)
    BY DEF Clean
  <2>2. PICK y \in Places(n, "nodes") : y[2] = z[2]
    BY <1>1
  <2> QED
    BY <2>1, <2>2 DEF Tame, Clean
<1> QED
  BY <1>1, <1>2 DEF Tame, c

\* The node of an entry.
LEMMA TameEntry ==
  ASSUME NEW key, NEW value, NEW h \in 0..Height, Tame(value, h)
  PROVE  Tame(Map(Entry(key, value)), h + 1)
<1> DEFINE n == Map(Entry(key, value))
<1>1. n.t = "map" /\ IsNode(n) /\ n.t # "scalar"
  BY DEF Map, IsNode
<1>2. DOMAIN Children(n) = {key} /\ Children(n)[key] = value
  BY DEF Map, Children, Entry
<1> HIDE DEF n
<1>3. Tame(n, h + 1)
  BY <1>1, <1>2, TameOfChildren
<1> QED
  BY <1>3 DEF n

\* The map of the children of a map.
LEMMA TameMap ==
  ASSUME NEW n, n.t = "map", NEW h \in 0..Height, Tame(n, h + 1)
  PROVE  Tame(Map(n.m), h + 1)
<1> DEFINE m == Map(n.m)
<1>1. m.t = "map" /\ IsNode(m) /\ m.t # "scalar"
  BY DEF Map, IsNode
<1>2. Children(m) = n.m /\ Children(n) = n.m
  BY DEF Map, Children
<1> HIDE DEF m
<1>3. \A key \in DOMAIN Children(m) : Tame(Children(m)[key], h)
  BY <1>2, TameChild
<1>4. Tame(m, h + 1)
  BY <1>1, <1>3, TameOfChildren
<1> QED
  BY <1>4 DEF m

\* A sequence.
LEMMA TameSequence ==
  ASSUME AllIndexed, NEW s, s \in Seq(Range(s)), NEW h \in 0..Height, \A i \in DOMAIN s : Tame(s[i], h)
  PROVE  Tame(Seq_(s), h + 1)
<1> DEFINE n == Seq_(s)
<1>1. n.t = "seq" /\ n.s = s /\ IsNode(n) /\ n.t # "scalar"
  BY DEF Seq_, IsNode
<1> HIDE DEF n
<1>2. /\ DOMAIN Children(n) = {IndexKey[i] : i \in DOMAIN s}
      /\ \A i \in DOMAIN s : Children(n)[IndexKey[i]] = s[i]
  BY <1>1, ChildrenOfSequence
<1>3. \A key \in DOMAIN Children(n) : Tame(Children(n)[key], h)
  BY <1>2
<1>4. Tame(n, h + 1)
  BY <1>1, <1>3, TameOfChildren
<1> QED
  BY <1>4 DEF n

\* Adding nodes gives no new values, and no value in the place of a node.
LEMMA TameAdded ==
  ASSUME AllIndexed, NEW old, NEW children, NEW h \in 0..(Height + 1), Tame(old, h), Tame(Map(children), h),
         NEW flag \in BOOLEAN, NEW sort \in BOOLEAN, AddMap(old, children, flag, sort) # Thrown
  PROVE  /\ Tame(AddMap(old, children, flag, sort), h)
         /\ old.t # "scalar" => AddMap(old, children, flag, sort).t # "scalar"
<1> DEFINE m == AddMap(old, children, flag, sort)
<1>1. IsTree(m) /\ Levels(m, "nodes")[h] = {}
  BY AddedTree, AddedHeight DEF Tame
<1>2. Clean(m)
  <2>1. SUFFICES ASSUME NEW y \in Places(m, "nodes"), y[2].t = "scalar" PROVE ByCode(y[2].v)
    BY DEF Clean
  <2>2. PICK z \in Places(old, "nodes") \cup Places(Map(children), "nodes") : z[2] = y[2]
    BY <2>1, AddedScalars DEF Tame
  <2> QED
    BY <2>1, <2>2 DEF Tame, Clean
<1>3. old.t # "scalar" => m.t # "scalar"
  BY ChildrenAdded DEF AddMap
<1> QED
  BY <1>1, <1>2, <1>3 DEF Tame

-----------------------------------------------------------------------------
(* What calls return.                                                      *)

\* A call returns the value that it is given, or a node that is tame, or throws.
Returns(call, r, h) ==
  r # Thrown => /\ h # 0
                /\ IF call.d.t = "scalar" THEN r = call.d ELSE r.t # "scalar" /\ Tame(r, h)

\* What a caller gets of a part of its document is tame, unless it is a value with a
\* relative path that is still to be resolved.
LEMMA ChildReturns ==
  ASSUME NEW D \in Disks, NEW call, Sound(D, call), NEW d \in Inner(call.d), NEW h \in 0..(Height + 1), NEW r,
         Returns(OfChild(call, d), r, h), r # Thrown
  PROVE  /\ d.t = "scalar" <=> r.t = "scalar"
         /\ d.t = "scalar" => r = d
         /\ d.t # "scalar" \/ ByCode(d.v) => Tame(r, h)
<1>1. h \in 1..(Height + 1) /\ OfChild(call, d).d = d
  BY SoundChild, HeightAssumption DEF Returns
<1> QED
  BY <1>1, TameScalar DEF Returns

\* An entry with a value that is resolved when it is added to the node.
LEMMA AddInFolderTame ==
  ASSUME AllIndexed, NEW node, node.t # "scalar", NEW h \in 1..Height, Tame(node, h + 1), NEW key, NEW value,
         value.t = "scalar", NEW current_folder, ByCode(Prepend(value, current_folder).v), NEW flag \in BOOLEAN,
         AddInFolder(node, key, value, current_folder, flag) # Thrown
  PROVE  /\ Tame(AddInFolder(node, key, value, current_folder, flag), h + 1)
         /\ AddInFolder(node, key, value, current_folder, flag).t # "scalar"
<1> DEFINE children == Entry(key, value)
           merged == AddNodeYaml(node, key, value, flag)
           s == Prepend(value, current_folder)
           m == [merged.m EXCEPT ![key] = Prepend(@, current_folder)]
<1>0. Height \in Nat /\ h \in 0..Height /\ h \in 1..(Height + 1) /\ 1 \in 1..(Height + 1) /\ 0 \in 0..Height
  BY HeightAssumption
<1>1. merged # Thrown /\ merged = AddMap(node, children, flag, FALSE)
  BY DEF AddInFolder, AddNodeYaml
<1>2. /\ IsTree(node) /\ IsTree(Map(children)) /\ Map(children).t = "map" /\ Map(children).m = children
      /\ DOMAIN children = {key} /\ children[key] = value
  <2> DEFINE n == Map(children)
  <2>1. DOMAIN children = {key} /\ children[key] = value
    BY DEF Entry
  <2> HIDE DEF children
  <2>2. n.t = "map" /\ n.m = children /\ IsNode(n) /\ Children(n) = children
    BY DEF Map, IsNode, Children
  <2>3. IsNode(value) /\ DOMAIN Children(value) = {}
    BY DEF IsNode, Children
  <2>4. IsTree(value) /\ Levels(value, "nodes")[1] = {}
    BY <1>0, <2>3, LeafIsTree
  <2>5. IsTree(n)
    <3> HIDE DEF n
    <3>1. Levels(value, "nodes")[h] = {}
      BY <1>0, <2>4, EmptyBelow
    <3> QED
      BY <1>0, <2>1, <2>2, <2>4, <3>1, TreeOfChildren
  <2> QED
    BY <2>1, <2>2, <2>5 DEF Tame
<1> HIDE DEF children, merged
<1>3. Made(node, children, flag, FALSE, 0, <<node, Map(children)>>, merged)
  <2>1. <<node, Map(children)>> \in PairLevels(node, Map(children))[0]
    BY PairLevelsDefined
  <2> QED
    BY <1>1, <2>1 DEF Made
<1>4. MadeOfChildren(node, children, flag, FALSE, 0, <<node, Map(children)>>, merged)
  <2> DEFINE x == <<node, Map(children)>>
  <2>1. x[1] = node /\ x[2] = Map(children)
    OBVIOUS
  <2> HIDE DEF x
  <2>2. \/ Kept(x[1], x[2], FALSE, merged)
        \/ Replaced(x[1], x[2], flag, FALSE, merged)
        \/ Appended(x[1], x[2], FALSE, merged)
        \/ MadeOfChildren(node, children, flag, FALSE, 0, x, merged)
    BY <1>0, <1>2, <1>3, MadeCases DEF x
  <2>3. ~Kept(x[1], x[2], FALSE, merged) /\ ~Replaced(x[1], x[2], flag, FALSE, merged)
        /\ ~Appended(x[1], x[2], FALSE, merged)
    BY <1>2, <2>1 DEF Kept, Replaced, Appended
  <2> QED
    BY <2>2, <2>3 DEF x
<1>5. /\ DOMAIN merged.m = DOMAIN Children(node) \cup {key}
      /\ \A k \in DOMAIN merged.m :
           \/ /\ k = key /\ k \in DOMAIN Children(node) /\ 1 \in 0..Height
              /\ Made(node, children, flag, FALSE, 1, <<Children(node)[k], value>>, merged.m[k])
           \/ k = key /\ merged.m[k] = value
           \/ k # key /\ k \in DOMAIN Children(node) /\ merged.m[k] = Children(node)[k]
  <2> DEFINE x == <<node, Map(children)>>
  <2>1. x[1] = node /\ x[2] = Map(children) /\ x[2].m = children /\ 0 + 1 = 1
    BY <1>2
  <2> HIDE DEF x
  <2>2. MadeOfChildren(node, children, flag, FALSE, 0, x, merged)
    BY <1>4 DEF x
  <2>3. DOMAIN merged.m = DOMAIN Children(node) \cup {key}
    BY <1>2, <2>1, <2>2 DEF MadeOfChildren
  <2>4. ASSUME NEW k \in DOMAIN merged.m
        PROVE  \/ /\ k = key /\ k \in DOMAIN Children(node) /\ 1 \in 0..Height
                  /\ Made(node, children, flag, FALSE, 1, <<Children(node)[k], value>>, merged.m[k])
               \/ k = key /\ merged.m[k] = value
               \/ k # key /\ k \in DOMAIN Children(node) /\ merged.m[k] = Children(node)[k]
    <3>1. \/ /\ k \in DOMAIN Children(node) \cap DOMAIN children /\ 0 + 1 \in 0..Height
             /\ Made(node, children, flag, FALSE, 0 + 1, <<Children(node)[k], children[k]>>, merged.m[k])
          \/ k \in DOMAIN children \ DOMAIN Children(node) /\ merged.m[k] = children[k]
          \/ k \in DOMAIN Children(node) \ DOMAIN children /\ merged.m[k] = Children(node)[k]
      BY <2>1, <2>2 DEF MadeOfChildren
    <3> QED
      BY <1>2, <2>1, <3>1
  <2> QED
    BY <2>3, <2>4
<1>6. merged.m[key] = value
  <2>1. ASSUME 1 \in 0..Height, Made(node, children, flag, FALSE, 1, <<Children(node)[key], value>>, merged.m[key])
        PROVE  merged.m[key] = value
    <3> DEFINE x == <<Children(node)[key], value>>
               r == merged.m[key]
    <3>1. x[2] = value
      OBVIOUS
    <3> HIDE DEF x, r
    <3>2. \/ Kept(x[1], x[2], FALSE, r)
          \/ Replaced(x[1], x[2], flag, FALSE, r)
          \/ Appended(x[1], x[2], FALSE, r)
          \/ MadeOfChildren(node, children, flag, FALSE, 1, x, r)
      BY <1>2, <2>1, MadeCases DEF x, r
    <3>3. r = value
      BY <3>1, <3>2 DEF Kept, Replaced, Appended, MadeOfChildren
    <3> QED
      BY <3>3 DEF r
  <2> QED
    BY <1>5, <2>1
<1>7. AddInFolder(node, key, value, current_folder, flag) = Map(m)
  BY <1>1 DEF AddInFolder, merged
<1>8. DOMAIN m = DOMAIN Children(node) \cup {key} /\ m[key] = s /\ \A k \in DOMAIN m : k # key => m[k] = Children(node)[k]
  BY <1>5, <1>6
<1> HIDE DEF m
<1>9. Tame(s, h)
  <2>1. s.t = "scalar"
    BY DEF Prepend, Scalar
  <2> QED
    BY <1>0, <2>1, TameScalar
<1> HIDE DEF s
<1>10. \A k \in DOMAIN m : Tame(m[k], h)
  BY <1>0, <1>8, <1>9, TameChild
<1>11. Tame(Map(m), h + 1) /\ Map(m).t # "scalar"
  <2> DEFINE n == Map(m)
  <2>1. n.t = "map" /\ Children(n) = m /\ IsNode(n)
    BY DEF Map, Children, IsNode
  <2> HIDE DEF n
  <2>2. Tame(n, h + 1) /\ n.t # "scalar"
    BY <1>0, <1>10, <2>1, TameOfChildren
  <2> QED
    BY <2>2 DEF n
<1> QED
  BY <1>7, <1>11

\* What calls return when fewer of them may be open.
Fit(D, flat, h) == \A call : Sound(D, call) => Returns(call, flat[call], h)

\* The followed file.
LEMMA InsertNodesTame ==
  ASSUME AllIndexed, NEW D \in Disks, NEW flag \in BOOLEAN, NEW call, Sound(D, call), NEW h \in 0..Height, NEW flat,
         Fit(D, flat, h), NEW node, node.t # "scalar", Tame(node, h + 1), NEW ref,
         InsertNodes(D, flag, call, node, ref, flat) # Thrown
  PROVE  /\ Tame(InsertNodes(D, flag, call, node, ref, flat), h + 1)
         /\ InsertNodes(D, flag, call, node, ref, flat).t # "scalar"
<1> DEFINE to == Target(D, ref, call.file, call.folder)
           child == flat[OfFile(D, call, to)]
           sort == IsSchema(to)
<1>0. Height \in Nat /\ h \in 0..(Height + 1) /\ h + 1 \in 0..(Height + 1) /\ h + 1 \in h..(Height + 1)
  BY HeightAssumption
<1>1. to # NoFile /\ InsertNodes(D, flag, call, node, ref, flat) = AddFile(node, child, flag, sort)
  BY DEF InsertNodes
<1>2. to \in DOMAIN D
  <2>1. FindFileRecursive(D, ref.name, FoldersOf(call.file)) \in DOMAIN D \cup {NoFile}
    <3>1. DOMAIN FoldersOf(call.file) \subseteq Nat
      BY FolderAssumption DEF FoldersOf
    <3> QED
      BY <3>1, FoundIsFile
  <2> QED
    BY <1>1, <2>1 DEF Target
<1>3. child # Thrown => h # 0 /\ child.t # "scalar" /\ Tame(child, h)
  <2>1. Sound(D, OfFile(D, call, to)) /\ OfFile(D, call, to).d.t # "scalar"
    BY <1>2, SoundFile, FilesOfDisk
  <2>2. Returns(OfFile(D, call, to), child, h)
    BY <2>1 DEF Fit
  <2> QED
    BY <2>1, <2>2 DEF Returns
<1> HIDE DEF to, child, sort
<1>4. CASE child.t = "map"
  <2>1. child # Thrown
    BY <1>4 DEF Thrown
  <2>2. Tame(Map(child.m), h)
    <3>1. h - 1 \in 0..Height /\ (h - 1) + 1 = h
      BY <1>0, <1>3, <2>1
    <3> QED
      BY <1>3, <1>4, <2>1, <3>1, TameMap
  <2>3. Tame(Map(child.m), h + 1)
    BY <1>0, <2>2, TameHigher
  <2>4. AddFile(node, child, flag, sort) = AddMap(node, child.m, flag, sort)
    BY <1>4, <2>1 DEF AddFile
  <2>5. sort \in BOOLEAN
    BY DEF sort, IsSchema
  <2> QED
    BY <1>0, <1>1, <2>3, <2>4, <2>5, TameAdded
<1>5. CASE child.t # "map"
  <2>1. AddFile(node, child, flag, sort) \in {node, Thrown}
    BY <1>5 DEF AddFile
  <2> QED
    BY <1>1, <2>1
<1> QED
  BY <1>4, <1>5

\* One entry.
LEMMA AddEntryTame ==
  ASSUME AllIndexed, NEW D \in Disks, NEW flag \in BOOLEAN, NEW call, Sound(D, call), call.d.t = "doc",
         NEW i \in DOMAIN call.d.entries, NEW h \in 0..Height, NEW flat, Fit(D, flat, h),
         NEW node, node.t # "scalar", Tame(node, h + 1), NEW m,
         m = AddEntry(D, flag, call, node, call.d.entries[i], flat), m # Thrown
  PROVE  Tame(m, h + 1) /\ m.t # "scalar"
<1> DEFINE e == call.d.entries[i]
           child == flat[OfChild(call, e[2])]
<1>0. Height \in Nat /\ h \in 0..(Height + 1) /\ h + 1 \in 0..(Height + 1)
  BY HeightAssumption
<1>1. node # Thrown
  BY DEF AddEntry
<1>2. CASE e[1] = "follow"
  <2>1. m = InsertNodes(D, flag, call, node, e[2], flat)
    BY <1>1, <1>2 DEF AddEntry
  <2> QED
    BY <2>1, InsertNodesTame
<1>3. CASE e[1] # "follow"
  <2>1. call.file \in DOMAIN D /\ IsDocument(call.d, call.file)
    BY PartsOfFile DEF Sound, Calls
  <2>2. e[2] \in Inner(call.d)
    BY <1>3 DEF Inner
  <2>3. e[2].t = "scalar" => \E rel \in BOOLEAN : e[2] = Value(call.file, rel)
    BY <1>3, <2>1 DEF IsDocument
  <2>4. child # Thrown
    BY <1>1, <1>3 DEF AddEntry
  <2>5. Returns(OfChild(call, e[2]), child, h) /\ h # 0
    BY <2>2, <2>4, SoundChild DEF Fit, Returns
  <2>6. /\ e[2].t = "scalar" <=> child.t = "scalar"
        /\ e[2].t = "scalar" => child = e[2]
        /\ e[2].t # "scalar" \/ ByCode(e[2].v) => Tame(child, h)
    BY <1>0, <2>2, <2>4, <2>5, ChildReturns
  <2>7. m = IF IsSchema(call.file) THEN AddNodeSchema(node, e[1], child, flag)
            ELSE AddInFolder(node, e[1], child, call.folder, flag)
    BY <1>1, <1>3, <2>4 DEF AddEntry
  <2> HIDE DEF e, child
  <2>8. ASSUME Tame(child, h), NEW sort \in BOOLEAN, m = AddMap(node, Entry(e[1], child), flag, sort)
        PROVE  Tame(m, h + 1) /\ m.t # "scalar"
    <3>1. Tame(Map(Entry(e[1], child)), h + 1)
      BY <2>8, TameEntry
    <3> QED
      BY <1>0, <2>8, <3>1, TameAdded
  <2>9. CASE IsSchema(call.file)
    <3>1. ASSUME e[2].t = "scalar" PROVE ByCode(e[2].v)
      <4>1. PICK rel \in BOOLEAN : e[2] = Value(call.file, rel)
        BY <2>3, <3>1
      <4>2. e[2].v.by = call.file /\ e[2].v.prefix = <<>>
        BY <4>1 DEF Value, Scalar
      <4> QED
        BY <2>9, <4>2 DEF ByCode
    <3>2. Tame(child, h)
      BY <2>6, <3>1
    <3> QED
      BY <2>7, <2>8, <2>9, <3>2 DEF AddNodeSchema
  <2>10. CASE ~IsSchema(call.file) /\ child.t # "scalar"
    <3>1. m = AddMap(node, Entry(e[1], child), flag, FALSE)
      BY <2>7, <2>10 DEF AddInFolder, AddNodeYaml
    <3> QED
      BY <2>6, <2>8, <2>10, <3>1
  <2>11. CASE ~IsSchema(call.file) /\ child.t = "scalar"
    <3>1. call.folder = call.file[1]
      BY <2>11 DEF Sound
    <3>2. PICK rel \in BOOLEAN : child = Value(call.file, rel)
      BY <2>3, <2>6, <2>11
    <3>3. ByCode(Prepend(child, call.folder).v)
      <4> DEFINE v == [by |-> call.file, rel |-> rel, keyed |-> TRUE, prefix |-> <<>>]
      <4>1. child.t = "scalar" /\ child.v = v
        BY <3>2 DEF Value, Scalar
      <4>2. IsRelativePath(child.v) <=> rel
        BY <4>1 DEF IsRelativePath
      <4>3. CASE rel
        <5>1. Prepend(child, call.folder).v = [v EXCEPT !.prefix = <<call.folder>> \o @]
          BY <4>1, <4>2, <4>3 DEF Prepend, Scalar
        <5>2. [v EXCEPT !.prefix = <<call.folder>> \o @].prefix = <<call.folder>>
          OBVIOUS
        <5>3. /\ [v EXCEPT !.prefix = <<call.folder>> \o @].by = call.file
              /\ [v EXCEPT !.prefix = <<call.folder>> \o @].keyed
              /\ [v EXCEPT !.prefix = <<call.folder>> \o @].rel
          BY <4>3
        <5> QED
          BY <2>11, <3>1, <5>1, <5>2, <5>3 DEF ByCode
      <4>4. CASE ~rel
        <5>1. Prepend(child, call.folder) = child
          BY <4>2, <4>4 DEF Prepend
        <5> QED
          BY <4>1, <4>4, <5>1 DEF ByCode
      <4> QED
        BY <4>3, <4>4
    <3>4. h \in 1..Height
      BY <1>0, <2>5
    <3> QED
      BY <2>7, <2>11, <3>3, <3>4, AddInFolderTame
  <2> QED
    BY <2>9, <2>10, <2>11
<1> QED
  BY <1>2, <1>3

-----------------------------------------------------------------------------
(* All entries, all elements, all calls.                                   *)

\* The node after so many entries.
Aux(D, flag, call, flat, aux, n) ==
  \A i \in 0..n : aux[i] = IF i = 0 THEN Null ELSE AddEntry(D, flag, call, aux[i - 1], call.d.entries[i], flat)

\* There is such a node_aux, and flattenMap returns the last one.
LEMMA NodeAux ==
  ASSUME NEW D, NEW flag, NEW call, Len(call.d.entries) \in Nat, NEW flat
  PROVE  \E aux : /\ Aux(D, flag, call, flat, aux, Len(call.d.entries))
                  /\ FlattenMap(D, flag, call, flat) = aux[Len(call.d.entries)]
<1> DEFINE H == Len(call.d.entries)
           Then(a, i) == AddEntry(D, flag, call, a, call.d.entries[i], flat)
           Body(f) == [i \in 0..H |-> IF i = 0 THEN Null ELSE Then(f[i - 1], i)]
           T == {m \in 0..H : \E f : f = [i \in 0..m |-> IF i = 0 THEN Null ELSE Then(f[i - 1], i)]}
           aux == CHOOSE f : f = Body(f)
<1>0. H \in Nat /\ H \in 0..H /\ 0 \in 0..H
  OBVIOUS
<1>1. FlattenMap(D, flag, call, flat) = aux[H]
  BY DEF FlattenMap, InOrder
<1> HIDE DEF H, Then
<1>2. 0 \in T
  <2> DEFINE f == [i \in 0..0 |-> Null]
  <2>1. f = [i \in 0..0 |-> IF i = 0 THEN Null ELSE Then(f[i - 1], i)]
    OBVIOUS
  <2> HIDE DEF f
  <2> QED
    BY <1>0, <2>1
<1>3. ASSUME NEW m \in 0..H, m < H, m \in T PROVE m + 1 \in T
  <2>1. PICK f : f = [i \in 0..m |-> IF i = 0 THEN Null ELSE Then(f[i - 1], i)]
    BY <1>3
  <2> DEFINE g == [i \in 0..(m + 1) |-> IF i = m + 1 THEN Then(f[m], m + 1) ELSE f[i]]
  <2>2. ASSUME NEW i \in 0..(m + 1) PROVE g[i] = IF i = 0 THEN Null ELSE Then(g[i - 1], i)
    <3>1. CASE i = 0
      BY <1>0, <2>1, <3>1
    <3>2. CASE i # 0 /\ i = m + 1
      <4>1. i - 1 = m /\ m \in 0..(m + 1) /\ m # m + 1
        BY <1>0, <3>2
      <4> QED
        BY <3>2, <4>1
    <3>3. CASE i # 0 /\ i # m + 1
      <4>1. i \in 0..m /\ i - 1 \in 0..m /\ i - 1 # m + 1 /\ i - 1 \in 0..(m + 1)
        BY <1>0, <3>3
      <4> QED
        BY <2>1, <3>3, <4>1
    <3> QED
      BY <3>1, <3>2, <3>3
  <2>3. g = [i \in 0..(m + 1) |-> IF i = 0 THEN Null ELSE Then(g[i - 1], i)]
    <3>1. g = [i \in 0..(m + 1) |-> g[i]]
      OBVIOUS
    <3> HIDE DEF g
    <3> QED
      BY <2>2, <3>1
  <2>4. m + 1 \in 0..H
    BY <1>0, <1>3
  <2> HIDE DEF g
  <2> QED
    BY <2>3, <2>4
<1>4. \E f : f = Body(f)
  <2>1. 0..H \subseteq T
    <3> HIDE DEF T
    <3> QED
      BY <1>0, <1>2, <1>3, Induction
  <2> QED
    BY <1>0, <2>1
<1>5. aux = Body(aux)
  <2> HIDE DEF Body
  <2> QED
    BY <1>4
<1> HIDE DEF aux
<1>6. ASSUME NEW i \in 0..H PROVE aux[i] = IF i = 0 THEN Null ELSE Then(aux[i - 1], i)
  BY <1>5
<1> QED
  BY <1>1, <1>6 DEF Aux, H, Then

\* What flattenMap returns is tame, when what its calls return is fit.
LEMMA FlattenMapTame ==
  ASSUME AllIndexed, NEW D \in Disks, NEW flag \in BOOLEAN, NEW call, Sound(D, call), call.d.t = "doc",
         NEW h \in 0..Height, NEW flat, Fit(D, flat, h), FlattenMap(D, flag, call, flat) # Thrown
  PROVE  Tame(FlattenMap(D, flag, call, flat), h + 1) /\ FlattenMap(D, flag, call, flat).t # "scalar"
<1> DEFINE n == Len(call.d.entries)
<1>1. n \in Nat /\ DOMAIN call.d.entries = 1..n
  <2>1. call.file \in DOMAIN D /\ IsDocument(call.d, call.file)
    BY PartsOfFile DEF Sound, Calls
  <2>2. call.d.entries \in Seq(Range(call.d.entries))
    BY <2>1 DEF IsDocument
  <2> QED
    BY <2>2
<1>2. PICK aux : Aux(D, flag, call, flat, aux, n) /\ FlattenMap(D, flag, call, flat) = aux[n]
  BY <1>1, NodeAux
<1> DEFINE T == {i \in 0..n : aux[i] = Thrown \/ (Tame(aux[i], h + 1) /\ aux[i].t # "scalar")}
<1> HIDE DEF n
<1>3. 0 \in T
  <2>1. aux[0] = Null /\ 0 \in 0..n
    BY <1>1, <1>2 DEF Aux
  <2>2. Tame(Null, h + 1) /\ Null.t # "scalar"
    <3>1. h + 1 \in 1..(Height + 1)
      BY HeightAssumption
    <3> QED
      BY <3>1, TameNull DEF Null
  <2> QED
    BY <2>1, <2>2
<1>4. ASSUME NEW i \in 0..n, i < n, i \in T PROVE i + 1 \in T
  <2>1. i + 1 \in 0..n /\ i + 1 \in 1..n /\ i + 1 # 0 /\ (i + 1) - 1 = i
    BY <1>1, <1>4
  <2>2. aux[i + 1] = AddEntry(D, flag, call, aux[i], call.d.entries[i + 1], flat)
    BY <1>2, <2>1 DEF Aux
  <2>3. CASE aux[i] = Thrown
    BY <2>1, <2>2, <2>3 DEF AddEntry
  <2>4. CASE Tame(aux[i], h + 1) /\ aux[i].t # "scalar"
    <3>1. aux[i + 1] # Thrown => Tame(aux[i + 1], h + 1) /\ aux[i + 1].t # "scalar"
      BY <1>1, <2>1, <2>2, <2>4, AddEntryTame
    <3> QED
      BY <2>1, <3>1
  <2> QED
    BY <1>4, <2>3, <2>4
<1>5. n \in T
  <2>1. 0..n \subseteq T
    <3> HIDE DEF T
    <3> QED
      BY <1>1, <1>3, <1>4, Induction
  <2> QED
    BY <1>1, <2>1
<1> QED
  BY <1>2, <1>5

\* And what flattenSequence returns.
LEMMA FlattenSequenceTame ==
  ASSUME AllIndexed, NEW D \in Disks, NEW call, Sound(D, call), call.d.t = "seq",
         NEW h \in 0..Height, NEW flat, Fit(D, flat, h), NEW elements,
         elements = [i \in DOMAIN call.d.s |-> flat[OfChild(call, call.d.s[i])]],
         FlattenSequence(call.d, elements) # Thrown
  PROVE  Tame(FlattenSequence(call.d, elements), h + 1) /\ FlattenSequence(call.d, elements).t # "scalar"
<1> DEFINE s == call.d.s
<1>1. /\ s \in Seq(Range(s)) /\ DOMAIN elements = DOMAIN s
      /\ \A i \in DOMAIN s : s[i].t = "scalar" => \E rel \in BOOLEAN : s[i] = Element(call.file, rel)
  <2>1. call.file \in DOMAIN D /\ IsDocument(call.d, call.file)
    BY PartsOfFile DEF Sound, Calls
  <2> QED
    BY <2>1 DEF IsDocument
<1>2. elements \in Seq(Range(elements))
  <2>1. DOMAIN elements = 1..Len(s) /\ Len(s) \in Nat
    BY <1>1
  <2>2. \A i \in DOMAIN elements : elements[i] \in Range(elements)
    BY DEF Range
  <2>3. elements = [i \in DOMAIN elements |-> elements[i]]
    OBVIOUS
  <2>4. elements \in [1..Len(s) -> Range(elements)]
    BY <2>1, <2>2, <2>3
  <2> DEFINE n == Len(s)
  <2>5. n \in Nat /\ elements \in [1..n -> Range(elements)]
    BY <2>1, <2>4
  <2> HIDE DEF n
  <2> QED
    BY <2>5
<1>3. FlattenSequence(call.d, elements) = Seq_(elements) /\ \A i \in DOMAIN elements : elements[i] # Thrown
  BY DEF FlattenSequence, Range
<1>4. ASSUME NEW i \in DOMAIN elements PROVE Tame(elements[i], h)
  <2>1. s[i] \in Inner(call.d) /\ elements[i] = flat[OfChild(call, s[i])] /\ h \in 0..(Height + 1)
    BY <1>1, HeightAssumption DEF Inner, Range
  <2>2. Returns(OfChild(call, s[i]), elements[i], h)
    BY <2>1, SoundChild DEF Fit
  <2>3. ASSUME s[i].t = "scalar" PROVE ByCode(s[i].v)
    <3>1. PICK rel \in BOOLEAN : s[i] = Element(call.file, rel)
      BY <1>1, <2>3
    <3>2. ~s[i].v.keyed /\ s[i].v.prefix = <<>>
      BY <3>1 DEF Element, Scalar
    <3> QED
      BY <3>2 DEF ByCode
  <2> QED
    BY <1>3, <2>1, <2>2, <2>3, ChildReturns
<1>5. Tame(Seq_(elements), h + 1)
  BY <1>2, <1>4, TameSequence
<1> QED
  BY <1>3, <1>5 DEF Seq_

\* One call more may be open.
LEMMA FlattenNodeReturns ==
  ASSUME AllIndexed, NEW D \in Disks, NEW flag \in BOOLEAN, NEW call, Sound(D, call), NEW h \in 0..Height, NEW flat,
         Fit(D, flat, h)
  PROVE  Returns(call, FlattenNode(D, flag, call, flat), h + 1)
<1>0. h + 1 \in 1..(Height + 1) /\ h + 1 # 0
  BY HeightAssumption
<1>1. CASE call.d.t = "doc"
  <2>1. FlattenNode(D, flag, call, flat) = FlattenMap(D, flag, call, flat)
    BY <1>1 DEF FlattenNode
  <2> QED
    BY <1>0, <1>1, <2>1, FlattenMapTame DEF Returns
<1>2. CASE call.d.t = "seq"
  <2> DEFINE elements == [i \in DOMAIN call.d.s |-> flat[OfChild(call, call.d.s[i])]]
  <2>1. FlattenNode(D, flag, call, flat) = FlattenSequence(call.d, elements)
    BY <1>2 DEF FlattenNode
  <2>2. FlattenSequence(call.d, elements) # Thrown
        => Tame(FlattenSequence(call.d, elements), h + 1) /\ FlattenSequence(call.d, elements).t # "scalar"
    BY <1>2, FlattenSequenceTame
  <2> HIDE DEF elements
  <2> QED
    BY <1>0, <1>2, <2>1, <2>2 DEF Returns
<1>3. CASE call.d.t \notin {"doc", "seq"}
  <2>1. FlattenNode(D, flag, call, flat) = call.d
    BY <1>3 DEF FlattenNode
  <2>2. call.file \in DOMAIN D /\ IsDocument(call.d, call.file)
    BY PartsOfFile DEF Sound, Calls
  <2>3. call.d = Null \/ call.d.t = "scalar"
    BY <1>3, <2>2 DEF IsDocument
  <2> QED
    BY <1>0, <2>1, <2>3, TameNull DEF Returns, Null
<1> QED
  BY <1>1, <1>2, <1>3

\* The results exist for every number of open calls, each from the ones above it.
LEMMA FlattenedDefined ==
  ASSUME NEW D, NEW flag
  PROVE  \A call \in Calls(D) :
           /\ Flattened(D, flag)[0][call] = Thrown
           /\ \A h \in 1..Depth :
                Flattened(D, flag)[h][call] = FlattenNode(D, flag, call, Flattened(D, flag)[h - 1])
<1> DEFINE Calls_ == Calls(D)
           Next_(a) == [call \in Calls_ |-> FlattenNode(D, flag, call, a)]
           none == [call \in Calls_ |-> Thrown]
           H == Depth
           Body(f) == [h \in 0..H |-> IF h = 0 THEN none ELSE Next_(f[h - 1])]
           T == {m \in 0..H : \E f : f = [h \in 0..m |-> IF h = 0 THEN none ELSE Next_(f[h - 1])]}
<1>0. H \in Nat /\ H \in 0..H /\ 0 \in 0..H
  BY DepthAssumption
<1> HIDE DEF H, Calls_
<1>1. Flattened(D, flag) = CHOOSE f : f = Body(f)
  <2>1. \A f : Body(f) = [h \in 0..H |-> [call \in Calls_ |-> IF h = 0 THEN Thrown
                                                             ELSE FlattenNode(D, flag, call, f[h - 1])]]
    OBVIOUS
  <2> QED
    BY <2>1, Zenon DEF Flattened, H, Calls_
<1> HIDE DEF Next_, none
<1>2. 0 \in T
  <2> DEFINE f == [h \in 0..0 |-> none]
  <2>1. f = [h \in 0..0 |-> IF h = 0 THEN none ELSE Next_(f[h - 1])]
    OBVIOUS
  <2> HIDE DEF f
  <2> QED
    BY <1>0, <2>1
<1>3. ASSUME NEW m \in 0..H, m < H, m \in T PROVE m + 1 \in T
  <2>1. PICK f : f = [h \in 0..m |-> IF h = 0 THEN none ELSE Next_(f[h - 1])]
    BY <1>3
  <2> DEFINE g == [h \in 0..(m + 1) |-> IF h = m + 1 THEN Next_(f[m]) ELSE f[h]]
  <2>2. ASSUME NEW h \in 0..(m + 1) PROVE g[h] = IF h = 0 THEN none ELSE Next_(g[h - 1])
    <3>1. CASE h = 0
      BY <1>0, <2>1, <3>1
    <3>2. CASE h # 0 /\ h = m + 1
      <4>1. h - 1 = m /\ m \in 0..(m + 1) /\ m # m + 1
        BY <1>0, <3>2
      <4> QED
        BY <3>2, <4>1
    <3>3. CASE h # 0 /\ h # m + 1
      <4>1. h \in 0..m /\ h - 1 \in 0..m /\ h - 1 # m + 1 /\ h - 1 \in 0..(m + 1)
        BY <1>0, <3>3
      <4> QED
        BY <2>1, <3>3, <4>1
    <3> QED
      BY <3>1, <3>2, <3>3
  <2>3. g = [h \in 0..(m + 1) |-> IF h = 0 THEN none ELSE Next_(g[h - 1])]
    <3>1. g = [h \in 0..(m + 1) |-> g[h]]
      OBVIOUS
    <3> HIDE DEF g
    <3> QED
      BY <2>2, <3>1
  <2>4. m + 1 \in 0..H
    BY <1>0, <1>3
  <2> HIDE DEF g
  <2> QED
    BY <2>3, <2>4
<1>4. \E f : f = Body(f)
  <2>1. 0..H \subseteq T
    <3> HIDE DEF T
    <3> QED
      BY <1>0, <1>2, <1>3, Induction
  <2> QED
    BY <1>0, <2>1
<1>5. Flattened(D, flag) = Body(Flattened(D, flag))
  <2> HIDE DEF Body
  <2> QED
    BY <1>1, <1>4
<1>6. ASSUME NEW h \in 0..H
      PROVE  Flattened(D, flag)[h] = IF h = 0 THEN none ELSE Next_(Flattened(D, flag)[h - 1])
  <2> DEFINE L == Flattened(D, flag)
  <2> HIDE DEF L
  <2>1. L = Body(L)
    BY <1>5 DEF L
  <2>2. L[h] = IF h = 0 THEN none ELSE Next_(L[h - 1])
    BY <2>1
  <2> QED
    BY <2>2 DEF L
<1>7. ASSUME NEW call \in Calls(D) PROVE Flattened(D, flag)[0][call] = Thrown
  BY <1>0, <1>6 DEF none, Calls_
<1>8. ASSUME NEW call \in Calls(D), NEW h \in 1..Depth
      PROVE  Flattened(D, flag)[h][call] = FlattenNode(D, flag, call, Flattened(D, flag)[h - 1])
  <2>1. h \in 0..H /\ h # 0
    BY <1>0 DEF H
  <2>2. Flattened(D, flag)[h] = Next_(Flattened(D, flag)[h - 1])
    BY <1>6, <2>1
  <2> QED
    BY <2>2 DEF Next_, Calls_
<1> QED
  BY <1>7, <1>8

\* However many calls may be open, what they return is fit for those who made them.
LEMMA FlattenedFit ==
  ASSUME AllIndexed, NEW D \in Disks, NEW flag \in BOOLEAN
  PROVE  \A h \in 0..Depth : Fit(D, Flattened(D, flag)[h], h)
<1> DEFINE T == {h \in 0..Depth : Fit(D, Flattened(D, flag)[h], h)}
<1>0. Depth \in Nat /\ Depth <= Height /\ Height \in Nat
  BY DepthAssumption, HeightAssumption
<1>1. 0 \in T
  <2>1. ASSUME NEW call, Sound(D, call) PROVE Flattened(D, flag)[0][call] = Thrown
    BY <2>1, FlattenedDefined DEF Sound
  <2> QED
    BY <1>0, <2>1 DEF Fit, Returns
<1>2. ASSUME NEW h \in 0..Depth, h < Depth, h \in T PROVE h + 1 \in T
  <2>1. h + 1 \in 0..Depth /\ h + 1 \in 1..Depth /\ (h + 1) - 1 = h /\ h \in 0..Height
    BY <1>0, <1>2
  <2> DEFINE flat == Flattened(D, flag)[h]
  <2>2. Fit(D, flat, h)
    BY <1>2
  <2>3. \A call \in Calls(D) : Flattened(D, flag)[h + 1][call] = FlattenNode(D, flag, call, flat)
    <3>1. ASSUME NEW call \in Calls(D), NEW k \in 1..Depth, k = h + 1, k - 1 = h
          PROVE  Flattened(D, flag)[k][call] = FlattenNode(D, flag, call, flat)
      <4>1. Flattened(D, flag)[k][call] = FlattenNode(D, flag, call, Flattened(D, flag)[k - 1])
        BY FlattenedDefined
      <4> QED
        BY <3>1, <4>1
    <3> QED
      BY <2>1, <3>1
  <2> HIDE DEF flat
  <2>4. ASSUME NEW call, Sound(D, call) PROVE Returns(call, Flattened(D, flag)[h + 1][call], h + 1)
    <3>1. Flattened(D, flag)[h + 1][call] = FlattenNode(D, flag, call, flat)
      BY <2>3, <2>4 DEF Sound
    <3> QED
      BY <2>1, <2>2, <2>4, <3>1, FlattenNodeReturns
  <2> QED
    BY <2>1, <2>4 DEF Fit
<1>3. 0..Depth \subseteq T
  <2> HIDE DEF T
  <2> QED
    BY <1>0, <1>1, <1>2, Induction
<1> QED
  BY <1>3

\* So is the node of a file.
LEMMA RootIsSound ==
  ASSUME NEW D \in Disks, NEW f \in DOMAIN D
  PROVE  Sound(D, RootCall(D, f)) /\ RootCall(D, f).d.t # "scalar"
<1>1. f[1] \in Folder /\ D[f] \in Parts(D[f]) /\ D[f] \in Documents(D) /\ D[f].t # "scalar"
  BY FilesOfDisk, PartsOfFile
<1>2. RootCall(D, f).d = D[f] /\ RootCall(D, f).file = f /\ RootCall(D, f).folder = f[1]
  BY DEF RootCall
<1>3. RootCall(D, f) \in Calls(D)
  BY <1>1 DEF Calls, RootCall
<1> QED
  BY <1>1, <1>2, <1>3 DEF Sound

\* It is a tree of nodes with resolved values.
LEMMA LoadTame ==
  ASSUME AllIndexed, NEW D \in Disks, NEW f \in DOMAIN D, NEW flag \in BOOLEAN, Load(D, f, flag) # Thrown
  PROVE  IsTree(Load(D, f, flag)) /\ Clean(Load(D, f, flag))
<1>1. Load(D, f, flag) = Flattened(D, flag)[Depth][RootCall(D, f)] /\ Depth \in 0..Depth
  BY DepthAssumption DEF Load
<1>2. Returns(RootCall(D, f), Load(D, f, flag), Depth)
  BY <1>1, RootIsSound, FlattenedFit DEF Fit
<1> QED
  BY <1>2, RootIsSound DEF Returns, Tame

-----------------------------------------------------------------------------
(* How many calls may be open.                                             *)

\* What a call returns is what the calls that it makes return, and nothing else.
Agree(D, call, a, b) ==
  /\ \A d \in Inner(call.d) : a[OfChild(call, d)] = b[OfChild(call, d)]
  /\ \A to \in DOMAIN D \ Range(call.stack) : a[OfFile(D, call, to)] = b[OfFile(D, call, to)]

EntriesOf(d) == {d.entries[i] : i \in DOMAIN d.entries}
\* An entry uses what the calls for it return.
LEMMA AddEntryLocal ==
  ASSUME NEW D \in Disks, NEW flag, NEW call, Sound(D, call), call.d.t = "doc", NEW e \in EntriesOf(call.d),
         NEW a, NEW b, Agree(D, call, a, b), NEW node
  PROVE  AddEntry(D, flag, call, node, e, a) = AddEntry(D, flag, call, node, e, b)
<1> DEFINE to == Target(D, e[2], call.file, call.folder)
<1>1. CASE node = Thrown
  BY <1>1 DEF AddEntry
<1>2. CASE node # Thrown /\ e[1] = "follow"
  <2>1. to \in DOMAIN D \cup {NoFile}
    <3>1. DOMAIN FoldersOf(call.file) \subseteq Nat
      BY FolderAssumption DEF FoldersOf
    <3>2. FindFileRecursive(D, e[2].name, FoldersOf(call.file)) \in DOMAIN D \cup {NoFile}
      BY <3>1, FoundIsFile
    <3> QED
      BY <3>2 DEF Target
  <2>2. CASE to = NoFile \/ to \in Range(call.stack)
    BY <1>2, <2>2 DEF AddEntry, InsertNodes
  <2>3. CASE ~(to = NoFile \/ to \in Range(call.stack))
    <3>1. a[OfFile(D, call, to)] = b[OfFile(D, call, to)]
      BY <2>1, <2>3 DEF Agree
    <3>2. InsertNodes(D, flag, call, node, e[2], a) = InsertNodes(D, flag, call, node, e[2], b)
      BY <2>3, <3>1 DEF InsertNodes
    <3> QED
      BY <1>2, <3>2 DEF AddEntry
  <2> QED
    BY <2>2, <2>3
<1>3. CASE node # Thrown /\ e[1] # "follow"
  <2>1. e[2] \in Inner(call.d)
    BY <1>3 DEF Inner, EntriesOf
  <2>2. a[OfChild(call, e[2])] = b[OfChild(call, e[2])]
    BY <2>1 DEF Agree
  <2> QED
    BY <1>3, <2>2 DEF AddEntry
<1> QED
  BY <1>1, <1>2, <1>3

\* So does a whole document.
LEMMA FlattenNodeLocal ==
  ASSUME NEW D \in Disks, NEW flag, NEW call, Sound(D, call), NEW a, NEW b, Agree(D, call, a, b)
  PROVE  FlattenNode(D, flag, call, a) = FlattenNode(D, flag, call, b)
<1>0. call.file \in DOMAIN D /\ IsDocument(call.d, call.file)
  BY PartsOfFile DEF Sound, Calls
<1>1. CASE call.d.t = "doc"
  <2> DEFINE n == Len(call.d.entries)
  <2>1. n \in Nat /\ DOMAIN call.d.entries = 1..n
    <3>1. call.d.entries \in Seq(Range(call.d.entries))
      BY <1>0, <1>1 DEF IsDocument
    <3> QED
      BY <3>1
  <2>2. PICK x : Aux(D, flag, call, a, x, n) /\ FlattenMap(D, flag, call, a) = x[n]
    BY <2>1, NodeAux
  <2>3. PICK y : Aux(D, flag, call, b, y, n) /\ FlattenMap(D, flag, call, b) = y[n]
    BY <2>1, NodeAux
  <2> DEFINE T == {i \in 0..n : x[i] = y[i]}
  <2> HIDE DEF n
  <2>4. 0 \in T
    BY <2>1, <2>2, <2>3 DEF Aux
  <2>5. ASSUME NEW i \in 0..n, i < n, i \in T PROVE i + 1 \in T
    <3>1. i + 1 \in 0..n /\ i + 1 \in 1..n /\ i + 1 # 0 /\ (i + 1) - 1 = i
      BY <2>1, <2>5
    <3>2. x[i + 1] = AddEntry(D, flag, call, x[i], call.d.entries[i + 1], a)
      BY <2>2, <3>1 DEF Aux
    <3>3. y[i + 1] = AddEntry(D, flag, call, y[i], call.d.entries[i + 1], b)
      BY <2>3, <3>1 DEF Aux
    <3>4. x[i] = y[i] /\ i + 1 \in DOMAIN call.d.entries
      BY <2>1, <2>5, <3>1
    <3>5. AddEntry(D, flag, call, x[i], call.d.entries[i + 1], a)
            = AddEntry(D, flag, call, x[i], call.d.entries[i + 1], b)
      <4>1. PICK e \in EntriesOf(call.d) : e = call.d.entries[i + 1]
        BY <3>4 DEF EntriesOf
      <4>2. AddEntry(D, flag, call, x[i], e, a) = AddEntry(D, flag, call, x[i], e, b)
        BY <1>1, AddEntryLocal
      <4> QED
        BY <4>1, <4>2
    <3>6. x[i + 1] = y[i + 1]
      BY <3>2, <3>3, <3>4, <3>5
    <3> QED
      BY <3>1, <3>6
  <2>6. 0..n \subseteq T
    <3> HIDE DEF T
    <3> QED
      BY <2>1, <2>4, <2>5, Induction
  <2>7. x[n] = y[n]
    BY <2>1, <2>6
  <2> QED
    BY <1>1, <2>2, <2>3, <2>7 DEF FlattenNode
<1>2. CASE call.d.t = "seq"
  <2>1. \A i \in DOMAIN call.d.s : a[OfChild(call, call.d.s[i])] = b[OfChild(call, call.d.s[i])]
    BY <1>2 DEF Agree, Inner, Range
  <2>2. [i \in DOMAIN call.d.s |-> a[OfChild(call, call.d.s[i])]]
          = [i \in DOMAIN call.d.s |-> b[OfChild(call, call.d.s[i])]]
    BY <2>1
  <2> QED
    BY <1>2, <2>2 DEF FlattenNode
<1>3. CASE call.d.t \notin {"doc", "seq"}
  BY <1>3 DEF FlattenNode
<1> QED
  BY <1>1, <1>2, <1>3

\* The follow_stack has no file twice.
Once(call) == \A i, j \in DOMAIN call.stack : call.stack[i] = call.stack[j] => i = j

\* So it has no more files than there are.
LEMMA StackBounded ==
  ASSUME NEW D \in Disks, NEW call, Sound(D, call), Once(call)
  PROVE  /\ Cardinality(DOMAIN D) \in Nat /\ Len(call.stack) \in Nat
         /\ Len(call.stack) <= Cardinality(DOMAIN D)
<1>1. IsFiniteSet(DOMAIN D) /\ call.stack \in Seq(DOMAIN D)
  BY DisksAssumption DEF Sound, Calls
<1>2. Cardinality(DOMAIN D) \in Nat
  BY <1>1, FS_CardinalityType
<1> DEFINE s == call.stack
<1>3. PICK n \in Nat : n = Len(s) /\ DOMAIN s = 1..n /\ s \in [1..n -> DOMAIN D]
  BY <1>1, LenProperties
<1>4. ASSUME n > Cardinality(DOMAIN D) PROVE FALSE
  <2>1. IsFiniteSet(1..n) /\ Cardinality(1..n) = n
    <3>1. 1 \in Int /\ n \in Int /\ ~(1 > n) /\ n - 1 + 1 = n
      BY <1>2, <1>4
    <3>2. /\ IsFiniteSet(1..n)
          /\ Cardinality(1..n) = IF 1 > n THEN 0 ELSE n - 1 + 1
      BY <3>1, FS_Interval
    <3> QED
      BY <3>1, <3>2
  <2>2. \E i, j \in 1..n : i # j /\ s[i] = s[j]
    BY <1>1, <1>3, <1>4, <2>1, FS_PigeonHole
  <2> QED
    BY <1>3, <2>2 DEF Once
<1> QED
  BY <1>2, <1>3, <1>4

\* So many calls are enough: for the document of the call and those in it, and for each
\* file that may still be followed.
Need(D, call, k) ==
  (Cardinality(DOMAIN D) - Len(call.stack)) * (DocHeight + 1) + ((DocHeight + 1) - k)
Room(D, call, h) ==
  \E k \in 0..DocHeight : call.d \in PartLevels(D[call.file])[k] /\ h >= Need(D, call, k)

\* A call leaves room for those that it makes.
LEMMA RoomForCalls ==
  ASSUME NEW D \in Disks, NEW call, Sound(D, call), Once(call), NEW h \in Nat, Room(D, call, h + 1)
  PROVE  /\ \A d \in Inner(call.d) : Once(OfChild(call, d)) /\ Room(D, OfChild(call, d), h)
         /\ \A to \in DOMAIN D \ Range(call.stack) : Once(OfFile(D, call, to)) /\ Room(D, OfFile(D, call, to), h)
<1> DEFINE C == Cardinality(DOMAIN D)
           L == Len(call.stack)
           W == DocHeight + 1
<1>1. C \in Nat /\ L \in Nat /\ L <= C /\ W \in Nat /\ DocHeight \in Nat /\ call.file \in DOMAIN D
  BY StackBounded, DepthAssumption DEF Sound, Calls
<1>2. PICK k \in 0..DocHeight : call.d \in PartLevels(D[call.file])[k] /\ h + 1 >= (C - L) * W + (W - k)
  <2>1. PICK k \in 0..DocHeight : call.d \in PartLevels(D[call.file])[k] /\ h + 1 >= Need(D, call, k)
    BY DEF Room
  <2>2. Need(D, call, k) = (C - L) * W + (W - k)
    BY DEF Need
  <2> QED
    BY <2>1, <2>2, Zenon
<1>3. ASSUME NEW d \in Inner(call.d) PROVE Once(OfChild(call, d)) /\ Room(D, OfChild(call, d), h)
  <2>1. OfChild(call, d).stack = call.stack /\ OfChild(call, d).file = call.file /\ OfChild(call, d).d = d
    BY DEF OfChild, Sound, Calls
  <2>2. k + 1 \in 1..(DocHeight + 1) /\ (k + 1) - 1 = k
    BY <1>1
  <2>3. d \in PartLevels(D[call.file])[k + 1]
    <3>1. PartLevels(D[call.file])[k + 1] = Inmost(PartLevels(D[call.file])[k])
      BY <2>2, PartLevelsDefined
    <3> QED
      BY <1>2, <3>1 DEF Inmost
  <2>4. k # DocHeight
    BY <1>1, <2>3, DisksAssumption
  <2>5. k + 1 \in 0..DocHeight
    BY <1>1, <2>4
  <2>6. h >= (C - L) * W + (W - (k + 1))
    <3> DEFINE P == (C - L) * W
    <3>1. P \in Int
      BY <1>1
    <3> HIDE DEF P
    <3>2. h + 1 >= P + (W - k)
      BY <1>2 DEF P
    <3>3. h >= P + (W - (k + 1))
      BY <1>1, <3>1, <3>2
    <3> QED
      BY <3>3 DEF P
  <2> QED
    <3>1. PICK c : c = OfChild(call, d) /\ c.stack = call.stack /\ c.file = call.file /\ c.d = d
      BY <2>1
    <3>2. c.d \in PartLevels(D[c.file])[k + 1]
      BY <2>3, <3>1
    <3>3. h >= Need(D, c, k + 1)
      BY <2>6, <3>1, Zenon DEF Need
    <3>4. Room(D, c, h)
      BY <2>5, <3>2, <3>3 DEF Room
    <3>5. Once(c)
      BY <3>1 DEF Once
    <3> QED
      BY <3>1, <3>4, <3>5, Zenon
<1>4. ASSUME NEW to \in DOMAIN D \ Range(call.stack) PROVE Once(OfFile(D, call, to)) /\ Room(D, OfFile(D, call, to), h)
  <2> DEFINE s == call.stack
             t == Append(s, to)
  <2>1. OfFile(D, call, to).stack = t /\ OfFile(D, call, to).file = to /\ OfFile(D, call, to).d = D[to]
    BY DEF OfFile
  <2>2. /\ s \in Seq(DOMAIN D) /\ DOMAIN s = 1..L
        /\ DOMAIN t = 1..(L + 1) /\ Len(t) = L + 1 /\ t[L + 1] = to /\ \A i \in 1..L : t[i] = s[i]
    BY DEF Sound, Calls
  <2>3. \A i \in 1..L : s[i] # to
    BY <2>2 DEF Range
  <2>4. Once(OfFile(D, call, to))
    <3>1. ASSUME NEW i \in 1..(L + 1), NEW j \in 1..(L + 1), t[i] = t[j] PROVE i = j
      <4>1. CASE i \in 1..L /\ j \in 1..L
        BY <2>2, <3>1, <4>1 DEF Once
      <4>2. CASE ~(i \in 1..L /\ j \in 1..L)
        <5>1. i = L + 1 \/ j = L + 1
          BY <1>1, <4>2
        <5>2. (i = L + 1 \/ i \in 1..L) /\ (j = L + 1 \/ j \in 1..L)
          BY <1>1
        <5> HIDE DEF t, s, L
        <5> QED
          BY <2>2, <2>3, <3>1, <5>1, <5>2
      <4> QED
        BY <4>1, <4>2
    <3> HIDE DEF t
    <3> QED
      BY <2>1, <2>2, <3>1 DEF Once
  <2>5. C - L # 0
    <3>1. Sound(D, OfFile(D, call, to))
      BY SoundFile
    <3>2. Len(t) <= C
      BY <2>1, <2>4, <3>1, StackBounded
    <3> QED
      BY <1>1, <2>2, <3>2
  <2>6. h >= (C - (L + 1)) * W + (W - 0)
    <3>1. (C - (L + 1)) * W + W = (C - L) * W
      <4> DEFINE m == C - (L + 1)
      <4>1. m \in Nat /\ C - L = m + 1
        BY <1>1, <2>5
      <4> HIDE DEF m, W
      <4>2. m * W + W = (m + 1) * W
        BY <1>1, <4>1
      <4> QED
        BY <4>1, <4>2 DEF m
    <3> DEFINE P == (C - L) * W
               Q == (C - (L + 1)) * W
    <3>2. P \in Int /\ Q \in Int
      BY <1>1
    <3> HIDE DEF P, Q
    <3>3. Q + W = P /\ h + 1 >= P + (W - k)
      BY <1>2, <3>1 DEF P, Q
    <3>4. h >= Q + (W - 0)
      BY <1>1, <3>2, <3>3
    <3> QED
      BY <3>4 DEF Q
  <2>7. D[to] \in PartLevels(D[to])[0] /\ 0 \in 0..DocHeight
    BY <1>1, PartLevelsDefined
  <2> QED
    <3>1. PICK c : c = OfFile(D, call, to) /\ Len(c.stack) = L + 1 /\ c.file = to /\ c.d = D[to]
      BY <2>1, <2>2
    <3>2. c.d \in PartLevels(D[c.file])[0]
      BY <2>7, <3>1
    <3>3. h >= Need(D, c, 0)
      BY <2>6, <3>1, Zenon DEF Need
    <3>4. Room(D, c, h)
      BY <2>7, <3>2, <3>3 DEF Room
    <3> QED
      BY <2>4, <3>1, <3>4, Zenon
<1> QED
  BY <1>3, <1>4

\* There is always room for the call itself.
LEMMA RoomPositive ==
  ASSUME NEW D \in Disks, NEW call, Sound(D, call), Once(call), NEW h \in Int, Room(D, call, h)
  PROVE  h >= 1
<1> DEFINE m == Cardinality(DOMAIN D) - Len(call.stack)
           W == DocHeight + 1
<1>1. m \in Nat /\ W \in Nat
  BY StackBounded, DepthAssumption
<1>2. PICK k \in 0..DocHeight : h >= Need(D, call, k)
  BY DEF Room
<1>3. Need(D, call, k) = m * W + (W - k) /\ W - k >= 1
  BY DepthAssumption DEF Need
<1> HIDE DEF m, W
<1>4. m * W \in Nat
  BY <1>1
<1> QED
  BY <1>1, <1>2, <1>3, <1>4

\* There is room for the call with which a load begins.
LEMMA RootHasRoom ==
  ASSUME NEW D \in Disks, NEW f \in DOMAIN D, NEW h \in Int, h >= (Cardinality(DOMAIN D) + 1) * (DocHeight + 1)
  PROVE  LET call == RootCall(D, f)
         IN Sound(D, call) /\ Once(call) /\ Room(D, call, h) /\ call.file = f
<1> DEFINE call == RootCall(D, f)
           C == Cardinality(DOMAIN D)
           W == DocHeight + 1
<1>1. call.d = D[f] /\ call.file = f /\ call.stack = <<>>
  BY DEF RootCall
<1>2. Sound(D, call)
  BY RootIsSound
<1>3. Once(call) /\ Len(call.stack) = 0
  BY <1>1 DEF Once
<1> HIDE DEF call
<1>4. Room(D, call, h)
  <2>1. C \in Nat /\ W \in Nat /\ DocHeight \in Nat
    BY <1>2, <1>3, StackBounded, DepthAssumption
  <2>2. Need(D, call, 0) = (C - 0) * W + (W - 0)
    BY <1>3, Zenon DEF Need
  <2>3. (C - 0) * W + (W - 0) = (C + 1) * W
    <3> HIDE DEF C, W
    <3>1. C * W + W = (C + 1) * W
      BY <2>1
    <3>2. C - 0 = C /\ W - 0 = W
      BY <2>1
    <3> QED
      BY <3>1, <3>2
  <2>4. h >= Need(D, call, 0)
    BY <2>2, <2>3, Zenon
  <2>5. call.d \in PartLevels(D[call.file])[0] /\ 0 \in 0..DocHeight
    BY <1>1, <2>1, PartLevelsDefined
  <2> QED
    BY <2>4, <2>5 DEF Room
<1> QED
  BY <1>1, <1>2, <1>3, <1>4 DEF call

\* With so many calls, what is returned is what would be returned with more.
LEMMA Enough ==
  ASSUME NEW D \in Disks, NEW flag
  PROVE  \A h \in 0..Depth : \A call : Sound(D, call) /\ Once(call) /\ Room(D, call, h)
           => \A k \in h..Depth : Flattened(D, flag)[k][call] = Flattened(D, flag)[h][call]
<1> DEFINE flat == Flattened(D, flag)
           Settled(h) == \A call : Sound(D, call) /\ Once(call) /\ Room(D, call, h)
                           => \A k \in h..Depth : flat[k][call] = flat[h][call]
           T == {h \in 0..Depth : Settled(h)}
<1>0. Depth \in Nat /\ \A call \in Calls(D) : \A h \in 1..Depth : flat[h][call] = FlattenNode(D, flag, call, flat[h - 1])
  BY DepthAssumption, FlattenedDefined
<1> HIDE DEF flat
<1>1. 0 \in T
  <2>1. ASSUME NEW call, Sound(D, call), Once(call), Room(D, call, 0) PROVE FALSE
    BY <2>1, RoomPositive
  <2> QED
    BY <1>0, <2>1
<1>2. ASSUME NEW h \in 0..Depth, h < Depth, h \in T PROVE h + 1 \in T
  <2>1. h \in Nat /\ h + 1 \in 0..Depth /\ h + 1 \in 1..Depth /\ (h + 1) - 1 = h
    BY <1>0, <1>2
  <2>2. ASSUME NEW call, Sound(D, call), Once(call), Room(D, call, h + 1), NEW k \in (h + 1)..Depth
        PROVE  flat[k][call] = flat[h + 1][call]
    <3>1. k \in 1..Depth /\ k - 1 \in h..Depth /\ call \in Calls(D)
      BY <1>0, <2>1, <2>2 DEF Sound
    <3>2. flat[k][call] = FlattenNode(D, flag, call, flat[k - 1])
      BY <1>0, <3>1
    <3>3. flat[h + 1][call] = FlattenNode(D, flag, call, flat[h])
      <4>1. flat[h + 1][call] = FlattenNode(D, flag, call, flat[(h + 1) - 1])
        BY <1>0, <2>1, <3>1
      <4> QED
        BY <2>1, <4>1
    <3>4. ASSUME NEW c, Sound(D, c), Once(c), Room(D, c, h) PROVE flat[k - 1][c] = flat[h][c]
      BY <1>2, <3>1, <3>4
    <3>5. Agree(D, call, flat[k - 1], flat[h])
      <4>1. ASSUME NEW d \in Inner(call.d)
            PROVE  flat[k - 1][OfChild(call, d)] = flat[h][OfChild(call, d)]
        BY <2>1, <2>2, <3>4, SoundChild, RoomForCalls
      <4>2. ASSUME NEW to \in DOMAIN D \ Range(call.stack)
            PROVE  flat[k - 1][OfFile(D, call, to)] = flat[h][OfFile(D, call, to)]
        BY <2>1, <2>2, <3>4, SoundFile, RoomForCalls
      <4> QED
        BY <4>1, <4>2 DEF Agree
    <3>6. FlattenNode(D, flag, call, flat[k - 1]) = FlattenNode(D, flag, call, flat[h])
      BY <2>2, <3>5, FlattenNodeLocal
    <3> QED
      BY <3>2, <3>3, <3>6
  <2> QED
    BY <2>1, <2>2
<1>3. 0..Depth \subseteq T
  <2> HIDE DEF T
  <2> QED
    BY <1>0, <1>1, <1>2, Induction
<1> QED
  BY <1>3 DEF flat

-----------------------------------------------------------------------------
(* Maps that a sequence has not become.                                    *)

\* It is said of a node and of its children.
LEMMA NoneIndexedParts ==
  ASSUME NEW n, IsTree(n)
  PROVE  NoneIndexed(n) <=> /\ n.t = "map" => DOMAIN n.m \cap Range(IndexKey) = {}
                            /\ \A key \in DOMAIN Children(n) : NoneIndexed(Children(n)[key])
<1>1. ASSUME NoneIndexed(n)
      PROVE  /\ n.t = "map" => DOMAIN n.m \cap Range(IndexKey) = {}
             /\ \A key \in DOMAIN Children(n) : NoneIndexed(Children(n)[key])
  <2>1. n.t = "map" => DOMAIN n.m \cap Range(IndexKey) = {}
    BY <1>1, Root DEF NoneIndexed
  <2>2. ASSUME NEW key \in DOMAIN Children(n), NEW z \in Places(Children(n)[key], "nodes"), z[2].t = "map"
        PROVE  DOMAIN z[2].m \cap Range(IndexKey) = {}
    <3>1. PICK y \in Places(n, "nodes") : y[2] = z[2]
      BY TreeParts
    <3> QED
      BY <1>1, <2>2, <3>1 DEF NoneIndexed
  <2> QED
    BY <2>1, <2>2 DEF NoneIndexed
<1>2. ASSUME n.t = "map" => DOMAIN n.m \cap Range(IndexKey) = {},
             \A key \in DOMAIN Children(n) : NoneIndexed(Children(n)[key])
      PROVE  NoneIndexed(n)
  <2>1. SUFFICES ASSUME NEW y \in Places(n, "nodes"), y[2].t = "map" PROVE DOMAIN y[2].m \cap Range(IndexKey) = {}
    BY DEF NoneIndexed
  <2>2. y[2] = n \/ \E key \in DOMAIN Children(n) : \E z \in Places(Children(n)[key], "nodes") : z[2] = y[2]
    BY TreeParts
  <2> QED
    BY <1>2, <2>1, <2>2 DEF NoneIndexed
<1> QED
  BY <1>1, <1>2

\* If no sequence has become a map where they met, none had before.
LEMMA MeetIndexed ==
  ASSUME AllIndexed
  PROVE  \A h \in 0..(Height + 1) : \A a, b :
           Low(a, h) /\ Low(b, h) /\ Meet(a, b) # Thrown /\ NoneIndexed(Meet(a, b)) => NoneIndexed(a) /\ NoneIndexed(b)
<1> DEFINE Ok(h, a, b) ==
             Low(a, h) /\ Low(b, h) /\ Meet(a, b) # Thrown /\ NoneIndexed(Meet(a, b)) => NoneIndexed(a) /\ NoneIndexed(b)
           T == {h \in 0..(Height + 1) : \A a, b : Ok(h, a, b)}
<1>0. Height + 1 \in Nat /\ 0 \in 0..(Height + 1)
  BY HeightAssumption
<1>1. 0 \in T
  BY <1>0, LevelsDefined DEF Low
<1>2. ASSUME NEW h \in 0..(Height + 1), h < Height + 1, h \in T PROVE h + 1 \in T
  <2>0. h \in 0..Height /\ h + 1 \in 0..(Height + 1)
    BY <1>2, HeightAssumption
  <2>1. ASSUME NEW a, NEW b, Low(a, h + 1), Low(b, h + 1), Meet(a, b) # Thrown, NoneIndexed(Meet(a, b))
        PROVE  NoneIndexed(a) /\ NoneIndexed(b)
    <3> DEFINE m == Meet(a, b)
    <3>0. IsTree(a) /\ IsTree(b) /\ IsNode(a) /\ IsNode(b)
      BY <2>1, TreeParts DEF Low
    <3>1. Stays(a, b, m) \/ Appends(a, b, m) \/ Joins(a, b, m)
      BY <2>1, <3>0, MeetCases
    <3>2. IsTree(m)
      BY <2>0, <2>1, MeetLow DEF Low
    <3>3. /\ m.t = "map" => DOMAIN m.m \cap Range(IndexKey) = {}
          /\ \A key \in DOMAIN Children(m) : NoneIndexed(Children(m)[key])
      BY <2>1, <3>2, NoneIndexedParts
    <3>4. \A key \in DOMAIN Children(a) : Low(Children(a)[key], h)
      BY <2>0, <2>1, LowChild
    <3>5. \A key \in DOMAIN Children(b) : Low(Children(b)[key], h)
      BY <2>0, <2>1, LowChild
    <3> HIDE DEF m
    <3>6. CASE Stays(a, b, m)
      <4>1. NoneIndexed(b)
        <5>1. b.t = "map" => b.m = Children(b)
          BY DEF Children
        <5> QED
          BY <3>0, <3>6, <5>1, NoneIndexedParts DEF Stays
      <4> QED
        BY <2>1, <3>6, <4>1 DEF Stays, m
    <3>7. CASE Appends(a, b, m)
      <4>1. a.t # "map" /\ b.t # "map"
        BY <3>7 DEF Appends
      <4>2. \A key \in DOMAIN Children(a) : NoneIndexed(Children(a)[key])
        BY <3>3, <3>7 DEF Appends
      <4>3. \A key \in DOMAIN Children(b) : NoneIndexed(Children(b)[key])
        BY <3>3, <3>7 DEF Appends
      <4> QED
        BY <3>0, <4>1, <4>2, <4>3, NoneIndexedParts
    <3>8. CASE Joins(a, b, m)
      <4>1. /\ Children(m) = m.m /\ Children(b) = b.m /\ DOMAIN m.m = DOMAIN Children(a) \cup DOMAIN b.m
            /\ DOMAIN m.m \cap Range(IndexKey) = {}
        BY <3>3, <3>8 DEF Joins, Children
      <4>2. ASSUME NEW key \in DOMAIN m.m
            PROVE  /\ key \in DOMAIN Children(a) => NoneIndexed(Children(a)[key])
                   /\ key \in DOMAIN b.m => NoneIndexed(b.m[key])
        <5>1. m.m[key] = MeetAt(a, b.m, key) /\ m.m[key] # Thrown /\ NoneIndexed(m.m[key])
          BY <3>3, <3>8, <4>1 DEF Joins
        <5>2. CASE key \in DOMAIN b.m /\ key \in DOMAIN Children(a)
          <6>1. m.m[key] = Meet(Children(a)[key], b.m[key])
            BY <5>1, <5>2 DEF MeetAt
          <6>2. Ok(h, Children(a)[key], b.m[key])
            BY <1>2
          <6> QED
            BY <3>4, <3>5, <4>1, <5>1, <5>2, <6>1, <6>2
        <5>3. CASE key \in DOMAIN b.m /\ key \notin DOMAIN Children(a)
          BY <4>1, <5>1, <5>3 DEF MeetAt
        <5>4. CASE key \notin DOMAIN b.m
          BY <5>1, <5>4 DEF MeetAt
        <5> QED
          BY <5>2, <5>3, <5>4
      <4>3. NoneIndexed(b)
        BY <3>0, <4>1, <4>2, NoneIndexedParts
      <4>4. a.t = "map" => Children(a) = a.m
        BY DEF Children
      <4>5. NoneIndexed(a)
        BY <3>0, <4>1, <4>2, <4>4, NoneIndexedParts
      <4> QED
        BY <4>3, <4>5
    <3> QED
      BY <3>1, <3>6, <3>7, <3>8
  <2> QED
    BY <2>0, <2>1
<1>3. 0..(Height + 1) \subseteq T
  <2> HIDE DEF T
  <2> QED
    BY <1>0, <1>1, <1>2, Induction
<1> QED
  BY <1>3

\* If the elements of a sequence end up under their keys, there is a map that has an
\* index among its keys.
LEMMA IndexOfSome ==
  ASSUME AllIndexed, NEW n, n.t = "seq", IsNode(n), n.s # <<>>
  PROVE  DOMAIN Children(n) \cap Range(IndexKey) # {}
<1>1. n.s \in Seq(Range(n.s))
  BY DEF IsNode
<1>2. 1 \in DOMAIN n.s
  BY <1>1
<1>3. IndexKey[1] \in DOMAIN Children(n)
  BY <1>2, ChildrenOfSequence
<1>4. IndexKey[1] \in Range(IndexKey)
  BY DEF AllIndexed, Range
<1> QED
  BY <1>3, <1>4

\* What comes to two nodes that have met might as well have come to the second one before,
\* unless it is a map that comes to a sequence.
LEMMA MeetAssociates ==
  ASSUME AllIndexed
  PROVE  \A h \in 0..(Height + 1) : \A a, b, c :
           /\ Low(a, h) /\ Low(b, h) /\ Low(c, h) /\ Filled(b)
           /\ Meet(a, b) # Thrown /\ Meet(Meet(a, b), c) # Thrown /\ NoneIndexed(Meet(Meet(a, b), c))
           => Meet(b, c) # Thrown /\ Meet(a, Meet(b, c)) = Meet(Meet(a, b), c)
<1> DEFINE Ok(h, a, b, c) ==
             /\ Low(a, h) /\ Low(b, h) /\ Low(c, h) /\ Filled(b)
             /\ Meet(a, b) # Thrown /\ Meet(Meet(a, b), c) # Thrown /\ NoneIndexed(Meet(Meet(a, b), c))
             => Meet(b, c) # Thrown /\ Meet(a, Meet(b, c)) = Meet(Meet(a, b), c)
           T == {h \in 0..(Height + 1) : \A a, b, c : Ok(h, a, b, c)}
<1>0. Height + 1 \in Nat /\ 0 \in 0..(Height + 1)
  BY HeightAssumption
<1>1. 0 \in T
  BY <1>0, LevelsDefined DEF Low
<1>2. ASSUME NEW h \in 0..(Height + 1), h < Height + 1, h \in T PROVE h + 1 \in T
  <2>0. h \in 0..Height /\ h + 1 \in 0..(Height + 1)
    BY <1>2, HeightAssumption
  <2>1. ASSUME NEW a, NEW b, NEW c, Low(a, h + 1), Low(b, h + 1), Low(c, h + 1), Filled(b),
               Meet(a, b) # Thrown, Meet(Meet(a, b), c) # Thrown, NoneIndexed(Meet(Meet(a, b), c))
        PROVE  Meet(b, c) # Thrown /\ Meet(a, Meet(b, c)) = Meet(Meet(a, b), c)
    <3> DEFINE m == Meet(a, b)
               r == Meet(m, c)
    <3>0. IsTree(a) /\ IsTree(b) /\ IsTree(c) /\ IsTree(m) /\ IsTree(r) /\ Low(m, h + 1) /\ Low(r, h + 1)
      BY <2>0, <2>1, MeetLow DEF Low
    <3>n. IsNode(a) /\ IsNode(b) /\ IsNode(c) /\ IsNode(m) /\ IsNode(r)
      BY <3>0, TreeParts
    <3>1. Stays(a, b, m) \/ Appends(a, b, m) \/ Joins(a, b, m)
      BY <2>1, <3>0, MeetCases
    <3>2. Stays(m, c, r) \/ Appends(m, c, r) \/ Joins(m, c, r)
      BY <2>1, <3>0, MeetCases
    <3>3. /\ r.t = "map" => DOMAIN r.m \cap Range(IndexKey) = {}
          /\ \A key \in DOMAIN Children(r) : NoneIndexed(Children(r)[key])
      BY <2>1, <3>0, NoneIndexedParts
    <3>4. /\ b.t = "map" => DOMAIN b.m # {}
          /\ \A key \in DOMAIN Children(b) : Filled(Children(b)[key])
      BY <2>1, <3>0, FilledParts
    <3> HIDE DEF m, r
    <3>5. CASE Stays(m, c, r)
      <4>1. Meet(b, c) = b
        <5>1. c.t = "seq" /\ c.s = <<>> => Meet(b, c) = b
          BY DEF Meet, PushBack
        <5>2. c.t = "map" /\ DOMAIN c.m = {} => Meet(b, c) = b
          BY <3>0, AddMapMet, NoneThrown DEF Meet
        <5> QED
          BY <3>5, <5>1, <5>2 DEF Stays
      <4>2. b # Thrown /\ r = m
        BY <3>0, <3>5, NoneThrown DEF Stays
      <4> QED
        BY <4>1, <4>2 DEF m, r
    <3>6. CASE Appends(m, c, r)
      <4>1. c.t = "seq" /\ c.s # <<>> /\ m.t \in {"null", "seq"} /\ r = Seq_(IF m.t = "null" THEN c.s ELSE m.s \o c.s)
        BY <3>6 DEF Appends
      <4>2. b.t = "seq"
        BY <3>1, <3>4, <4>1 DEF Stays, Appends, Joins
      <4>3. b.s \in Seq(Range(b.s)) /\ c.s \in Seq(Range(c.s)) /\ (a.t = "seq" => a.s \in Seq(Range(a.s)))
        BY <3>n, <4>1, <4>2 DEF IsNode
      <4>4. Meet(b, c) = Seq_(b.s \o c.s) /\ Seq_(b.s \o c.s).t = "seq" /\ Seq_(b.s \o c.s).s = b.s \o c.s
        BY <4>1, <4>2 DEF Meet, PushBack, Seq_
      <4>5. b.s \o c.s # <<>>
        BY <4>1, <4>3
      <4>6. Meet(b, c) # Thrown
        BY <4>4 DEF Thrown
      <4>7. Meet(a, Meet(b, c)) = PushBack(a, b.s \o c.s)
        BY <4>4 DEF Meet
      <4>8. m = PushBack(a, b.s)
        BY <4>2 DEF Meet, m
      <4>9. PushBack(a, b.s \o c.s) = r
        <5>1. CASE b.s = <<>>
          <6>1. m = a /\ b.s \o c.s = c.s
            BY <4>3, <4>8, <5>1 DEF PushBack
          <6> QED
            BY <4>1, <6>1 DEF PushBack
        <5>2. CASE b.s # <<>> /\ a.t = "null"
          <6>1. m = Seq_(b.s) /\ m.t = "seq" /\ m.s = b.s
            BY <4>8, <5>2 DEF PushBack, Seq_
          <6> QED
            BY <4>1, <4>5, <5>2, <6>1 DEF PushBack
        <5>3. CASE b.s # <<>> /\ a.t = "seq"
          <6>1. m = Seq_(a.s \o b.s) /\ m.t = "seq" /\ m.s = a.s \o b.s
            BY <4>8, <5>3 DEF PushBack, Seq_
          <6>2. PushBack(a, b.s \o c.s) = Seq_(a.s \o (b.s \o c.s))
            BY <4>5, <5>3 DEF PushBack
          <6>3. (a.s \o b.s) \o c.s = a.s \o (b.s \o c.s)
            <7> DEFINE p == a.s
                       q == b.s
                       v == c.s
            <7>1. p \in Seq(Range(p)) /\ q \in Seq(Range(q)) /\ v \in Seq(Range(v))
              BY <4>3, <5>3
            <7> HIDE DEF p, q, v
            <7>2. (p \o q) \o v = p \o (q \o v)
              BY <7>1, ThreeSequences
            <7> QED
              BY <7>2 DEF p, q, v
          <6> QED
            BY <4>1, <6>1, <6>2, <6>3
        <5>4. CASE b.s # <<>> /\ a.t \notin {"null", "seq"}
          <6>1. m = Thrown
            BY <4>8, <5>4 DEF PushBack
          <6> QED
            BY <2>1, <6>1 DEF m
        <5> QED
          BY <5>1, <5>2, <5>3, <5>4
      <4> QED
        BY <4>6, <4>7, <4>9 DEF m, r
    <3>7. CASE Joins(m, c, r) /\ Stays(a, b, m)
      <4>1. m = a /\ DOMAIN Children(b) = {} /\ b.t = "seq" /\ c.t = "map" /\ DOMAIN c.m # {} /\ a.t # "scalar"
            /\ r = Met(a, c.m)
        BY <3>4, <3>7 DEF Stays, Joins
      <4> DEFINE n == Meet(b, c)
      <4>2. IsTree(Map(c.m))
        BY <3>0, <4>1, NoneThrown
      <4>3. n = Met(b, c.m)
        <5>1. n = AddMap(b, c.m, FALSE, FALSE)
          BY <4>1 DEF Meet
        <5> QED
          BY <3>0, <4>1, <4>2, <5>1, AddMapMet
      <4>4. n.t = "map" /\ n # Thrown /\ n.m = [key \in DOMAIN c.m |-> c.m[key]]
        <5>1. n.t = "map" /\ n.m = [key \in DOMAIN Children(b) \cup DOMAIN c.m |-> MeetAt(b, c.m, key)]
          BY <4>3 DEF Met, Map
        <5>2. DOMAIN Children(b) \cup DOMAIN c.m = DOMAIN c.m
          BY <4>1
        <5>3. \A key \in DOMAIN c.m : MeetAt(b, c.m, key) = c.m[key]
          BY <4>1 DEF MeetAt
        <5> QED
          BY <5>1, <5>2, <5>3 DEF Thrown
      <4>5. IsTree(n)
        BY <2>0, <2>1, <4>4, MeetLow DEF Low
      <4> HIDE DEF n
      <4>6. IsTree(Map(n.m)) /\ DOMAIN n.m = DOMAIN c.m /\ \A key \in DOMAIN c.m : n.m[key] = c.m[key]
        BY <4>4, <4>5, NoneThrown
      <4>7. \A key \in DOMAIN Children(a) \cup DOMAIN c.m : MeetAt(a, n.m, key) = MeetAt(a, c.m, key)
        BY <4>6 DEF MeetAt
      <4>8. Met(a, n.m) = Met(a, c.m)
        BY <4>6, <4>7 DEF Met
      <4>9. ~\E key \in DOMAIN n.m \cap DOMAIN Children(a) : MeetAt(a, n.m, key) = Thrown
        BY <3>7, <4>1, <4>6, <4>7 DEF Joins
      <4>10. Meet(a, n) = Met(a, n.m)
        <5>1. Meet(a, n) = AddMap(a, n.m, FALSE, FALSE)
          BY <4>4 DEF Meet
        <5> QED
          BY <3>0, <4>1, <4>6, <4>9, <5>1, AddMapMet
      <4> QED
        BY <4>1, <4>4, <4>8, <4>10 DEF n, m, r
    <3>8. CASE Joins(m, c, r) /\ Appends(a, b, m)
      <4>1. m.t = "seq" /\ m.s # <<>>
        <5>1. m.t = "seq" /\ m.s = (IF a.t = "null" THEN b.s ELSE a.s \o b.s) /\ b.s # <<>> /\ b.t = "seq"
              /\ (a.t # "null" => a.t = "seq")
          BY <3>8 DEF Appends, Seq_
        <5>2. a.t # "null" => a.s \o b.s # <<>>
          <6>1. b.s \in Seq(Range(b.s)) /\ (a.t = "seq" => a.s \in Seq(Range(a.s)))
            BY <3>n, <5>1 DEF IsNode
          <6> QED
            BY <5>1, <6>1
        <5> QED
          BY <5>1, <5>2
      <4>2. DOMAIN Children(m) \cap Range(IndexKey) # {}
        BY <3>n, <4>1, IndexOfSome
      <4> QED
        BY <3>3, <3>8, <4>2 DEF Joins
    <3>9. CASE Joins(m, c, r) /\ Joins(a, b, m)
      <4> DEFINE n == Meet(b, c)
      <4>1. /\ b.t = "map" /\ DOMAIN b.m # {} /\ a.t # "scalar" /\ Children(b) = b.m /\ Children(m) = m.m
            /\ c.t = "map" /\ DOMAIN c.m # {} /\ Children(c) = c.m /\ IsTree(Map(b.m)) /\ IsTree(Map(c.m))
            /\ DOMAIN m.m = DOMAIN Children(a) \cup DOMAIN b.m /\ DOMAIN r.m = DOMAIN m.m \cup DOMAIN c.m
            /\ r = Met(m, c.m) /\ Children(r) = r.m
        BY <3>0, <3>9, NoneThrown DEF Joins, Children
      <4>2. \A key \in DOMAIN m.m : m.m[key] = MeetAt(a, b.m, key) /\ m.m[key] # Thrown
        BY <3>9 DEF Joins
      <4>3. \A key \in DOMAIN r.m : r.m[key] = MeetAt(m, c.m, key) /\ r.m[key] # Thrown
        BY <3>9 DEF Joins
      <4>4. /\ \A key \in DOMAIN Children(a) : Low(Children(a)[key], h)
            /\ \A key \in DOMAIN b.m : Low(b.m[key], h)
            /\ \A key \in DOMAIN c.m : Low(c.m[key], h)
        BY <2>0, <2>1, <4>1, LowChild
      <4>5. ASSUME NEW key \in DOMAIN Children(a), key \in DOMAIN b.m, key \in DOMAIN c.m
            PROVE  /\ Meet(b.m[key], c.m[key]) # Thrown
                   /\ Meet(Children(a)[key], Meet(b.m[key], c.m[key])) = r.m[key]
        <5>1. m.m[key] = Meet(Children(a)[key], b.m[key]) /\ m.m[key] # Thrown
          BY <4>1, <4>2, <4>5 DEF MeetAt
        <5>2. r.m[key] = Meet(m.m[key], c.m[key]) /\ r.m[key] # Thrown /\ NoneIndexed(r.m[key])
          BY <3>3, <4>1, <4>3, <4>5 DEF MeetAt
        <5>3. Ok(h, Children(a)[key], b.m[key], c.m[key])
          BY <1>2
        <5> QED
          BY <3>4, <4>1, <4>4, <4>5, <5>1, <5>2, <5>3
      <4>6. ASSUME NEW key \in DOMAIN c.m \cap DOMAIN Children(b) PROVE MeetAt(b, c.m, key) # Thrown
        <5>1. MeetAt(b, c.m, key) = Meet(b.m[key], c.m[key])
          BY <4>1 DEF MeetAt
        <5>2. CASE key \in DOMAIN Children(a)
          BY <4>1, <4>5, <5>1, <5>2
        <5>3. CASE key \notin DOMAIN Children(a)
          BY <4>1, <4>2, <4>3, <5>1, <5>3 DEF MeetAt
        <5> QED
          BY <5>2, <5>3
      <4>7. n = Met(b, c.m)
        <5>1. n = AddMap(b, c.m, FALSE, FALSE) /\ b.t # "scalar"
          BY <4>1 DEF Meet
        <5> QED
          BY <3>0, <4>1, <4>6, <5>1, AddMapMet
      <4>8. /\ n.t = "map" /\ n # Thrown /\ DOMAIN n.m = DOMAIN b.m \cup DOMAIN c.m
            /\ \A key \in DOMAIN n.m : n.m[key] = MeetAt(b, c.m, key)
        <5>1. n.t = "map" /\ n.m = [key \in DOMAIN Children(b) \cup DOMAIN c.m |-> MeetAt(b, c.m, key)]
          BY <4>7 DEF Met, Map
        <5> QED
          BY <4>1, <5>1 DEF Thrown
      <4>9. IsTree(n)
        BY <2>0, <2>1, <4>8, MeetLow DEF Low
      <4> HIDE DEF n
      <4>10. IsTree(Map(n.m)) /\ DOMAIN n.m # {}
        BY <4>1, <4>8, <4>9, NoneThrown
      <4>11. ASSUME NEW key \in DOMAIN r.m PROVE MeetAt(a, n.m, key) = r.m[key]
        <5>1. CASE key \in DOMAIN b.m /\ key \in DOMAIN c.m
          <6>1. n.m[key] = Meet(b.m[key], c.m[key]) /\ key \in DOMAIN n.m
            BY <4>1, <4>8, <5>1 DEF MeetAt
          <6>2. CASE key \in DOMAIN Children(a)
            BY <4>5, <5>1, <6>1, <6>2 DEF MeetAt
          <6>3. CASE key \notin DOMAIN Children(a)
            BY <4>1, <4>2, <4>3, <5>1, <6>1, <6>3 DEF MeetAt
          <6> QED
            BY <6>2, <6>3
        <5>2. CASE key \in DOMAIN b.m /\ key \notin DOMAIN c.m
          <6>1. n.m[key] = b.m[key] /\ key \in DOMAIN n.m
            BY <4>1, <4>8, <5>2 DEF MeetAt
          <6>2. r.m[key] = MeetAt(a, b.m, key)
            BY <4>1, <4>2, <4>3, <5>2 DEF MeetAt
          <6> QED
            BY <5>2, <6>1, <6>2 DEF MeetAt
        <5>3. CASE key \notin DOMAIN b.m /\ key \in DOMAIN c.m
          <6>1. n.m[key] = c.m[key] /\ key \in DOMAIN n.m
            BY <4>1, <4>8, <5>3 DEF MeetAt
          <6>2. CASE key \in DOMAIN Children(a)
            BY <4>1, <4>2, <4>3, <5>3, <6>1, <6>2 DEF MeetAt
          <6>3. CASE key \notin DOMAIN Children(a)
            BY <4>1, <4>2, <4>3, <5>3, <6>1, <6>3 DEF MeetAt
          <6> QED
            BY <6>2, <6>3
        <5>4. CASE key \notin DOMAIN b.m /\ key \notin DOMAIN c.m
          <6>1. key \in DOMAIN Children(a) /\ key \notin DOMAIN n.m
            BY <4>1, <4>8, <5>4
          <6> QED
            BY <4>1, <4>2, <4>3, <5>4, <6>1 DEF MeetAt
        <5> QED
          BY <5>1, <5>2, <5>3, <5>4
      <4>12. DOMAIN Children(a) \cup DOMAIN n.m = DOMAIN r.m /\ DOMAIN r.m = DOMAIN Children(m) \cup DOMAIN c.m
        BY <4>1, <4>8
      <4>13. Met(a, n.m) = r
        <5>1. \A key \in DOMAIN r.m : MeetAt(a, n.m, key) = MeetAt(m, c.m, key)
          BY <4>3, <4>11
        <5> QED
          BY <4>1, <4>12, <5>1 DEF Met
      <4>14. ~\E key \in DOMAIN n.m \cap DOMAIN Children(a) : MeetAt(a, n.m, key) = Thrown
        BY <4>3, <4>11, <4>12
      <4>15. Meet(a, n) = Met(a, n.m)
        <5>1. Meet(a, n) = AddMap(a, n.m, FALSE, FALSE)
          BY <4>8 DEF Meet
        <5> QED
          BY <3>0, <4>1, <4>10, <4>14, <5>1, AddMapMet
      <4> QED
        BY <4>8, <4>13, <4>15 DEF n, m, r
    <3> QED
      BY <3>1, <3>2, <3>5, <3>6, <3>7, <3>8, <3>9
  <2> QED
    BY <2>0, <2>1
<1>3. 0..(Height + 1) \subseteq T
  <2> HIDE DEF T
  <2> QED
    BY <1>0, <1>1, <1>2, Induction
<1> QED
  BY <1>3

-----------------------------------------------------------------------------
(* Texts and what they mean: without 'override', in input files.           *)

With(node, child) == AddFile(node, child, FALSE, FALSE)
OneMore(node, e, mean) == AddText(node, e, mean, FALSE, FALSE)
AddAll(first, text, mean) == AddTexts(first, text, mean, FALSE, FALSE)
Means(D) == Meanings(D, FALSE, FALSE)
Flats(D) == Flattened(D, FALSE)

\* The nodes after so many entries of a text.
Steps(first, text, mean, s) ==
  \A i \in 0..Len(text) : s[i] = IF i = 0 THEN first ELSE OneMore(s[i - 1], text[i], mean)

\* There are such nodes, and the last one is the sum.
LEMMA StepsDefined ==
  ASSUME NEW first, NEW text, Len(text) \in Nat, NEW mean
  PROVE  \E s : Steps(first, text, mean, s) /\ AddAll(first, text, mean) = s[Len(text)]
<1> DEFINE H == Len(text)
           Then(a, i) == OneMore(a, text[i], mean)
           Body(f) == [i \in 0..H |-> IF i = 0 THEN first ELSE Then(f[i - 1], i)]
           T == {m \in 0..H : \E f : f = [i \in 0..m |-> IF i = 0 THEN first ELSE Then(f[i - 1], i)]}
           s == CHOOSE f : f = Body(f)
<1>0. H \in Nat /\ H \in 0..H /\ 0 \in 0..H
  OBVIOUS
<1>1. AddAll(first, text, mean) = s[H]
  BY DEF AddAll, AddTexts, OneMore
<1> HIDE DEF H, Then
<1>2. 0 \in T
  <2> DEFINE f == [i \in 0..0 |-> first]
  <2>1. f = [i \in 0..0 |-> IF i = 0 THEN first ELSE Then(f[i - 1], i)]
    OBVIOUS
  <2> HIDE DEF f
  <2> QED
    BY <1>0, <2>1
<1>3. ASSUME NEW m \in 0..H, m < H, m \in T PROVE m + 1 \in T
  <2>1. PICK f : f = [i \in 0..m |-> IF i = 0 THEN first ELSE Then(f[i - 1], i)]
    BY <1>3
  <2> DEFINE g == [i \in 0..(m + 1) |-> IF i = m + 1 THEN Then(f[m], m + 1) ELSE f[i]]
  <2>2. ASSUME NEW i \in 0..(m + 1) PROVE g[i] = IF i = 0 THEN first ELSE Then(g[i - 1], i)
    <3>1. CASE i = 0
      BY <1>0, <2>1, <3>1
    <3>2. CASE i # 0 /\ i = m + 1
      <4>1. i - 1 = m /\ m \in 0..(m + 1) /\ m # m + 1
        BY <1>0, <3>2
      <4> QED
        BY <3>2, <4>1
    <3>3. CASE i # 0 /\ i # m + 1
      <4>1. i \in 0..m /\ i - 1 \in 0..m /\ i - 1 # m + 1 /\ i - 1 \in 0..(m + 1)
        BY <1>0, <3>3
      <4> QED
        BY <2>1, <3>3, <4>1
    <3> QED
      BY <3>1, <3>2, <3>3
  <2>3. g = [i \in 0..(m + 1) |-> IF i = 0 THEN first ELSE Then(g[i - 1], i)]
    <3>1. g = [i \in 0..(m + 1) |-> g[i]]
      OBVIOUS
    <3> HIDE DEF g
    <3> QED
      BY <2>2, <3>1
  <2>4. m + 1 \in 0..H
    BY <1>0, <1>3
  <2> HIDE DEF g
  <2> QED
    BY <2>3, <2>4
<1>4. \E f : f = Body(f)
  <2>1. 0..H \subseteq T
    <3> HIDE DEF T
    <3> QED
      BY <1>0, <1>2, <1>3, Induction
  <2> QED
    BY <1>0, <2>1
<1>5. s = Body(s)
  <2> HIDE DEF Body
  <2> QED
    BY <1>4
<1> HIDE DEF s
<1>6. ASSUME NEW i \in 0..H PROVE s[i] = IF i = 0 THEN first ELSE Then(s[i - 1], i)
  BY <1>5
<1> QED
  BY <1>1, <1>6 DEF Steps, H, Then

\* The text of the first entries of a call's document.
Upto(D, call, text, u) ==
  \A i \in 0..Len(call.d.entries) :
    u[i] = IF i = 0 THEN <<>> ELSE u[i - 1] \o TextOfEntry(D, call, call.d.entries[i], text)

\* There are such texts, and the last one is that of the map.
LEMMA UptoDefined ==
  ASSUME NEW D, NEW call, Len(call.d.entries) \in Nat, NEW text
  PROVE  \E u : Upto(D, call, text, u) /\ TextOfMap(D, call, text) = u[Len(call.d.entries)]
<1> DEFINE H == Len(call.d.entries)
           Then(a, i) == a \o TextOfEntry(D, call, call.d.entries[i], text)
           Body(f) == [i \in 0..H |-> IF i = 0 THEN <<>> ELSE Then(f[i - 1], i)]
           T == {m \in 0..H : \E f : f = [i \in 0..m |-> IF i = 0 THEN <<>> ELSE Then(f[i - 1], i)]}
           s == CHOOSE f : f = Body(f)
<1>0. H \in Nat /\ H \in 0..H /\ 0 \in 0..H
  OBVIOUS
<1>1. TextOfMap(D, call, text) = s[H]
  BY DEF TextOfMap
<1> HIDE DEF H, Then
<1>2. 0 \in T
  <2> DEFINE f == [i \in 0..0 |-> <<>>]
  <2>1. f = [i \in 0..0 |-> IF i = 0 THEN <<>> ELSE Then(f[i - 1], i)]
    OBVIOUS
  <2> HIDE DEF f
  <2> QED
    BY <1>0, <2>1
<1>3. ASSUME NEW m \in 0..H, m < H, m \in T PROVE m + 1 \in T
  <2>1. PICK f : f = [i \in 0..m |-> IF i = 0 THEN <<>> ELSE Then(f[i - 1], i)]
    BY <1>3
  <2> DEFINE g == [i \in 0..(m + 1) |-> IF i = m + 1 THEN Then(f[m], m + 1) ELSE f[i]]
  <2>2. ASSUME NEW i \in 0..(m + 1) PROVE g[i] = IF i = 0 THEN <<>> ELSE Then(g[i - 1], i)
    <3>1. CASE i = 0
      BY <1>0, <2>1, <3>1
    <3>2. CASE i # 0 /\ i = m + 1
      <4>1. i - 1 = m /\ m \in 0..(m + 1) /\ m # m + 1
        BY <1>0, <3>2
      <4> QED
        BY <3>2, <4>1
    <3>3. CASE i # 0 /\ i # m + 1
      <4>1. i \in 0..m /\ i - 1 \in 0..m /\ i - 1 # m + 1 /\ i - 1 \in 0..(m + 1)
        BY <1>0, <3>3
      <4> QED
        BY <2>1, <3>3, <4>1
    <3> QED
      BY <3>1, <3>2, <3>3
  <2>3. g = [i \in 0..(m + 1) |-> IF i = 0 THEN <<>> ELSE Then(g[i - 1], i)]
    <3>1. g = [i \in 0..(m + 1) |-> g[i]]
      OBVIOUS
    <3> HIDE DEF g
    <3> QED
      BY <2>2, <3>1
  <2>4. m + 1 \in 0..H
    BY <1>0, <1>3
  <2> HIDE DEF g
  <2> QED
    BY <2>3, <2>4
<1>4. \E f : f = Body(f)
  <2>1. 0..H \subseteq T
    <3> HIDE DEF T
    <3> QED
      BY <1>0, <1>2, <1>3, Induction
  <2> QED
    BY <1>0, <2>1
<1>5. s = Body(s)
  <2> HIDE DEF Body
  <2> QED
    BY <1>4
<1> HIDE DEF s
<1>6. ASSUME NEW i \in 0..H PROVE s[i] = IF i = 0 THEN <<>> ELSE Then(s[i - 1], i)
  BY <1>5
<1> QED
  BY <1>1, <1>6 DEF Upto, H, Then

\* The texts exist for every number of files within one another.
LEMMA TextsDefined ==
  ASSUME NEW D
  PROVE  \A call \in Calls(D) :
           /\ Texts(D)[0][call] = <<Thrown>>
           /\ \A h \in 1..Depth : Texts(D)[h][call] = TextOf(D, call, Texts(D)[h - 1])
<1> DEFINE Calls_ == Calls(D)
           Next_(a) == [call \in Calls_ |-> TextOf(D, call, a)]
           none == [call \in Calls_ |-> <<Thrown>>]
           H == Depth
           Body(f) == [h \in 0..H |-> IF h = 0 THEN none ELSE Next_(f[h - 1])]
           T == {m \in 0..H : \E f : f = [h \in 0..m |-> IF h = 0 THEN none ELSE Next_(f[h - 1])]}
<1>0. H \in Nat /\ H \in 0..H /\ 0 \in 0..H
  BY DepthAssumption
<1> HIDE DEF H, Calls_
<1>1. Texts(D) = CHOOSE f : f = Body(f)
  <2>1. \A f : Body(f) = [h \in 0..H |->
                 [call \in Calls_ |-> IF h = 0 THEN <<Thrown>> ELSE TextOf(D, call, f[h - 1])]]
    OBVIOUS
  <2> QED
    BY <2>1, Zenon DEF Texts, H, Calls_
<1> HIDE DEF Next_, none
<1>2. 0 \in T
  <2> DEFINE f == [h \in 0..0 |-> none]
  <2>1. f = [h \in 0..0 |-> IF h = 0 THEN none ELSE Next_(f[h - 1])]
    OBVIOUS
  <2> HIDE DEF f
  <2> QED
    BY <1>0, <2>1
<1>3. ASSUME NEW m \in 0..H, m < H, m \in T PROVE m + 1 \in T
  <2>1. PICK f : f = [h \in 0..m |-> IF h = 0 THEN none ELSE Next_(f[h - 1])]
    BY <1>3
  <2> DEFINE g == [h \in 0..(m + 1) |-> IF h = m + 1 THEN Next_(f[m]) ELSE f[h]]
  <2>2. ASSUME NEW h \in 0..(m + 1) PROVE g[h] = IF h = 0 THEN none ELSE Next_(g[h - 1])
    <3>1. CASE h = 0
      BY <1>0, <2>1, <3>1
    <3>2. CASE h # 0 /\ h = m + 1
      <4>1. h - 1 = m /\ m \in 0..(m + 1) /\ m # m + 1
        BY <1>0, <3>2
      <4> QED
        BY <3>2, <4>1
    <3>3. CASE h # 0 /\ h # m + 1
      <4>1. h \in 0..m /\ h - 1 \in 0..m /\ h - 1 # m + 1 /\ h - 1 \in 0..(m + 1)
        BY <1>0, <3>3
      <4> QED
        BY <2>1, <3>3, <4>1
    <3> QED
      BY <3>1, <3>2, <3>3
  <2>3. g = [h \in 0..(m + 1) |-> IF h = 0 THEN none ELSE Next_(g[h - 1])]
    <3>1. g = [h \in 0..(m + 1) |-> g[h]]
      OBVIOUS
    <3> HIDE DEF g
    <3> QED
      BY <2>2, <3>1
  <2>4. m + 1 \in 0..H
    BY <1>0, <1>3
  <2> HIDE DEF g
  <2> QED
    BY <2>3, <2>4
<1>4. \E f : f = Body(f)
  <2>1. 0..H \subseteq T
    <3> HIDE DEF T
    <3> QED
      BY <1>0, <1>2, <1>3, Induction
  <2> QED
    BY <1>0, <2>1
<1>5. Texts(D) = Body(Texts(D))
  <2> HIDE DEF Body
  <2> QED
    BY <1>1, <1>4
<1>6. ASSUME NEW h \in 0..H
      PROVE  Texts(D)[h] = IF h = 0 THEN none ELSE Next_(Texts(D)[h - 1])
  <2> DEFINE L == Texts(D)
  <2> HIDE DEF L
  <2>1. L = Body(L)
    BY <1>5 DEF L
  <2>2. L[h] = IF h = 0 THEN none ELSE Next_(L[h - 1])
    BY <2>1
  <2> QED
    BY <2>2 DEF L
<1>7. ASSUME NEW call \in Calls(D) PROVE Texts(D)[0][call] = <<Thrown>>
  BY <1>0, <1>6 DEF none, Calls_
<1>8. ASSUME NEW call \in Calls(D), NEW h \in 1..Depth
      PROVE  Texts(D)[h][call] = TextOf(D, call, Texts(D)[h - 1])
  <2>1. h \in 0..H /\ h # 0
    BY <1>0 DEF H
  <2>2. Texts(D)[h] = Next_(Texts(D)[h - 1])
    BY <1>6, <2>1
  <2> QED
    BY <2>2 DEF Next_, Calls_
<1> QED
  BY <1>7, <1>8

\* What a call means, when those that it makes mean this.
MeansOf(D, call, mean) == Meaning(D, call, Texts(D)[Depth], mean, FALSE, FALSE)

\* So does what calls mean.
LEMMA MeansDefined ==
  ASSUME NEW D
  PROVE  \A call \in Calls(D) :
           /\ Means(D)[0][call] = Thrown
           /\ \A h \in 1..Depth : Means(D)[h][call] = MeansOf(D, call, Means(D)[h - 1])
<1> DEFINE Calls_ == Calls(D)
           Next_(a) == [call \in Calls_ |-> MeansOf(D, call, a)]
           none == [call \in Calls_ |-> Thrown]
           H == Depth
           Body(f) == [h \in 0..H |-> IF h = 0 THEN none ELSE Next_(f[h - 1])]
           T == {m \in 0..H : \E f : f = [h \in 0..m |-> IF h = 0 THEN none ELSE Next_(f[h - 1])]}
<1>0. H \in Nat /\ H \in 0..H /\ 0 \in 0..H
  BY DepthAssumption
<1> HIDE DEF H, Calls_
<1>1. Means(D) = CHOOSE f : f = Body(f)
  <2>1. \A f : Body(f) = [h \in 0..H |->
                 [call \in Calls_ |->
                    IF h = 0 THEN Thrown ELSE Meaning(D, call, Texts(D)[Depth], f[h - 1], FALSE, FALSE)]]
    BY DEF MeansOf
  <2> QED
    BY <2>1, Zenon DEF Means, Meanings, H, Calls_
<1> HIDE DEF Next_, none
<1>2. 0 \in T
  <2> DEFINE f == [h \in 0..0 |-> none]
  <2>1. f = [h \in 0..0 |-> IF h = 0 THEN none ELSE Next_(f[h - 1])]
    OBVIOUS
  <2> HIDE DEF f
  <2> QED
    BY <1>0, <2>1
<1>3. ASSUME NEW m \in 0..H, m < H, m \in T PROVE m + 1 \in T
  <2>1. PICK f : f = [h \in 0..m |-> IF h = 0 THEN none ELSE Next_(f[h - 1])]
    BY <1>3
  <2> DEFINE g == [h \in 0..(m + 1) |-> IF h = m + 1 THEN Next_(f[m]) ELSE f[h]]
  <2>2. ASSUME NEW h \in 0..(m + 1) PROVE g[h] = IF h = 0 THEN none ELSE Next_(g[h - 1])
    <3>1. CASE h = 0
      BY <1>0, <2>1, <3>1
    <3>2. CASE h # 0 /\ h = m + 1
      <4>1. h - 1 = m /\ m \in 0..(m + 1) /\ m # m + 1
        BY <1>0, <3>2
      <4> QED
        BY <3>2, <4>1
    <3>3. CASE h # 0 /\ h # m + 1
      <4>1. h \in 0..m /\ h - 1 \in 0..m /\ h - 1 # m + 1 /\ h - 1 \in 0..(m + 1)
        BY <1>0, <3>3
      <4> QED
        BY <2>1, <3>3, <4>1
    <3> QED
      BY <3>1, <3>2, <3>3
  <2>3. g = [h \in 0..(m + 1) |-> IF h = 0 THEN none ELSE Next_(g[h - 1])]
    <3>1. g = [h \in 0..(m + 1) |-> g[h]]
      OBVIOUS
    <3> HIDE DEF g
    <3> QED
      BY <2>2, <3>1
  <2>4. m + 1 \in 0..H
    BY <1>0, <1>3
  <2> HIDE DEF g
  <2> QED
    BY <2>3, <2>4
<1>4. \E f : f = Body(f)
  <2>1. 0..H \subseteq T
    <3> HIDE DEF T
    <3> QED
      BY <1>0, <1>2, <1>3, Induction
  <2> QED
    BY <1>0, <2>1
<1>5. Means(D) = Body(Means(D))
  <2> HIDE DEF Body
  <2> QED
    BY <1>1, <1>4
<1>6. ASSUME NEW h \in 0..H
      PROVE  Means(D)[h] = IF h = 0 THEN none ELSE Next_(Means(D)[h - 1])
  <2> DEFINE L == Means(D)
  <2> HIDE DEF L
  <2>1. L = Body(L)
    BY <1>5 DEF L
  <2>2. L[h] = IF h = 0 THEN none ELSE Next_(L[h - 1])
    BY <2>1
  <2> QED
    BY <2>2 DEF L
<1>7. ASSUME NEW call \in Calls(D) PROVE Means(D)[0][call] = Thrown
  BY <1>0, <1>6 DEF none, Calls_
<1>8. ASSUME NEW call \in Calls(D), NEW h \in 1..Depth
      PROVE  Means(D)[h][call] = MeansOf(D, call, Means(D)[h - 1])
  <2>1. h \in 0..H /\ h # 0
    BY <1>0 DEF H
  <2>2. Means(D)[h] = Next_(Means(D)[h - 1])
    BY <1>6, <2>1
  <2> QED
    BY <2>2 DEF Next_, Calls_
<1> QED
  BY <1>7, <1>8

-----------------------------------------------------------------------------
(* Adding texts.                                                           *)

\* An empty text adds nothing.
LEMMA AddNone ==
  ASSUME NEW first, NEW mean
  PROVE  AddAll(first, <<>>, mean) = first
<1> DEFINE text == <<>>
<1>1. Len(text) = 0 /\ Len(text) \in Nat
  OBVIOUS
<1> HIDE DEF text
<1>2. PICK s : Steps(first, text, mean, s) /\ AddAll(first, text, mean) = s[Len(text)]
  BY <1>1, StepsDefined
<1>3. s[0] = first
  BY <1>1, <1>2 DEF Steps
<1> QED
  BY <1>1, <1>2, <1>3 DEF text

\* A text with one entry adds that.
LEMMA AddOne ==
  ASSUME NEW first, NEW e, NEW mean
  PROVE  AddAll(first, <<e>>, mean) = OneMore(first, e, mean)
<1> DEFINE text == <<e>>
<1>1. Len(text) = 1 /\ Len(text) \in Nat /\ text[1] = e
  OBVIOUS
<1> HIDE DEF text
<1>2. PICK s : Steps(first, text, mean, s) /\ AddAll(first, text, mean) = s[Len(text)]
  BY <1>1, StepsDefined
<1>3. s[0] = first /\ s[1] = OneMore(s[0], text[1], mean)
  <2>1. \A i \in 0..1 : s[i] = IF i = 0 THEN first ELSE OneMore(s[i - 1], text[i], mean)
    BY <1>1, <1>2 DEF Steps
  <2> QED
    BY <2>1
<1> QED
  BY <1>1, <1>2, <1>3 DEF text

\* Two texts are added one after the other.
LEMMA AddTwo ==
  ASSUME NEW first, NEW a, NEW b, a \in Seq(Range(a)), b \in Seq(Range(b)), NEW mean
  PROVE  AddAll(first, a \o b, mean) = AddAll(AddAll(first, a, mean), b, mean)
<1> DEFINE c == a \o b
           m == Len(a)
           n == Len(b)
<1>1. /\ m \in Nat /\ n \in Nat /\ DOMAIN a = 1..m /\ DOMAIN b = 1..n
      /\ c \in Seq(Range(c)) /\ DOMAIN c = 1..(m + n)
      /\ \A i \in 1..m : c[i] = a[i]
      /\ \A j \in 1..n : c[m + j] = b[j]
  BY Concatenation
<1>2. Len(c) = m + n /\ Len(c) \in Nat
  <2> HIDE DEF c, m, n
  <2> QED
    BY <1>1
<1>3. PICK x : Steps(first, c, mean, x) /\ AddAll(first, c, mean) = x[Len(c)]
  BY <1>2, StepsDefined
<1>4. PICK y : Steps(first, a, mean, y) /\ AddAll(first, a, mean) = y[Len(a)]
  BY <1>1, StepsDefined
<1>5. PICK z : Steps(AddAll(first, a, mean), b, mean, z) /\ AddAll(AddAll(first, a, mean), b, mean) = z[Len(b)]
  BY <1>1, StepsDefined
<1> HIDE DEF c
<1>6. \A i \in 0..(m + n) : x[i] = IF i = 0 THEN first ELSE OneMore(x[i - 1], c[i], mean)
  BY <1>2, <1>3 DEF Steps
<1>7. \A i \in 0..m : y[i] = IF i = 0 THEN first ELSE OneMore(y[i - 1], a[i], mean)
  BY <1>4 DEF Steps
<1>8. \A i \in 0..n : z[i] = IF i = 0 THEN y[m] ELSE OneMore(z[i - 1], b[i], mean)
  BY <1>4, <1>5 DEF Steps
<1> HIDE DEF m, n
<1> DEFINE T == {i \in 0..m : x[i] = y[i]}
           U == {i \in 0..n : x[m + i] = z[i]}
<1>9. 0 \in T
  BY <1>1, <1>6, <1>7
<1>10. ASSUME NEW i \in 0..m, i < m, i \in T PROVE i + 1 \in T
  <2>1. i + 1 \in 0..m /\ i + 1 \in 1..m /\ i + 1 # 0 /\ (i + 1) - 1 = i /\ i + 1 \in 0..(m + n)
    BY <1>1, <1>10
  <2>2. x[i + 1] = OneMore(x[i], c[i + 1], mean) /\ y[i + 1] = OneMore(y[i], a[i + 1], mean)
    BY <1>6, <1>7, <2>1
  <2> QED
    BY <1>1, <1>10, <2>1, <2>2
<1>11. m \in T
  <2>1. 0..m \subseteq T
    <3> HIDE DEF T
    <3> QED
      BY <1>1, <1>9, <1>10, Induction
  <2> QED
    BY <1>1, <2>1
<1>12. 0 \in U
  BY <1>1, <1>8, <1>11
<1>13. ASSUME NEW i \in 0..n, i < n, i \in U PROVE i + 1 \in U
  <2>1. i + 1 \in 0..n /\ i + 1 \in 1..n /\ i + 1 # 0 /\ (i + 1) - 1 = i
    BY <1>1, <1>13
  <2>2. m + (i + 1) \in 0..(m + n) /\ m + (i + 1) # 0 /\ (m + (i + 1)) - 1 = m + i
    BY <1>1, <2>1
  <2>3. x[m + (i + 1)] = OneMore(x[m + i], c[m + (i + 1)], mean) /\ z[i + 1] = OneMore(z[i], b[i + 1], mean)
    BY <1>6, <1>8, <2>1, <2>2
  <2> QED
    BY <1>1, <1>13, <2>1, <2>3
<1>14. n \in U
  <2>1. 0..n \subseteq U
    <3> HIDE DEF U
    <3> QED
      BY <1>1, <1>12, <1>13, Induction
  <2> QED
    BY <1>1, <2>1
<1>15. x[m + n] = z[n]
  BY <1>14
<1> QED
  BY <1>2, <1>3, <1>5, <1>15 DEF c, m, n

-----------------------------------------------------------------------------
(* Calls for input files.                                                  *)

Input(D, call) == Sound(D, call) /\ Once(call) /\ ~IsSchema(call.file)

\* The part of an input file is in that file.
LEMMA InputChild ==
  ASSUME NEW D \in Disks, NEW call, Input(D, call), NEW d \in Inner(call.d)
  PROVE  /\ Input(D, OfChild(call, d)) /\ OfChild(call, d).d = d /\ OfChild(call, d).file = call.file
         /\ OfChild(call, d).folder = call.folder
<1>1. /\ OfChild(call, d).file = call.file /\ OfChild(call, d).stack = call.stack
      /\ OfChild(call, d).folder = call.folder
  BY DEF OfChild, Input, Sound, Calls
<1> QED
  BY <1>1, SoundChild DEF Input, Once

\* An input file follows input files only, and each is read in its own folder.
LEMMA InputFile ==
  ASSUME NEW D \in Disks, NEW call, Input(D, call), NEW ref, ref.folder \in Folder \cup {NoFolder},
         NEW to, to = Target(D, ref, call.file, call.folder), to # NoFile, to \notin Range(call.stack)
  PROVE  /\ to \in DOMAIN D /\ ~IsSchema(to)
         /\ Input(D, OfFile(D, call, to)) /\ OfFile(D, call, to).d = D[to]
         /\ [OfFile(D, call, to) EXCEPT !.folder = to[1]] = OfFile(D, call, to)
<1>1. ref.name \notin SchemaNames
  <2>1. SUFFICES ASSUME ref.name \in SchemaNames PROVE to = NoFile
    OBVIOUS
  <2>2. FoldersOf(call.file) = <<>>
    BY DEF FoldersOf, Input
  <2>3. FindFileRecursive(D, ref.name, <<>>) = NoFile
    BY DEF FindFileRecursive
  <2> QED
    BY <2>1, <2>2, <2>3 DEF Target
<1>2. to \in DOMAIN D /\ to[2] = ref.name
  BY <1>1 DEF Target
<1>3. ~IsSchema(to)
  BY <1>1, <1>2 DEF IsSchema
<1>4. Sound(D, OfFile(D, call, to)) /\ OfFile(D, call, to).d = D[to]
  BY <1>2, SoundFile DEF Input
<1>5. Once(OfFile(D, call, to))
  <2>1. call.stack \in Seq(DOMAIN D)
    BY DEF Input, Sound, Calls
  <2> DEFINE s == call.stack
             t == Append(s, to)
             L == Len(s)
  <2>2. /\ L \in Nat /\ DOMAIN s = 1..L
        /\ DOMAIN t = 1..(L + 1) /\ t[L + 1] = to /\ \A i \in 1..L : t[i] = s[i]
    BY <2>1
  <2>3. \A i \in 1..L : s[i] # to
    BY <2>2 DEF Range
  <2>4. OfFile(D, call, to).stack = t /\ Once(call)
    BY DEF OfFile, Input
  <2>5. \A i, j \in 1..L : s[i] = s[j] => i = j
    BY <2>2, <2>4 DEF Once
  <2> HIDE DEF s, t, L
  <2>6. ASSUME NEW i \in 1..(L + 1), NEW j \in 1..(L + 1), t[i] = t[j] PROVE i = j
    <3>1. (i = L + 1 \/ i \in 1..L) /\ (j = L + 1 \/ j \in 1..L)
      BY <2>2
    <3> QED
      BY <2>2, <2>3, <2>5, <2>6, <3>1
  <2> QED
    BY <2>2, <2>4, <2>6 DEF Once
<1>6. FolderOf(to, call.folder) = to[1] /\ OfFile(D, call, to).file = to
  BY <1>3 DEF FolderOf, OfFile
<1>7. [OfFile(D, call, to) EXCEPT !.folder = to[1]] = OfFile(D, call, to)
  <2> DEFINE d == D[to]
             folder == FolderOf(to, call.folder)
             stack == Append(call.stack, to)
             c == [file |-> to, d |-> d, folder |-> folder, stack |-> stack]
  <2>1. OfFile(D, call, to) = c /\ folder = to[1]
    BY <1>6 DEF OfFile
  <2> HIDE DEF d, folder, stack
  <2>2. [c EXCEPT !.folder = to[1]] = c
    BY <2>1
  <2> QED
    BY <2>1, <2>2
<1> QED
  BY <1>2, <1>3, <1>4, <1>5, <1>6, <1>7 DEF Input

\* What kinds of documents there are, and of entries.
LEMMA InputDocument ==
  ASSUME NEW D \in Disks, NEW call, Input(D, call)
  PROVE  /\ call.file \in DOMAIN D /\ call \in Calls(D)
         /\ call.d.t = "doc" =>
              /\ Len(call.d.entries) \in Nat /\ DOMAIN call.d.entries = 1..Len(call.d.entries)
              /\ \A i \in DOMAIN call.d.entries :
                   LET e == call.d.entries[i]
                   IN /\ e[1] = "follow" => e[2].folder \in Folder \cup {NoFolder}
                      /\ e[1] # "follow" => e[2] \in Inner(call.d)
                      /\ e[1] # "follow" /\ e[2].t = "scalar" => \E rel \in BOOLEAN : e[2] = Value(call.file, rel)
         /\ call.d.t = "seq" =>
              /\ call.d.s \in Seq(Range(call.d.s))
              /\ \A i \in DOMAIN call.d.s :
                   /\ call.d.s[i] \in Inner(call.d)
                   /\ call.d.s[i].t = "scalar" => \E rel \in BOOLEAN : call.d.s[i] = Element(call.file, rel)
         /\ call.d.t \notin {"doc", "seq"} => call.d = Null \/ call.d.t = "scalar"
<1>1. call.file \in DOMAIN D /\ IsDocument(call.d, call.file) /\ call \in Calls(D)
  BY PartsOfFile DEF Input, Sound, Calls
<1>2. CASE call.d.t = "doc"
  <2>1. call.d.entries \in Seq(Range(call.d.entries))
    BY <1>1, <1>2 DEF IsDocument
  <2>2. Len(call.d.entries) \in Nat /\ DOMAIN call.d.entries = 1..Len(call.d.entries)
    BY <2>1
  <2>3. ASSUME NEW i \in DOMAIN call.d.entries, NEW e, e = call.d.entries[i]
        PROVE  /\ e[1] = "follow" => e[2].folder \in Folder \cup {NoFolder}
               /\ e[1] # "follow" => e[2] \in Inner(call.d)
               /\ e[1] # "follow" /\ e[2].t = "scalar" => \E rel \in BOOLEAN : e[2] = Value(call.file, rel)
    BY <1>1, <1>2, <2>3 DEF IsDocument, Inner
  <2> QED
    BY <1>1, <1>2, <2>2, <2>3
<1>3. CASE call.d.t = "seq"
  <2>1. \A i \in DOMAIN call.d.s : call.d.s[i] \in Inner(call.d)
    BY <1>3 DEF Inner, Range
  <2> QED
    BY <1>1, <1>3, <2>1 DEF IsDocument
<1>4. CASE call.d.t \notin {"doc", "seq"}
  BY <1>1, <1>4 DEF IsDocument
<1> QED
  BY <1>2, <1>3, <1>4

-----------------------------------------------------------------------------
(* What texts consist of, and how high their nodes are.                    *)

IsTextEntry(D, e) == e = Thrown \/ (e = Entry_(e.key, e.call) /\ Input(D, e.call))
IsText(D, text) == text \in Seq(Range(text)) /\ \A i \in DOMAIN text : IsTextEntry(D, text[i])

\* What calls mean is not too high.
Fits(D, mean, g) == \A call : Input(D, call) => mean[call] = Thrown \/ Low(mean[call], g)

\* One entry more.
LEMMA EntryAdded ==
  ASSUME AllIndexed, NEW n, NEW key, NEW v, NEW g \in 0..Height, Low(v, g), NEW k \in (g + 1)..(Height + 1), Low(n, k),
         NEW m, m = AddMap(n, Entry(key, v), FALSE, FALSE), m # Thrown
  PROVE  /\ m = Meet(n, Map(Entry(key, v))) /\ Low(m, k)
         /\ NoneIndexed(m) => NoneIndexed(n) /\ NoneIndexed(v)
<1> DEFINE e == Map(Entry(key, v))
<1>0. Height \in Nat /\ k \in 0..(Height + 1) /\ g + 1 \in 0..(Height + 1) /\ k \in (g + 1)..(Height + 1)
  BY HeightAssumption
<1>1. /\ Low(e, g + 1) /\ e.t = "map" /\ e.m = Entry(key, v)
      /\ DOMAIN Children(e) = {key} /\ Children(e)[key] = v
  BY EntryLow
<1> HIDE DEF e
<1>2. Low(e, k)
  BY <1>0, <1>1, LowHigher
<1>3. m = Meet(n, e)
  BY <1>1 DEF Meet
<1>4. Low(m, k)
  BY <1>0, <1>2, <1>3, MeetLow
<1>5. ASSUME NoneIndexed(m) PROVE NoneIndexed(n) /\ NoneIndexed(v)
  <2>1. NoneIndexed(n) /\ NoneIndexed(e)
    BY <1>0, <1>2, <1>3, <1>5, MeetIndexed
  <2>2. IsTree(e)
    BY <1>1 DEF Low
  <2> QED
    BY <1>1, <2>1, <2>2, NoneIndexedParts
<1> QED
  BY <1>3, <1>4, <1>5 DEF e

\* That is not too high, and what is a map instead of a sequence stays one.
LEMMA OneMoreLow ==
  ASSUME AllIndexed, NEW D, NEW e, IsTextEntry(D, e), NEW mean, NEW g \in 0..Height, Fits(D, mean, g),
         NEW k \in (g + 1)..(Height + 1), NEW n, Low(n, k), NEW m, m = OneMore(n, e, mean), m # Thrown
  PROVE  Low(m, k) /\ (NoneIndexed(m) => NoneIndexed(n))
<1>1. e # Thrown /\ n # Thrown /\ mean[e.call] # Thrown /\ m = AddMap(n, Entry(e.key, mean[e.call]), FALSE, FALSE)
  BY DEF OneMore, AddText
<1>2. Low(mean[e.call], g)
  BY <1>1 DEF IsTextEntry, Fits
<1> DEFINE v == mean[e.call]
           key == e.key
<1>3. m = AddMap(n, Entry(key, v), FALSE, FALSE) /\ Low(v, g)
  BY <1>1, <1>2
<1> HIDE DEF v, key
<1> QED
  BY <1>3, EntryAdded

\* Nothing comes of an exception.
LEMMA ThrownStays ==
  ASSUME NEW first, NEW text, text \in Seq(Range(text)), NEW mean, first = Thrown
  PROVE  AddAll(first, text, mean) = Thrown
<1> DEFINE n == Len(text)
<1>1. n \in Nat
  OBVIOUS
<1>2. PICK s : Steps(first, text, mean, s) /\ AddAll(first, text, mean) = s[n]
  BY <1>1, StepsDefined
<1>3. \A i \in 0..n : s[i] = IF i = 0 THEN first ELSE OneMore(s[i - 1], text[i], mean)
  BY <1>2 DEF Steps
<1> HIDE DEF n
<1> DEFINE T == {i \in 0..n : s[i] = Thrown}
<1>4. 0 \in T
  BY <1>1, <1>3
<1>5. ASSUME NEW i \in 0..n, i < n, i \in T PROVE i + 1 \in T
  <2>1. i + 1 \in 0..n /\ i + 1 # 0 /\ (i + 1) - 1 = i
    BY <1>1, <1>5
  <2>2. s[i + 1] = OneMore(s[i], text[i + 1], mean) /\ s[i] = Thrown
    BY <1>3, <1>5, <2>1
  <2> QED
    BY <2>1, <2>2 DEF OneMore, AddText
<1>6. n \in T
  <2>1. 0..n \subseteq T
    <3> HIDE DEF T
    <3> QED
      BY <1>1, <1>4, <1>5, Induction
  <2> QED
    BY <1>1, <2>1
<1> QED
  BY <1>2, <1>6

\* A whole text.
LEMMA AddAllLow ==
  ASSUME AllIndexed, NEW D, NEW text, IsText(D, text), NEW mean, NEW g \in 0..Height, Fits(D, mean, g),
         NEW k \in (g + 1)..(Height + 1), NEW first, Low(first, k), AddAll(first, text, mean) # Thrown
  PROVE  /\ Low(AddAll(first, text, mean), k)
         /\ NoneIndexed(AddAll(first, text, mean)) => NoneIndexed(first)
<1> DEFINE n == Len(text)
<1>1. n \in Nat /\ DOMAIN text = 1..n
  BY DEF IsText
<1>2. PICK s : Steps(first, text, mean, s) /\ AddAll(first, text, mean) = s[n]
  BY <1>1, StepsDefined
<1>3. \A i \in 0..n : s[i] = IF i = 0 THEN first ELSE OneMore(s[i - 1], text[i], mean)
  BY <1>2 DEF Steps
<1> HIDE DEF n
<1> DEFINE Fine(i) == s[i] = Thrown \/ (Low(s[i], k) /\ (NoneIndexed(s[i]) => NoneIndexed(first)))
           T == {i \in 0..n : Fine(i)}
<1>4. 0 \in T
  BY <1>1, <1>3
<1>5. ASSUME NEW i \in 0..n, i < n, i \in T PROVE i + 1 \in T
  <2>1. i + 1 \in 0..n /\ i + 1 # 0 /\ (i + 1) - 1 = i /\ i + 1 \in 1..n
    BY <1>1, <1>5
  <2>2. s[i + 1] = OneMore(s[i], text[i + 1], mean) /\ Fine(i)
    BY <1>3, <1>5, <2>1
  <2>3. CASE s[i] = Thrown
    <3>1. s[i + 1] = Thrown
      BY <2>2, <2>3 DEF OneMore, AddText
    <3> QED
      BY <2>1, <3>1
  <2>4. CASE s[i] # Thrown /\ s[i + 1] # Thrown
    <3> DEFINE a == s[i]
               b == s[i + 1]
               e == text[i + 1]
    <3>1. IsTextEntry(D, e)
      BY <1>1, <2>1 DEF IsText
    <3>2. b = OneMore(a, e, mean) /\ Low(a, k) /\ b # Thrown
      BY <2>2, <2>4
    <3>3. Low(b, k) /\ (NoneIndexed(b) => NoneIndexed(a))
      <4> HIDE DEF a, b, e
      <4> QED
        BY <3>1, <3>2, OneMoreLow
    <3> QED
      BY <2>1, <2>2, <2>4, <3>3
  <2> QED
    BY <2>1, <2>3, <2>4
<1>6. n \in T
  <2>1. 0..n \subseteq T
    <3> HIDE DEF T
    <3> QED
      BY <1>1, <1>4, <1>5, Induction
  <2> QED
    BY <1>1, <2>1
<1> QED
  BY <1>2, <1>6

-----------------------------------------------------------------------------
(* All texts, and all that calls mean.                                     *)

\* The empty text is one.
LEMMA NoText ==
  ASSUME NEW D
  PROVE  IsText(D, <<>>)
<1> DEFINE s == <<>>
<1>1. s \in Seq(Range(s)) /\ DOMAIN s = {}
  OBVIOUS
<1> HIDE DEF s
<1> QED
  BY <1>1 DEF IsText, s

\* An entry is one.
LEMMA OneText ==
  ASSUME NEW D, NEW e, IsTextEntry(D, e)
  PROVE  IsText(D, <<e>>)
<1> DEFINE s == <<e>>
<1>1. DOMAIN s = {1} /\ s[1] = e /\ s \in Seq({e})
  OBVIOUS
<1>2. Range(s) = {e}
  BY <1>1 DEF Range
<1> HIDE DEF s
<1> QED
  BY <1>1, <1>2 DEF IsText, s

\* Two texts make one.
LEMMA TwoTexts ==
  ASSUME NEW D, NEW a, NEW b, IsText(D, a), IsText(D, b)
  PROVE  IsText(D, a \o b)
<1> DEFINE c == a \o b
           m == Len(a)
           n == Len(b)
<1>1. /\ m \in Nat /\ n \in Nat /\ DOMAIN a = 1..m /\ DOMAIN b = 1..n
      /\ c \in Seq(Range(c)) /\ DOMAIN c = 1..(m + n)
      /\ \A i \in 1..m : c[i] = a[i]
      /\ \A j \in 1..n : c[m + j] = b[j]
  BY Concatenation DEF IsText
<1> HIDE DEF c, m, n
<1>2. ASSUME NEW i \in 1..(m + n) PROVE IsTextEntry(D, c[i])
  <2>1. CASE i \in 1..m
    BY <1>1, <2>1 DEF IsText
  <2>2. CASE i \notin 1..m
    <3>1. i - m \in 1..n /\ m + (i - m) = i
      BY <1>1, <2>2
    <3>2. c[i] = b[i - m]
      BY <1>1, <3>1
    <3> QED
      BY <1>1, <3>1, <3>2 DEF IsText
  <2> QED
    BY <2>1, <2>2
<1> QED
  BY <1>1, <1>2 DEF IsText, c

\* What calls in input files stand for.
AllTexts(D, text) == \A call : Input(D, call) => IsText(D, text[call])

\* What stands for an entry is a text.
LEMMA TextOfEntryIs ==
  ASSUME NEW D \in Disks, NEW call, Input(D, call), call.d.t = "doc", NEW i \in DOMAIN call.d.entries,
         NEW text, AllTexts(D, text)
  PROVE  IsText(D, TextOfEntry(D, call, call.d.entries[i], text))
<1> DEFINE e == call.d.entries[i]
           to == Target(D, e[2], call.file, call.folder)
           made == TextOfEntry(D, call, e, text)
<1>1. /\ e[1] = "follow" => e[2].folder \in Folder \cup {NoFolder}
      /\ e[1] # "follow" => e[2] \in Inner(call.d)
  BY InputDocument
<1> HIDE DEF e
<1>2. CASE e[1] # "follow"
  <2> DEFINE c == OfChild(call, e[2])
             x == Entry_(e[1], c)
  <2>1. made = <<x>>
    BY <1>2 DEF TextOfEntry
  <2>2. Input(D, c)
    BY <1>1, <1>2, InputChild
  <2> HIDE DEF c
  <2>3. x = Entry_(x.key, x.call) /\ x.call = c
    BY DEF Entry_
  <2>4. IsTextEntry(D, x)
    BY <2>2, <2>3 DEF IsTextEntry
  <2> HIDE DEF x
  <2> QED
    BY <2>1, <2>4, OneText DEF e
<1>3. CASE e[1] = "follow" /\ (to = NoFile \/ to \in Range(call.stack))
  <2>1. made = <<Thrown>>
    BY <1>3 DEF TextOfEntry
  <2> QED
    BY <2>1, OneText DEF IsTextEntry, e
<1>4. CASE e[1] = "follow" /\ ~(to = NoFile \/ to \in Range(call.stack))
  <2>1. made = text[[OfFile(D, call, to) EXCEPT !.folder = to[1]]]
    BY <1>4 DEF TextOfEntry
  <2>2. /\ Input(D, OfFile(D, call, to))
        /\ [OfFile(D, call, to) EXCEPT !.folder = to[1]] = OfFile(D, call, to)
    <3> DEFINE ref == e[2]
    <3>1. ref.folder \in Folder \cup {NoFolder} /\ to = Target(D, ref, call.file, call.folder)
      BY <1>1, <1>4
    <3>2. to # NoFile /\ to \notin Range(call.stack)
      BY <1>4
    <3> HIDE DEF ref, to
    <3> QED
      BY <3>1, <3>2, InputFile
  <2> HIDE DEF to
  <2> QED
    BY <2>1, <2>2 DEF AllTexts, e
<1> QED
  BY <1>2, <1>3, <1>4

\* So is what stands for the first entries.
LEMMA UptoIs ==
  ASSUME NEW D \in Disks, NEW call, Input(D, call), call.d.t = "doc", NEW text, AllTexts(D, text),
         NEW u, Upto(D, call, text, u)
  PROVE  \A i \in 0..Len(call.d.entries) : IsText(D, u[i])
<1> DEFINE n == Len(call.d.entries)
           T == {i \in 0..n : IsText(D, u[i])}
<1>1. n \in Nat /\ DOMAIN call.d.entries = 1..n
  BY InputDocument
<1>2. \A i \in 0..n : u[i] = IF i = 0 THEN <<>> ELSE u[i - 1] \o TextOfEntry(D, call, call.d.entries[i], text)
  BY DEF Upto
<1> HIDE DEF n
<1>3. 0 \in T
  BY <1>1, <1>2, NoText
<1>4. ASSUME NEW i \in 0..n, i < n, i \in T PROVE i + 1 \in T
  <2>1. i + 1 \in 0..n /\ i + 1 # 0 /\ (i + 1) - 1 = i /\ i + 1 \in 1..n
    BY <1>1, <1>4
  <2>2. u[i + 1] = u[i] \o TextOfEntry(D, call, call.d.entries[i + 1], text) /\ IsText(D, u[i])
    BY <1>2, <1>4, <2>1
  <2>3. IsText(D, TextOfEntry(D, call, call.d.entries[i + 1], text))
    BY <1>1, <2>1, TextOfEntryIs
  <2> QED
    BY <2>1, <2>2, <2>3, TwoTexts
<1>5. 0..n \subseteq T
  <2> HIDE DEF T
  <2> QED
    BY <1>1, <1>3, <1>4, Induction
<1> QED
  BY <1>5 DEF n

\* So are the texts of all calls.
LEMMA TextsAre ==
  ASSUME NEW D \in Disks
  PROVE  \A h \in 0..Depth : AllTexts(D, Texts(D)[h])
<1> DEFINE T == {h \in 0..Depth : AllTexts(D, Texts(D)[h])}
<1>0. /\ Depth \in Nat
      /\ \A call \in Calls(D) : /\ Texts(D)[0][call] = <<Thrown>>
                                /\ \A h \in 1..Depth : Texts(D)[h][call] = TextOf(D, call, Texts(D)[h - 1])
  BY DepthAssumption, TextsDefined
<1>1. IsText(D, <<Thrown>>)
  BY OneText DEF IsTextEntry
<1>2. 0 \in T
  <2>1. ASSUME NEW call, Input(D, call) PROVE IsText(D, Texts(D)[0][call])
    <3>1. call \in Calls(D)
      BY <2>1, InputDocument
    <3> QED
      BY <1>0, <1>1, <3>1
  <2> QED
    BY <1>0, <2>1 DEF AllTexts
<1>3. ASSUME NEW h \in 0..Depth, h < Depth, h \in T PROVE h + 1 \in T
  <2> DEFINE text == Texts(D)[h]
  <2>1. h + 1 \in 0..Depth /\ h + 1 \in 1..Depth /\ (h + 1) - 1 = h /\ AllTexts(D, text)
    BY <1>0, <1>3
  <2>2. ASSUME NEW call, Input(D, call) PROVE IsText(D, Texts(D)[h + 1][call])
    <3>1. call \in Calls(D)
      BY <2>2, InputDocument
    <3>2. Texts(D)[h + 1][call] = TextOf(D, call, text)
      BY <1>0, <2>1, <3>1
    <3> HIDE DEF text
    <3>3. CASE call.d.t = "seq" /\ call.d.s # <<>>
      BY <1>1, <3>2, <3>3 DEF TextOf
    <3>4. CASE call.d.t = "doc"
      <4>1. Len(call.d.entries) \in Nat /\ Len(call.d.entries) \in 0..Len(call.d.entries)
        BY <2>2, <3>4, InputDocument
      <4>2. PICK u : Upto(D, call, text, u) /\ TextOfMap(D, call, text) = u[Len(call.d.entries)]
        BY <4>1, UptoDefined
      <4>3. IsText(D, u[Len(call.d.entries)])
        BY <2>1, <2>2, <3>4, <4>1, <4>2, UptoIs
      <4>4. TextOf(D, call, text) = TextOfMap(D, call, text)
        BY <3>4 DEF TextOf
      <4> QED
        BY <3>2, <4>2, <4>3, <4>4
    <3>5. CASE ~(call.d.t = "seq" /\ call.d.s # <<>>) /\ call.d.t # "doc"
      BY <3>2, <3>5, NoText DEF TextOf
    <3> QED
      BY <3>3, <3>4, <3>5
  <2> HIDE DEF text
  <2> QED
    BY <2>1, <2>2 DEF AllTexts
<1>4. 0..Depth \subseteq T
  <2> HIDE DEF T
  <2> QED
    BY <1>0, <1>2, <1>3, Induction
<1> QED
  BY <1>4

\* A value, with its folder.
LEMMA InFolderLow ==
  ASSUME NEW v, NEW call, NEW h \in 1..(Height + 1)
  PROVE  InFolder(v, call).t = "scalar" /\ Low(InFolder(v, call), h)
<1> DEFINE n == InFolder(v, call)
<1>1. n.t = "scalar"
  BY DEF InFolder, Scalar
<1>2. IsNode(n) /\ DOMAIN Children(n) = {}
  BY <1>1 DEF IsNode, Children
<1> HIDE DEF n
<1>3. Low(n, h)
  BY <1>2, LeafIsTree DEF Low
<1> QED
  BY <1>1, <1>3 DEF n

\* That is so however many maps and sequences are within one another.
LEMMA MeansFit ==
  ASSUME AllIndexed, NEW D \in Disks
  PROVE  \A g \in 0..Depth : Fits(D, Means(D)[g], g)
<1> DEFINE T == {g \in 0..Depth : Fits(D, Means(D)[g], g)}
<1>0. Depth \in Nat /\ Depth <= Height /\ Height \in Nat
  BY DepthAssumption, HeightAssumption
<1>1. \A call \in Calls(D) : /\ Means(D)[0][call] = Thrown
                             /\ \A h \in 1..Depth : Means(D)[h][call] = MeansOf(D, call, Means(D)[h - 1])
  BY MeansDefined
<1>2. 0 \in T
  <2>1. ASSUME NEW call, Input(D, call) PROVE Means(D)[0][call] = Thrown
    <3>1. call \in Calls(D)
      BY <2>1, InputDocument
    <3> QED
      BY <1>1, <3>1
  <2> QED
    BY <1>0, <2>1 DEF Fits
<1>3. ASSUME NEW g \in 0..Depth, g < Depth, g \in T PROVE g + 1 \in T
  <2> DEFINE mean == Means(D)[g]
             texts == Texts(D)[Depth]
  <2>1. /\ g + 1 \in 0..Depth /\ g + 1 \in 1..Depth /\ (g + 1) - 1 = g /\ Fits(D, mean, g)
        /\ g \in 0..Height /\ g + 1 \in 1..(Height + 1) /\ g + 1 \in (g + 1)..(Height + 1)
    BY <1>0, <1>3
  <2>2. AllTexts(D, texts)
    BY <1>0, TextsAre
  <2>3. ASSUME NEW call, Input(D, call), NEW m, m = Means(D)[g + 1][call], m # Thrown PROVE Low(m, g + 1)
    <3>1. call \in Calls(D)
      BY <2>3, InputDocument
    <3>2. m = Meaning(D, call, texts, mean, FALSE, FALSE)
      BY <1>1, <2>1, <2>3, <3>1 DEF MeansOf
    <3> HIDE DEF mean, texts
    <3>3. CASE call.d.t = "doc"
      <4>1. m = AddAll(Null, texts[call], mean)
        BY <3>2, <3>3 DEF Meaning, AddAll
      <4>2. Low(Null, g + 1)
        BY <2>1, TameNull DEF Tame, Low
      <4>3. IsText(D, texts[call])
        BY <2>2, <2>3 DEF AllTexts
      <4> QED
        BY <2>1, <2>3, <4>1, <4>2, <4>3, AddAllLow
    <3>4. CASE call.d.t = "seq"
      <4> DEFINE s == call.d.s
                 elements == [i \in DOMAIN s |-> mean[OfChild(call, s[i])]]
      <4>1. m = FlattenSequence(call.d, elements)
        BY <3>2, <3>4 DEF Meaning
      <4>2. m = Seq_(elements) /\ \A i \in DOMAIN elements : elements[i] # Thrown
        BY <2>3, <4>1 DEF FlattenSequence, Range
      <4>3. s \in Seq(Range(s)) /\ \A i \in DOMAIN s : s[i] \in Inner(call.d)
        BY <2>3, <3>4, InputDocument
      <4>4. \A i \in DOMAIN s : Low(elements[i], g)
        <5>1. ASSUME NEW i \in DOMAIN s PROVE Low(elements[i], g)
          <6>1. Input(D, OfChild(call, s[i])) /\ elements[i] = mean[OfChild(call, s[i])]
            BY <2>3, <4>3, InputChild
          <6> QED
            BY <2>1, <4>2, <6>1 DEF Fits
        <5> QED
          BY <5>1
      <4>5. elements \in Seq(Range(elements))
        <5>1. DOMAIN elements = 1..Len(s) /\ Len(s) \in Nat
          BY <4>3
        <5>2. \A i \in DOMAIN elements : elements[i] \in Range(elements)
          BY DEF Range
        <5>3. elements = [i \in DOMAIN elements |-> elements[i]]
          OBVIOUS
        <5>4. elements \in [1..Len(s) -> Range(elements)]
          BY <5>1, <5>2, <5>3
        <5> DEFINE n == Len(s)
        <5>5. n \in Nat /\ elements \in [1..n -> Range(elements)]
          BY <5>1, <5>4
        <5> HIDE DEF n
        <5> QED
          BY <5>5
      <4>6. DOMAIN elements = DOMAIN s
        OBVIOUS
      <4> HIDE DEF elements, s
      <4>7. m.t = "seq" /\ m.s = elements /\ IsNode(m)
        BY <4>2, <4>5 DEF Seq_, IsNode
      <4>8. /\ DOMAIN Children(m) = {IndexKey[i] : i \in DOMAIN elements}
            /\ \A i \in DOMAIN elements : Children(m)[IndexKey[i]] = elements[i]
        BY <4>5, <4>7, ChildrenOfSequence
      <4>9. \A key \in DOMAIN Children(m) : Low(Children(m)[key], g)
        BY <4>4, <4>6, <4>8
      <4> QED
        BY <2>1, <4>7, <4>9, LowOfChildren
    <3>5. CASE call.d.t = "scalar"
      <4>1. m = InFolder(call.d.v, call)
        BY <3>2, <3>5 DEF Meaning
      <4> QED
        BY <2>1, <4>1, InFolderLow
    <3>6. CASE call.d.t \notin {"doc", "seq", "scalar"}
      <4>1. m = call.d
        BY <3>2, <3>6 DEF Meaning
      <4>2. call.d = Null
        BY <2>3, <3>6, InputDocument
      <4> QED
        BY <2>1, <4>1, <4>2, TameNull DEF Tame, Low
    <3> QED
      BY <3>3, <3>4, <3>5, <3>6
  <2>4. Fits(D, Means(D)[g + 1], g + 1)
    BY <2>3 DEF Fits
  <2> QED
    BY <2>1, <2>4
<1>4. 0..Depth \subseteq T
  <2> HIDE DEF T
  <2> QED
    BY <1>0, <1>2, <1>3, Induction
<1> QED
  BY <1>4

-----------------------------------------------------------------------------
(* What flattenMap has made so far, in a file that is followed, and in the *)
(* node of the pasted text.                                                *)

Solid(a) ==
  /\ IsTree(a) /\ Filled(a)
  /\ a = Null \/ (a.t = "map" /\ a = Map([key \in DOMAIN a.m |-> a.m[key]]))

\* The node that flattenMap begins with.
LEMMA SolidNull == Solid(Null)
<1>1. Null.t # "map" /\ DOMAIN Children(Null) = {}
  BY DEF Null, Children
<1>2. Filled(Null)
  BY <1>1, NullIsTree, FilledParts
<1> QED
  BY <1>2, NullIsTree DEF Solid

\* Adding such a node to a tree is what happens to two nodes that meet.
LEMMA WithSolid ==
  ASSUME NEW n, IsTree(n), NEW a, Solid(a)
  PROVE  With(n, a) = IF a = Null THEN n ELSE Meet(n, a)
<1>1. n # Thrown /\ Null # Thrown /\ Null.t # "map" /\ Null.t # "seq"
  BY NoneThrown DEF Null, Thrown
<1>2. CASE a = Null
  BY <1>1, <1>2 DEF With, AddFile
<1>3. CASE a # Null
  <2>1. a.t = "map" /\ a.t # "seq" /\ a # Thrown
    BY <1>3 DEF Solid, Thrown
  <2>2. With(n, a) = AddMap(n, a.m, FALSE, FALSE)
    <3>1. ASSUME NEW flag, NEW sort PROVE AddFile(n, a, flag, sort) = AddMap(n, a.m, flag, sort)
      BY <2>1 DEF AddFile
    <3> QED
      BY <3>1, Zenon DEF With
  <2>3. Meet(n, a) = AddMap(n, a.m, FALSE, FALSE)
    BY <2>1 DEF Meet
  <2> QED
    BY <1>3, <2>2, <2>3
<1> QED
  BY <1>2, <1>3

\* What was such a node still is when a map is added.
LEMMA AddedSolid ==
  ASSUME AllIndexed, NEW a, Solid(a), NEW y, IsTree(y), Filled(y), y.t = "map", NEW m, m = Meet(a, y), m # Thrown
  PROVE  Solid(m) /\ m # Null
<1>1. Low(a, Height + 1) /\ Low(y, Height + 1) /\ Height + 1 \in 0..(Height + 1)
  BY TreeIsLow DEF Solid
<1>2. Low(m, Height + 1) /\ Filled(m)
  BY <1>1, MeetLow, MeetFilled DEF Solid
<1>3. DOMAIN y.m # {}
  BY FilledParts
<1>4. Joins(a, y, m)
  <2>1. Stays(a, y, m) \/ Appends(a, y, m) \/ Joins(a, y, m)
    BY MeetCases DEF Solid
  <2> QED
    BY <1>3, <2>1 DEF Stays, Appends
<1>5. m = Map([key \in DOMAIN m.m |-> m.m[key]])
  <2> DEFINE f == [key \in DOMAIN Children(a) \cup DOMAIN y.m |-> MeetAt(a, y.m, key)]
  <2>1. m = Map(f)
    BY <1>4 DEF Joins, Met
  <2>2. f = [key \in DOMAIN f |-> f[key]]
    OBVIOUS
  <2> HIDE DEF f
  <2>3. m.m = f
    BY <2>1 DEF Map
  <2> QED
    BY <2>1, <2>2, <2>3
<1>6. m.t = "map" /\ m # Null
  BY <1>4 DEF Joins, Null
<1> QED
  BY <1>2, <1>5, <1>6, TreeIsLow DEF Solid

\* What a file adds to a null node is all that it adds to any other one.
LEMMA WithFirst ==
  ASSUME AllIndexed, NEW n, IsTree(n), NEW y, IsTree(y), y.t = "map", DOMAIN y.m # {}
  PROVE  Meet(Null, y) # Thrown /\ Meet(Null, y).t = "map" /\ Meet(n, Meet(Null, y)) = Meet(n, y)
<1> DEFINE q == Meet(Null, y)
<1>1. IsTree(Null) /\ IsTree(Map(y.m)) /\ DOMAIN Children(Null) = {} /\ Null.t # "scalar"
  <2>1. Null.t # "scalar" /\ DOMAIN Children(Null) = {}
    BY DEF Null, Children
  <2> QED
    BY <2>1, NullIsTree, NoneThrown
<1>2. q = Met(Null, y.m)
  <2>1. AddMap(Null, y.m, FALSE, FALSE) = Met(Null, y.m)
    BY <1>1, AddMapMet
  <2> QED
    BY <2>1 DEF Meet
<1>3. q.t = "map" /\ q # Thrown
  BY <1>2 DEF Met, Map, Thrown
<1>4. DOMAIN q.m = DOMAIN y.m /\ \A key \in DOMAIN y.m : q.m[key] = y.m[key]
  BY <1>1, <1>2 DEF Met, Map, MeetAt
<1>5. IsTree(q)
  <2>1. Low(Null, Height + 1) /\ Low(y, Height + 1) /\ Height + 1 \in 0..(Height + 1)
    BY <1>1, TreeIsLow
  <2>2. Low(q, Height + 1)
    BY <1>3, <2>1, MeetLow
  <2> QED
    BY <2>2, TreeIsLow
<1> HIDE DEF q
<1>6. IsTree(Map(q.m))
  BY <1>3, <1>5, NoneThrown
<1>9. AddMap(n, q.m, FALSE, FALSE) = AddMap(n, y.m, FALSE, FALSE)
  BY <1>1, <1>4, <1>6, SameChildren
<1>10. Meet(n, q) = Meet(n, y)
  BY <1>3, <1>9 DEF Meet
<1> QED
  BY <1>3, <1>10 DEF q

\* It does not matter whether something is added to what the file has made so far, or to the
\* node to which that was added.
LEMMA WithAssociates ==
  ASSUME AllIndexed, NEW n, IsTree(n), NEW a, Solid(a), NEW y, IsTree(y), y.t = "map", DOMAIN y.m # {},
         NEW p, p = With(n, a), p # Thrown, NEW m, m = Meet(p, y), m # Thrown, NoneIndexed(m)
  PROVE  /\ Meet(a, y) # Thrown
         /\ Filled(y) => Solid(Meet(a, y)) /\ With(n, Meet(a, y)) = m
<1>1. CASE a = Null
  <2>1. p = n
    BY <1>1, WithSolid
  <2>2. Meet(Null, y) # Thrown /\ Meet(n, Meet(Null, y)) = Meet(n, y)
    BY WithFirst
  <2>3. ASSUME Filled(y) PROVE Solid(Meet(Null, y)) /\ With(n, Meet(Null, y)) = m
    <3>1. Solid(Meet(Null, y)) /\ Meet(Null, y) # Null
      BY <2>2, <2>3, SolidNull, AddedSolid
    <3> QED
      BY <2>1, <2>2, <3>1, WithSolid
  <2> QED
    BY <1>1, <2>2, <2>3
<1>2. CASE a # Null
  <2>1. p = Meet(n, a)
    BY <1>2, WithSolid
  <2>2. /\ Low(n, Height + 1) /\ Low(a, Height + 1) /\ Low(y, Height + 1) /\ Filled(a)
        /\ Height + 1 \in 0..(Height + 1)
    BY TreeIsLow DEF Solid
  <2>3. Meet(a, y) # Thrown /\ Meet(n, Meet(a, y)) = Meet(Meet(n, a), y)
    <3>1. Meet(n, a) # Thrown /\ Meet(Meet(n, a), y) # Thrown /\ NoneIndexed(Meet(Meet(n, a), y))
      BY <2>1
    <3> QED
      BY <2>2, <3>1, MeetAssociates
  <2>4. ASSUME Filled(y) PROVE Solid(Meet(a, y)) /\ With(n, Meet(a, y)) = m
    <3>1. Solid(Meet(a, y)) /\ Meet(a, y) # Null
      BY <2>3, <2>4, AddedSolid
    <3> QED
      BY <2>1, <2>3, <3>1, WithSolid
  <2> QED
    BY <2>3, <2>4
<1> QED
  BY <1>1, <1>2

-----------------------------------------------------------------------------
(* Values and the folders that belong to them.                             *)

\* The element of a sequence belongs to no folder.
LEMMA ElementStays ==
  ASSUME NEW file_, NEW rel, NEW call
  PROVE  InFolder(Element(file_, rel).v, call) = Element(file_, rel)
<1> DEFINE v == [by |-> file_, rel |-> rel, keyed |-> FALSE, prefix |-> <<>>]
<1>1. Element(file_, rel) = Scalar(v) /\ ~v.keyed
  BY DEF Element
<1> HIDE DEF v
<1>2. Element(file_, rel).v = v
  BY <1>1 DEF Scalar
<1> QED
  BY <1>1, <1>2 DEF InFolder

\* The value of a key gets the folder of its file, as in flattenMap.
LEMMA ValueInFolder ==
  ASSUME NEW call, ~IsSchema(call.file), call.folder = call.file[1], NEW rel \in BOOLEAN
  PROVE  InFolder(Value(call.file, rel).v, call) = Prepend(Value(call.file, rel), call.folder)
<1> DEFINE n == Value(call.file, rel)
           v == [by |-> call.file, rel |-> rel, keyed |-> TRUE, prefix |-> <<>>]
           w == [v EXCEPT !.prefix = <<call.file[1]>>]
<1>1. n = Scalar(v) /\ v.keyed /\ v.rel = rel /\ v.prefix = <<>>
  BY DEF Value
<1>2. n.t = "scalar" /\ n.v = v
  BY <1>1 DEF Scalar
<1>3. [v EXCEPT !.prefix = <<call.folder>> \o @] = w
  <2>1. <<call.folder>> \o <<>> = <<call.file[1]>>
    OBVIOUS
  <2> QED
    BY <2>1
<1> HIDE DEF v, n, w
<1>4. IsRelativePath(v) <=> rel
  BY <1>1 DEF IsRelativePath
<1>5. CASE rel
  <2>1. Prepend(n, call.folder) = Scalar(w)
    BY <1>2, <1>3, <1>4, <1>5 DEF Prepend
  <2>2. InFolder(v, call) = Scalar(w)
    BY <1>1, <1>5 DEF InFolder, w
  <2> QED
    BY <1>2, <2>1, <2>2 DEF n
<1>6. CASE ~rel
  <2>1. Prepend(n, call.folder) = n
    BY <1>2, <1>4, <1>6 DEF Prepend
  <2>2. InFolder(v, call) = Scalar(v)
    BY <1>1, <1>6 DEF InFolder
  <2> QED
    BY <1>1, <1>2, <2>1, <2>2 DEF n
<1> QED
  BY <1>5, <1>6

\* Adding a value and resolving it then is adding the resolved one.
LEMMA ResolvedFirst ==
  ASSUME NEW node, IsTree(node), NEW key, NEW value, value.t = "scalar", NEW folder, Height # 0
  PROVE  AddInFolder(node, key, value, folder, FALSE) = AddMap(node, Entry(key, Prepend(value, folder)), FALSE, FALSE)
<1> DEFINE r == Prepend(value, folder)
           c == Entry(key, value)
           d == Entry(key, r)
<1>1. r.t = "scalar"
  BY DEF Prepend, Scalar
<1>2. ASSUME NEW s, s.t = "scalar"
      PROVE  IsTree(Map(Entry(key, s))) /\ Meet(Children(node)[key], s) = Thrown
  <2>1. IsNode(s) /\ DOMAIN Children(s) = {} /\ 1 \in 1..(Height + 1) /\ 1 \in 0..Height
    BY <1>2, HeightAssumption DEF IsNode, Children
  <2>2. Low(s, 1)
    BY <2>1, LeafIsTree DEF Low
  <2>3. IsTree(Map(Entry(key, s)))
    BY <2>1, <2>2, EntryLow DEF Low
  <2> QED
    BY <1>2, <2>3 DEF Meet
<1>3. /\ DOMAIN c = {key} /\ c[key] = value /\ DOMAIN d = {key} /\ d[key] = r
  BY DEF Entry
<1>4. IsTree(Map(c)) /\ IsTree(Map(d)) /\ value # Thrown /\ r # Thrown
  BY <1>1, <1>2 DEF Thrown
<1>5. AddNodeYaml(node, key, value, FALSE) = AddMap(node, c, FALSE, FALSE)
  BY DEF AddNodeYaml
<1>6. MeetAt(node, c, key) = IF key \in DOMAIN Children(node) THEN Thrown ELSE value
  BY <1>2, <1>3 DEF MeetAt
<1>7. MeetAt(node, d, key) = IF key \in DOMAIN Children(node) THEN Thrown ELSE r
  BY <1>1, <1>2, <1>3 DEF MeetAt
<1> HIDE DEF c, d, r
<1>8. IF node.t = "scalar" \/ key \in DOMAIN Children(node)
        THEN AddMap(node, c, FALSE, FALSE) = Thrown /\ AddMap(node, d, FALSE, FALSE) = Thrown
        ELSE AddMap(node, c, FALSE, FALSE) = Met(node, c) /\ AddMap(node, d, FALSE, FALSE) = Met(node, d)
  <2>1. IF node.t = "scalar" \/ \E k \in DOMAIN c \cap DOMAIN Children(node) : MeetAt(node, c, k) = Thrown
          THEN AddMap(node, c, FALSE, FALSE) = Thrown
          ELSE AddMap(node, c, FALSE, FALSE) = Met(node, c)
    BY <1>3, <1>4, AddMapMet
  <2>2. IF node.t = "scalar" \/ \E k \in DOMAIN d \cap DOMAIN Children(node) : MeetAt(node, d, k) = Thrown
          THEN AddMap(node, d, FALSE, FALSE) = Thrown
          ELSE AddMap(node, d, FALSE, FALSE) = Met(node, d)
    BY <1>3, <1>4, AddMapMet
  <2> QED
    BY <1>3, <1>6, <1>7, <2>1, <2>2
<1>9. CASE node.t = "scalar" \/ key \in DOMAIN Children(node)
  BY <1>5, <1>8, <1>9 DEF AddInFolder, d, r
<1>10. CASE ~(node.t = "scalar" \/ key \in DOMAIN Children(node))
  <2> DEFINE S == DOMAIN Children(node) \cup {key}
             f == [k \in S |-> MeetAt(node, c, k)]
             g == [k \in S |-> MeetAt(node, d, k)]
  <2>1. Met(node, c) = Map(f) /\ Met(node, d) = Map(g)
    BY <1>3 DEF Met
  <2>2. \A k \in S : k # key => f[k] = g[k]
    BY <1>3 DEF MeetAt
  <2>3. f[key] = value /\ g[key] = r
    BY <1>6, <1>7, <1>10
  <2>4. [f EXCEPT ![key] = r] = g
    BY <2>2, <2>3
  <2> HIDE DEF f, g
  <2>5. Map(f) # Thrown /\ Map(f).m = f
    BY DEF Map, Thrown
  <2>6. AddInFolder(node, key, value, folder, FALSE) = Map([f EXCEPT ![key] = Prepend(@, folder)])
    BY <1>5, <1>8, <1>10, <2>1, <2>5 DEF AddInFolder
  <2>7. [f EXCEPT ![key] = Prepend(@, folder)] = g
    BY <2>3, <2>4 DEF r
  <2> QED
    BY <1>8, <1>10, <2>1, <2>6, <2>7 DEF d, r
<1> QED
  BY <1>9, <1>10

-----------------------------------------------------------------------------
(* One entry of a file, and its text.                                      *)

\* What a call returns is what it means, up to the folder of a value.
Same(call, m, r) ==
  m # Thrown /\ NoneIndexed(m)
  => r # Thrown /\ Filled(r) /\ m = IF call.d.t = "scalar" THEN InFolder(call.d.v, call) ELSE r

\* Adding the text of a call to a node is adding what the call returns.
Pastes(D, call, r) ==
  \A t, g \in 0..Depth : \A n :
    /\ IsTree(n) /\ AddAll(n, Texts(D)[t][call], Means(D)[g]) # Thrown
    /\ NoneIndexed(AddAll(n, Texts(D)[t][call], Means(D)[g]))
    => /\ r # Thrown /\ Filled(r) /\ (call.d.t = "doc" => Solid(r))
       /\ AddAll(n, Texts(D)[t][call], Means(D)[g]) = With(n, r)

\* What the calls return that this one makes.
Prepared(D, call, flat) ==
  /\ \A d \in Inner(call.d) : \A g \in 0..Depth :
       Same(OfChild(call, d), Means(D)[g][OfChild(call, d)], flat[OfChild(call, d)])
  /\ \A to \in DOMAIN D \ Range(call.stack) : ~IsSchema(to) => Pastes(D, OfFile(D, call, to), flat[OfFile(D, call, to)])

\* An entry more, in the file.
Entered(D, call, a, e, flat) == AddEntry(D, FALSE, call, a, e, flat)

\* A tree to which such a node is added is a tree.
LEMMA WithTree ==
  ASSUME AllIndexed, NEW n, IsTree(n), NEW a, Solid(a), With(n, a) # Thrown
  PROVE  IsTree(With(n, a))
<1>1. CASE a = Null
  BY <1>1, WithSolid
<1>2. CASE a # Null
  <2>1. With(n, a) = Meet(n, a)
    BY <1>2, WithSolid
  <2>2. Low(n, Height + 1) /\ Low(a, Height + 1) /\ Height + 1 \in 0..(Height + 1)
    BY TreeIsLow DEF Solid
  <2>3. Low(Meet(n, a), Height + 1)
    BY <2>1, <2>2, MeetLow
  <2> QED
    BY <2>1, <2>3, TreeIsLow
<1> QED
  BY <1>1, <1>2

\* A key with its value.
LEMMA KeyStep ==
  ASSUME AllIndexed, NEW D \in Disks, NEW call, Input(D, call), call.d.t = "doc", NEW i \in DOMAIN call.d.entries,
         NEW e, e = call.d.entries[i], e[1] # "follow", NEW t \in 0..Depth, NEW g \in 0..Depth,
         NEW flat, Prepared(D, call, flat), NEW h \in 0..Height, Fit(D, flat, h),
         NEW n, IsTree(n), NEW a, Solid(a), NEW p, p = With(n, a), p # Thrown,
         NEW m, m = AddAll(p, TextOfEntry(D, call, e, Texts(D)[t]), Means(D)[g]), m # Thrown, NoneIndexed(m)
  PROVE  Solid(Entered(D, call, a, e, flat)) /\ m = With(n, Entered(D, call, a, e, flat))
<1> DEFINE c == OfChild(call, e[2])
           v == Means(D)[g][c]
           r == flat[c]
           y == Map(Entry(e[1], v))
<1>0. Height \in Nat /\ Depth \in Nat /\ Depth <= Height
  BY HeightAssumption, DepthAssumption
<1>1. /\ e[2] \in Inner(call.d)
      /\ e[2].t = "scalar" => \E rel \in BOOLEAN : e[2] = Value(call.file, rel)
      /\ call.folder = call.file[1] /\ ~IsSchema(call.file)
  BY InputDocument DEF Input, Sound
<1>2. Input(D, c) /\ c.d = e[2] /\ c.file = call.file /\ c.folder = call.folder
  BY <1>1, InputChild
<1>3. v # Thrown /\ m = AddMap(p, Entry(e[1], v), FALSE, FALSE)
  <2>1. TextOfEntry(D, call, e, Texts(D)[t]) = <<Entry_(e[1], c)>>
    BY DEF TextOfEntry
  <2>2. m = OneMore(p, Entry_(e[1], c), Means(D)[g])
    BY <2>1, AddOne
  <2>3. Entry_(e[1], c) # Thrown /\ Entry_(e[1], c).key = e[1] /\ Entry_(e[1], c).call = c
    BY DEF Entry_, Thrown
  <2> QED
    BY <2>2, <2>3 DEF OneMore, AddText
<1>4. Low(v, g) /\ IsTree(p) /\ a # Thrown /\ IsTree(a)
  BY <1>2, <1>3, MeansFit, WithTree, NoneThrown DEF Fits, Solid
<1>5. Same(c, v, r)
  BY <1>1 DEF Prepared
<1> HIDE DEF c, v, r
<1>6. /\ m = Meet(p, y) /\ NoneIndexed(v) /\ Low(v, Height)
      /\ Low(y, Height + 1) /\ y.t = "map" /\ y.m = Entry(e[1], v) /\ DOMAIN y.m = {e[1]}
  <2>1. g \in 0..Height /\ g \in 0..(Height + 1) /\ Height + 1 \in (g + 1)..(Height + 1) /\ Height \in g..(Height + 1)
        /\ Height \in 0..Height
    BY <1>0
  <2>2. Low(p, Height + 1)
    BY <1>4, TreeIsLow
  <2> DEFINE key == e[1]
  <2>3. m = AddMap(p, Entry(key, v), FALSE, FALSE)
    BY <1>3
  <2> HIDE DEF key
  <2>4. m = Meet(p, Map(Entry(key, v))) /\ NoneIndexed(v)
    BY <1>4, <2>1, <2>2, <2>3, EntryAdded
  <2>5. Low(v, Height)
    BY <1>4, <2>1, LowHigher
  <2>6. /\ Low(Map(Entry(key, v)), Height + 1) /\ Map(Entry(key, v)).t = "map"
        /\ DOMAIN Map(Entry(key, v)).m = {key} /\ Map(Entry(key, v)).m = Entry(key, v)
    BY <2>5, EntryFilled
  <2> QED
    BY <2>4, <2>5, <2>6 DEF key
<1>7. r # Thrown /\ Filled(r) /\ v = IF e[2].t = "scalar" THEN InFolder(e[2].v, c) ELSE r
  BY <1>2, <1>3, <1>5, <1>6 DEF Same
<1>8. Returns(c, r, h)
  BY <1>2 DEF Fit, Input, r
<1>9. Filled(v)
  <2>1. CASE e[2].t = "scalar"
    <3>1. v.t = "scalar"
      BY <1>7, <2>1 DEF InFolder, Scalar
    <3> QED
      BY <3>1, ScalarFilled
  <2>2. CASE e[2].t # "scalar"
    BY <1>7, <2>2
  <2> QED
    BY <2>1, <2>2
<1>10. AddEntry(D, FALSE, call, a, e, flat) = Meet(a, y)
  <2>1. AddEntry(D, FALSE, call, a, e, flat) = AddInFolder(a, e[1], r, call.folder, FALSE)
    BY <1>1, <1>4, <1>7 DEF AddEntry, r, c
  <2>2. Meet(a, y) = AddMap(a, Entry(e[1], v), FALSE, FALSE)
    BY <1>6 DEF Meet
  <2>3. CASE e[2].t = "scalar"
    <3>1. r = e[2] /\ r.t = "scalar"
      BY <1>2, <1>7, <1>8, <2>3 DEF Returns
    <3>2. PICK rel \in BOOLEAN : r = Value(c.file, rel)
      BY <1>1, <1>2, <2>3, <3>1
    <3>3. v = Prepend(r, call.folder)
      <4>1. InFolder(Value(c.file, rel).v, c) = Prepend(Value(c.file, rel), c.folder)
        BY <1>1, <1>2, ValueInFolder
      <4> QED
        BY <1>2, <1>7, <2>3, <3>1, <3>2, <4>1
    <3>4. Height # 0
      BY <1>0, <1>7, <1>8 DEF Returns
    <3>5. AddInFolder(a, e[1], r, call.folder, FALSE) = AddMap(a, Entry(e[1], Prepend(r, call.folder)), FALSE, FALSE)
      <4> DEFINE key == e[1]
                 folder == call.folder
      <4> HIDE DEF key, folder
      <4>1. AddInFolder(a, key, r, folder, FALSE) = AddMap(a, Entry(key, Prepend(r, folder)), FALSE, FALSE)
        BY <1>4, <3>1, <3>4, ResolvedFirst
      <4> QED
        BY <4>1 DEF key, folder
    <3> QED
      BY <2>1, <2>2, <3>3, <3>5
  <2>4. CASE e[2].t # "scalar"
    <3>1. r.t # "scalar" /\ v = r
      BY <1>2, <1>7, <1>8, <2>4 DEF Returns
    <3>2. AddInFolder(a, e[1], r, call.folder, FALSE) = AddMap(a, Entry(e[1], r), FALSE, FALSE)
      BY <3>1 DEF AddInFolder, AddNodeYaml
    <3> QED
      BY <2>1, <2>2, <3>1, <3>2
  <2> QED
    BY <2>3, <2>4
<1>11. IsTree(y) /\ Filled(y) /\ DOMAIN y.m # {}
  BY <1>6, <1>9, TreeIsLow, EntryFilled
<1> HIDE DEF y
<1>12. Solid(Meet(a, y)) /\ With(n, Meet(a, y)) = m
  BY <1>6, <1>11, WithAssociates
<1> QED
  BY <1>10, <1>12 DEF Entered

\* A file that is followed.
LEMMA FollowStep ==
  ASSUME AllIndexed, NEW D \in Disks, NEW call, Input(D, call), call.d.t = "doc", NEW i \in DOMAIN call.d.entries,
         NEW e, e = call.d.entries[i], e[1] = "follow", NEW t \in 0..Depth, NEW g \in 0..Depth,
         NEW flat, Prepared(D, call, flat), NEW h \in 0..Height, Fit(D, flat, h),
         NEW n, IsTree(n), NEW a, Solid(a), NEW p, p = With(n, a), p # Thrown,
         NEW m, m = AddAll(p, TextOfEntry(D, call, e, Texts(D)[t]), Means(D)[g]), m # Thrown, NoneIndexed(m)
  PROVE  Solid(Entered(D, call, a, e, flat)) /\ m = With(n, Entered(D, call, a, e, flat))
<1> DEFINE ref == e[2]
           to == Target(D, ref, call.file, call.folder)
           c == OfFile(D, call, to)
           y == flat[c]
<1>1. ref.folder \in Folder \cup {NoFolder}
  BY InputDocument
<1>2. to # NoFile /\ to \notin Range(call.stack)
  <2>1. SUFFICES ASSUME to = NoFile \/ to \in Range(call.stack) PROVE m = Thrown
    OBVIOUS
  <2>2. TextOfEntry(D, call, e, Texts(D)[t]) = <<Thrown>>
    BY <2>1 DEF TextOfEntry
  <2>3. m = OneMore(p, Thrown, Means(D)[g])
    BY <2>2, AddOne
  <2> QED
    BY <2>3 DEF OneMore, AddText
<1>3. /\ to \in DOMAIN D /\ ~IsSchema(to) /\ Input(D, c) /\ c.d = D[to]
      /\ [c EXCEPT !.folder = to[1]] = c
  <2> HIDE DEF ref
  <2>1. to = Target(D, ref, call.file, call.folder)
    OBVIOUS
  <2> HIDE DEF to
  <2> QED
    BY <1>1, <1>2, <2>1, InputFile
<1>4. m = AddAll(p, Texts(D)[t][c], Means(D)[g])
  <2>1. TextOfEntry(D, call, e, Texts(D)[t]) = Texts(D)[t][[c EXCEPT !.folder = to[1]]]
    BY <1>2 DEF TextOfEntry
  <2> HIDE DEF c
  <2> QED
    BY <1>3, <2>1
<1>5. IsTree(p) /\ IsTree(a) /\ a # Thrown
  BY WithTree, NoneThrown DEF Solid
<1>6. Pastes(D, c, y)
  BY <1>2, <1>3 DEF Prepared
<1>7. AddEntry(D, FALSE, call, a, e, flat) = With(a, y)
  <2>1. AddEntry(D, FALSE, call, a, e, flat) = InsertNodes(D, FALSE, call, a, ref, flat)
    BY <1>5 DEF AddEntry
  <2>2. IsSchema(to) = FALSE
    BY <1>3 DEF IsSchema
  <2>3. InsertNodes(D, FALSE, call, a, ref, flat) = AddFile(a, y, FALSE, IsSchema(to))
    BY <1>2 DEF InsertNodes
  <2> QED
    BY <2>1, <2>2, <2>3 DEF With
<1>8. Returns(c, y, h) /\ c.d.t # "scalar"
  BY <1>3, FilesOfDisk DEF Fit, Input
<1> HIDE DEF c, y, to, ref
<1>9. y # Thrown /\ Filled(y) /\ m = With(p, y)
  BY <1>4, <1>5, <1>6 DEF Pastes
<1>10. IsTree(y)
  BY <1>8, <1>9 DEF Returns, Tame
<1>11. CASE y.t = "map"
  <2>1. DOMAIN y.m # {}
    BY <1>9, <1>10, <1>11, FilledParts
  <2>2. ASSUME NEW q PROVE With(q, y) = Meet(q, y)
    <3>1. ASSUME NEW flag, NEW sort PROVE AddFile(q, y, flag, sort) = AddMap(q, y.m, flag, sort)
      BY <1>9, <1>11 DEF AddFile
    <3>2. With(q, y) = AddMap(q, y.m, FALSE, FALSE)
      BY <3>1, Zenon DEF With
    <3>3. Meet(q, y) = AddMap(q, y.m, FALSE, FALSE)
      BY <1>11 DEF Meet
    <3> QED
      BY <3>2, <3>3
  <2>3. m = Meet(p, y)
    BY <1>9, <2>2
  <2>4. Solid(Meet(a, y)) /\ With(n, Meet(a, y)) = m
    BY <1>9, <1>10, <1>11, <2>1, <2>3, WithAssociates
  <2> QED
    BY <1>7, <2>2, <2>4 DEF Entered
<1>12. CASE y.t # "map"
  <2>1. ~(y.t = "seq" /\ y.s # <<>>)
    BY <1>9, <1>12 DEF With, AddFile
  <2>2. With(p, y) = p /\ With(a, y) = a
    BY <1>9, <1>12, <2>1 DEF With, AddFile
  <2> QED
    BY <1>7, <1>9, <2>2 DEF Entered
<1> QED
  BY <1>11, <1>12

\* Any entry.
LEMMA EntryStep ==
  ASSUME AllIndexed, NEW D \in Disks, NEW call, Input(D, call), call.d.t = "doc", NEW i \in DOMAIN call.d.entries,
         NEW e, e = call.d.entries[i], NEW t \in 0..Depth, NEW g \in 0..Depth,
         NEW flat, Prepared(D, call, flat), NEW h \in 0..Height, Fit(D, flat, h),
         NEW n, IsTree(n), NEW a, Solid(a), NEW p, p = With(n, a), p # Thrown,
         NEW m, m = AddAll(p, TextOfEntry(D, call, e, Texts(D)[t]), Means(D)[g]), m # Thrown, NoneIndexed(m)
  PROVE  Solid(Entered(D, call, a, e, flat)) /\ m = With(n, Entered(D, call, a, e, flat))
<1>1. CASE e[1] = "follow"
  BY <1>1, FollowStep
<1>2. CASE e[1] # "follow"
  BY <1>2, KeyStep
<1> QED
  BY <1>1, <1>2

-----------------------------------------------------------------------------
(* All entries of a file, and all calls.                                   *)

\* What flattenMap returns is what its text adds to any node, when that is so for its calls.
LEMMA MapPastes ==
  ASSUME AllIndexed, NEW D \in Disks, NEW call, Input(D, call), call.d.t = "doc",
         NEW flat, Prepared(D, call, flat), NEW h \in 0..Height, Fit(D, flat, h)
  PROVE  Pastes(D, call, FlattenMap(D, FALSE, call, flat))
<1> DEFINE N == Len(call.d.entries)
<1>0. /\ Height \in Nat /\ Depth \in Nat /\ Depth <= Height
      /\ N \in Nat /\ DOMAIN call.d.entries = 1..N /\ call \in Calls(D)
  BY HeightAssumption, DepthAssumption, InputDocument
<1>1. PICK aux : Aux(D, FALSE, call, flat, aux, N) /\ FlattenMap(D, FALSE, call, flat) = aux[N]
  <2>1. ASSUME NEW flag
        PROVE  \E aux : Aux(D, flag, call, flat, aux, N) /\ FlattenMap(D, flag, call, flat) = aux[N]
    BY <1>0, NodeAux
  <2> QED
    BY <2>1, Zenon
<1> DEFINE Then(a, i) == Entered(D, call, a, call.d.entries[i], flat)
           r == FlattenMap(D, FALSE, call, flat)
<1>2. (\A i \in 0..N : aux[i] = IF i = 0 THEN Null ELSE Then(aux[i - 1], i)) /\ r = aux[N]
  BY <1>1, Zenon DEF Aux, Entered
<1> HIDE DEF Then, r
<1> SUFFICES ASSUME NEW t \in 0..Depth, NEW g \in 0..Depth, NEW n, IsTree(n),
                    AddAll(n, Texts(D)[t][call], Means(D)[g]) # Thrown,
                    NoneIndexed(AddAll(n, Texts(D)[t][call], Means(D)[g]))
             PROVE  /\ Solid(aux[N]) /\ aux[N] # Thrown /\ Filled(aux[N])
                    /\ AddAll(n, Texts(D)[t][call], Means(D)[g]) = With(n, aux[N])
  <2>1. Pastes(D, call, r)
    BY <1>2 DEF Pastes
  <2> QED
    BY <2>1 DEF r
<1> DEFINE mean == Means(D)[g]
<1>3. t # 0
  <2>1. SUFFICES ASSUME t = 0 PROVE AddAll(n, Texts(D)[t][call], mean) = Thrown
    OBVIOUS
  <2>2. Texts(D)[t][call] = <<Thrown>>
    BY <1>0, <2>1, TextsDefined
  <2>3. AddAll(n, <<Thrown>>, mean) = OneMore(n, Thrown, mean)
    BY AddOne
  <2> QED
    BY <2>2, <2>3 DEF OneMore, AddText
<1>4. t - 1 \in 0..Depth /\ t \in 1..Depth
  BY <1>0, <1>3
<1> DEFINE text == Texts(D)[t - 1]
<1>5. Texts(D)[t][call] = TextOfMap(D, call, text) /\ AllTexts(D, text)
  <2>1. Texts(D)[t][call] = TextOf(D, call, text)
    BY <1>0, <1>4, TextsDefined
  <2> QED
    BY <1>4, <2>1, TextsAre DEF TextOf
<1>6. PICK u : Upto(D, call, text, u) /\ TextOfMap(D, call, text) = u[N]
  BY <1>0, UptoDefined
<1>7. /\ \A i \in 0..N : u[i] = IF i = 0 THEN <<>> ELSE u[i - 1] \o TextOfEntry(D, call, call.d.entries[i], text)
      /\ \A i \in 0..N : IsText(D, u[i])
  BY <1>5, <1>6, UptoIs DEF Upto
<1>8. Fits(D, mean, g) /\ g \in 0..Height /\ Height + 1 \in (g + 1)..(Height + 1)
  BY <1>0, MeansFit
<1> DEFINE P(i) == AddAll(n, u[i], mean) # Thrown /\ NoneIndexed(AddAll(n, u[i], mean))
                   => Solid(aux[i]) /\ AddAll(n, u[i], mean) = With(n, aux[i])
           T == {i \in 0..N : P(i)}
<1> HIDE DEF N
<1>9. 0 \in T
  <2>1. u[0] = <<>> /\ aux[0] = Null
    BY <1>0, <1>2, <1>7
  <2>2. AddAll(n, <<>>, mean) = n
    BY AddNone
  <2>3. Solid(Null) /\ With(n, Null) = n
    BY SolidNull, WithSolid
  <2> QED
    BY <1>0, <2>1, <2>2, <2>3
<1>10. ASSUME NEW i \in 0..N, i < N, i \in T PROVE i + 1 \in T
  <2> DEFINE e == call.d.entries[i + 1]
             te == TextOfEntry(D, call, e, text)
             p == AddAll(n, u[i], mean)
             m == AddAll(n, u[i + 1], mean)
  <2>1. i + 1 \in 0..N /\ i + 1 # 0 /\ (i + 1) - 1 = i /\ i + 1 \in 1..N
    BY <1>0, <1>10
  <2>2. u[i + 1] = u[i] \o te /\ IsText(D, u[i])
    BY <1>7, <2>1
  <2>3. aux[i + 1] = Entered(D, call, aux[i], e, flat)
    <3>1. aux[i + 1] = Then(aux[i], i + 1)
      BY <1>2, <2>1
    <3> QED
      BY <3>1 DEF Then
  <2>4. IsText(D, te)
    BY <1>0, <1>5, <2>1, TextOfEntryIs
  <2>5. m = AddAll(p, te, mean)
    BY <2>2, <2>4, AddTwo DEF IsText
  <2>6. SUFFICES ASSUME m # Thrown, NoneIndexed(m) PROVE Solid(aux[i + 1]) /\ m = With(n, aux[i + 1])
    BY <2>1
  <2> HIDE DEF text
  <2>7. p # Thrown
    BY <2>4, <2>5, <2>6, ThrownStays DEF IsText
  <2>8. Low(n, Height + 1) /\ Low(p, Height + 1)
    BY <1>8, <2>2, <2>7, TreeIsLow, AddAllLow
  <2>9. NoneIndexed(p)
    <3> HIDE DEF p, te, mean
    <3> QED
      BY <1>8, <2>4, <2>5, <2>6, <2>8, AddAllLow
  <2>10. Solid(aux[i]) /\ p = With(n, aux[i])
    BY <1>10, <2>7, <2>9
  <2> DEFINE a == aux[i]
             q == Entered(D, call, a, e, flat)
  <2>11. Solid(q) /\ m = With(n, q)
    <3>1. PICK j \in DOMAIN call.d.entries : e = call.d.entries[j]
      BY <1>0, <2>1
    <3> DEFINE s == t - 1
    <3>2. /\ Solid(a) /\ p = With(n, a) /\ s \in 0..Depth
          /\ m = AddAll(p, TextOfEntry(D, call, e, Texts(D)[s]), Means(D)[g])
      BY <1>4, <2>5, <2>10 DEF text
    <3> HIDE DEF a, e, p, m, s
    <3> QED
      BY <2>6, <2>7, <3>1, <3>2, EntryStep
  <2> QED
    BY <2>3, <2>11
<1>11. N \in T
  <2>1. 0..N \subseteq T
    <3> HIDE DEF T
    <3> QED
      BY <1>0, <1>9, <1>10, Induction
  <2> QED
    BY <1>0, <2>1
<1>12. Solid(aux[N]) /\ AddAll(n, u[N], mean) = With(n, aux[N])
  BY <1>5, <1>6, <1>11
<1> QED
  BY <1>5, <1>6, <1>12, NoneThrown DEF Solid

\* Added to a null node, a node is what it was.
LEMMA WithNull ==
  ASSUME NEW r, Solid(r)
  PROVE  With(Null, r) = r
<1>0. Null.t # "scalar" /\ DOMAIN Children(Null) = {} /\ IsTree(Null)
  <2>1. Null.t # "scalar" /\ DOMAIN Children(Null) = {}
    BY DEF Null, Children
  <2> QED
    BY <2>1, NullIsTree
<1>1. CASE r = Null
  BY <1>0, <1>1, WithSolid
<1>2. CASE r # Null
  <2>1. r.t = "map" /\ r = Map([key \in DOMAIN r.m |-> r.m[key]]) /\ IsTree(r) /\ Filled(r)
    BY <1>2 DEF Solid
  <2>2. IsTree(Map(r.m)) /\ DOMAIN r.m # {}
    BY <2>1, NoneThrown, FilledParts
  <2> DEFINE c == r.m
  <2>3. With(Null, r) = AddMap(Null, c, FALSE, FALSE)
    <3>1. With(Null, r) = Meet(Null, r)
      BY <1>0, <1>2, WithSolid
    <3> QED
      BY <2>1, <3>1 DEF Meet
  <2>4. IsTree(Map(c)) /\ DOMAIN c # {} /\ r = Map([key \in DOMAIN c |-> c[key]])
    BY <2>1, <2>2
  <2> HIDE DEF c
  <2>5. AddMap(Null, c, FALSE, FALSE) = Met(Null, c)
    BY <1>0, <2>4, AddMapMet
  <2>6. Met(Null, c) = Map([key \in DOMAIN c |-> c[key]])
    <3> DEFINE f == [key \in DOMAIN Children(Null) \cup DOMAIN c |-> MeetAt(Null, c, key)]
               k == [key \in DOMAIN c |-> c[key]]
    <3>1. \A key \in DOMAIN c : MeetAt(Null, c, key) = c[key]
      BY <1>0 DEF MeetAt
    <3>2. f = k
      BY <1>0, <3>1
    <3> QED
      BY <3>2 DEF Met
  <2> QED
    BY <2>3, <2>4, <2>5, <2>6
<1> QED
  BY <1>1, <1>2

\* What a call returns.
FlatNode(D, call, flat) == FlattenNode(D, FALSE, call, flat)

\* A document that is no map has no text, or none that can be added.
LEMMA OtherPastes ==
  ASSUME AllIndexed, NEW D \in Disks, NEW call, Input(D, call), call.d.t \notin {"doc", "scalar"},
         NEW flat, NEW r, r = FlatNode(D, call, flat)
  PROVE  Pastes(D, call, r)
<1>0. Depth \in Nat /\ call \in Calls(D) /\ 1 \in 1..(Height + 1)
  BY DepthAssumption, HeightAssumption, InputDocument
<1> SUFFICES ASSUME NEW t \in 0..Depth, NEW g \in 0..Depth, NEW n, IsTree(n),
                    AddAll(n, Texts(D)[t][call], Means(D)[g]) # Thrown
             PROVE  /\ r # Thrown /\ Filled(r)
                    /\ AddAll(n, Texts(D)[t][call], Means(D)[g]) = With(n, r)
  BY DEF Pastes
<1> DEFINE text == Texts(D)[t][call]
           m == AddAll(n, text, Means(D)[g])
<1>1. text # <<Thrown>>
  <2>1. SUFFICES ASSUME text = <<Thrown>> PROVE m = Thrown
    OBVIOUS
  <2>2. AddAll(n, <<Thrown>>, Means(D)[g]) = OneMore(n, Thrown, Means(D)[g])
    BY AddOne
  <2> QED
    BY <2>1, <2>2 DEF OneMore, AddText
<1>2. t \in 1..Depth /\ text = TextOf(D, call, Texts(D)[t - 1])
  <2>1. t # 0
    BY <1>0, <1>1, TextsDefined
  <2>2. t \in 1..Depth
    BY <1>0, <2>1
  <2> QED
    BY <1>0, <2>2, TextsDefined
<1>3. ~(call.d.t = "seq" /\ call.d.s # <<>>)
  <2>1. SUFFICES ASSUME call.d.t = "seq" /\ call.d.s # <<>> PROVE text = <<Thrown>>
    BY <1>1
  <2> QED
    BY <1>2, <2>1 DEF TextOf
<1>4. text = <<>>
  BY <1>2, <1>3 DEF TextOf
<1>5. m = n
  BY <1>4, AddNone
<1> HIDE DEF m
<1>6. CASE call.d.t = "seq"
  <2> DEFINE elements == [i \in DOMAIN call.d.s |-> flat[OfChild(call, call.d.s[i])]]
  <2>1. r = FlattenSequence(call.d, elements)
    BY <1>6 DEF FlatNode, FlattenNode
  <2>2. elements = <<>>
    BY <1>3, <1>6
  <2> HIDE DEF elements
  <2>3. DOMAIN elements = {} /\ elements \in Seq(Range(elements)) /\ Thrown \notin Range(elements)
    <3>1. DOMAIN elements = {} /\ elements \in Seq(Range(elements))
      BY <2>2
    <3> QED
      BY <3>1 DEF Range
  <2>4. r.t = "seq" /\ r.s = elements /\ r # Thrown
    <3>1. \A x : Seq_(x).t = "seq" /\ Seq_(x).s = x /\ Seq_(x) # Thrown
      BY DEF Seq_, Thrown
    <3>2. r = Seq_(elements)
      BY <2>1, <2>3 DEF FlattenSequence
    <3> QED
      BY <3>1, <3>2
  <2>5. IsNode(r)
    BY <2>3, <2>4 DEF IsNode
  <2>6. DOMAIN Children(r) = {}
    BY <2>3, <2>4, <2>5, ChildrenOfSequence
  <2>7. IsTree(r)
    BY <1>0, <2>5, <2>6, LeafIsTree
  <2>8. Filled(r)
    BY <2>4, <2>6, <2>7, FilledParts
  <2>9. With(n, r) = n
    BY <2>2, <2>4 DEF With, AddFile
  <2> QED
    BY <1>5, <2>4, <2>8, <2>9 DEF m
<1>7. CASE call.d.t # "seq"
  <2>1. r = Null
    <3>1. call.d = Null
      BY <1>7, InputDocument
    <3> QED
      BY <1>7, <3>1 DEF FlatNode, FlattenNode
  <2>2. With(n, Null) = n /\ Filled(Null) /\ Null # Thrown
    BY SolidNull, WithSolid, NullIsTree, NoneThrown DEF Solid
  <2> QED
    BY <1>5, <2>1, <2>2 DEF m
<1> QED
  BY <1>6, <1>7

\* The elements of a sequence.
LEMMA SequenceSame ==
  ASSUME AllIndexed, NEW D \in Disks, NEW call, Input(D, call), call.d.t = "seq",
         NEW flat, Prepared(D, call, flat), NEW h \in 0..Height, Fit(D, flat, h),
         NEW r, r = FlatNode(D, call, flat), NEW g \in 0..Depth,
         NEW elements, elements = [i \in DOMAIN call.d.s |-> Means(D)[g][OfChild(call, call.d.s[i])]],
         NEW m, m = FlattenSequence(call.d, elements), IsTree(m), NoneIndexed(m)
  PROVE  r # Thrown /\ Filled(r) /\ m = r
<1> DEFINE s == call.d.s
           others == [i \in DOMAIN s |-> flat[OfChild(call, s[i])]]
<1>1. /\ s \in Seq(Range(s))
      /\ \A i \in DOMAIN s : /\ s[i] \in Inner(call.d)
                             /\ s[i].t = "scalar" => \E rel \in BOOLEAN : s[i] = Element(call.file, rel)
  BY InputDocument
<1>2. r = FlattenSequence(call.d, others)
  BY DEF FlatNode, FlattenNode
<1>3. m # Thrown
  BY NoneThrown
<1>4. m = Seq_(elements) /\ \A i \in DOMAIN s : elements[i] # Thrown
  BY <1>3 DEF FlattenSequence, Range
<1>5. m.t = "seq" /\ m.s = elements /\ DOMAIN elements = DOMAIN s /\ IsNode(m)
  <2>1. DOMAIN elements = DOMAIN s
    OBVIOUS
  <2>2. \A x : Seq_(x).t = "seq" /\ Seq_(x).s = x
    BY DEF Seq_
  <2> QED
    BY <1>4, <2>1, <2>2, TreeParts
<1>6. /\ DOMAIN Children(m) = {IndexKey[i] : i \in DOMAIN s}
      /\ \A i \in DOMAIN s : Children(m)[IndexKey[i]] = elements[i]
  <2>1. /\ DOMAIN Children(m) = {IndexKey[i] : i \in DOMAIN m.s}
        /\ \A i \in DOMAIN m.s : Children(m)[IndexKey[i]] = m.s[i]
    BY <1>5, ChildrenOfSequence
  <2>2. DOMAIN m.s = DOMAIN s
    BY <1>5
  <2> HIDE DEF s
  <2> QED
    BY <1>5, <2>1, <2>2
<1>7. ASSUME NEW i \in DOMAIN s PROVE others[i] = elements[i] /\ Filled(elements[i])
  <2> DEFINE d == s[i]
             c == OfChild(call, d)
             v == Means(D)[g][c]
             w == flat[c]
  <2>1. elements[i] = v /\ others[i] = w
    OBVIOUS
  <2>2. d \in Inner(call.d) /\ (d.t = "scalar" => \E rel \in BOOLEAN : d = Element(call.file, rel))
    BY <1>1
  <2>3. Same(c, v, w)
    BY <2>2 DEF Prepared
  <2>4. Input(D, c) /\ c.d = d
    BY <2>2, InputChild
  <2>5. Returns(c, w, h)
    BY <2>4 DEF Fit, Input
  <2>6. v # Thrown /\ NoneIndexed(v)
    <3>1. NoneIndexed(Children(m)[IndexKey[i]])
      BY <1>6, NoneIndexedParts
    <3> QED
      BY <1>4, <1>6, <2>1, <3>1
  <2> HIDE DEF c, v, w, d
  <2>7. w # Thrown /\ Filled(w) /\ v = IF d.t = "scalar" THEN InFolder(d.v, c) ELSE w
    BY <2>3, <2>4, <2>6 DEF Same
  <2>8. v = w
    <3>1. CASE d.t = "scalar"
      <4>1. PICK rel \in BOOLEAN : d = Element(call.file, rel)
        BY <2>2, <3>1
      <4>2. InFolder(Element(call.file, rel).v, c) = Element(call.file, rel)
        BY ElementStays
      <4>3. w = d
        BY <2>4, <2>5, <2>7, <3>1 DEF Returns
      <4> QED
        BY <2>7, <3>1, <4>1, <4>2, <4>3
    <3>2. CASE d.t # "scalar"
      BY <2>7, <3>2
    <3> QED
      BY <3>1, <3>2
  <2> QED
    BY <2>1, <2>7, <2>8
<1>8. others = elements
  <2>1. \A i \in DOMAIN s : others[i] = elements[i]
    BY <1>7
  <2>2. elements = [i \in DOMAIN s |-> elements[i]]
    OBVIOUS
  <2>3. others = [i \in DOMAIN s |-> others[i]]
    OBVIOUS
  <2> HIDE DEF others
  <2> QED
    BY <2>1, <2>2, <2>3
<1>9. m = r
  BY <1>2, <1>8
<1>10. \A key \in DOMAIN Children(m) : Filled(Children(m)[key])
  <2>1. SUFFICES ASSUME NEW key \in DOMAIN Children(m) PROVE Filled(Children(m)[key])
    OBVIOUS
  <2>2. PICK i \in DOMAIN s : key = IndexKey[i]
    BY <1>6
  <2>3. Children(m)[key] = elements[i] /\ Filled(elements[i])
    BY <1>6, <1>7, <2>2
  <2> QED
    BY <2>3
<1>11. Filled(m)
  BY <1>5, <1>10, FilledParts
<1> QED
  BY <1>3, <1>9, <1>11

\* A call, when those that it makes return what they mean.
LEMMA CallSame ==
  ASSUME AllIndexed, NEW D \in Disks, NEW call, Input(D, call),
         NEW flat, Prepared(D, call, flat), NEW h \in 0..Height, Fit(D, flat, h),
         NEW r, r = FlatNode(D, call, flat)
  PROVE  /\ call.d.t # "scalar" => Pastes(D, call, r)
         /\ \A g \in 0..Depth : Same(call, Means(D)[g][call], r)
<1>0. /\ Depth \in Nat /\ Depth <= Height /\ Height \in Nat /\ Depth \in 0..Depth /\ call \in Calls(D)
  BY DepthAssumption, HeightAssumption, InputDocument
<1>1. call.d.t # "scalar" => Pastes(D, call, r)
  <2>1. CASE call.d.t = "doc"
    <3>1. r = FlattenMap(D, FALSE, call, flat)
      BY <2>1 DEF FlatNode, FlattenNode
    <3> QED
      BY <2>1, <3>1, MapPastes
  <2>2. CASE call.d.t \notin {"doc", "scalar"}
    BY <2>2, OtherPastes
  <2> QED
    BY <2>1, <2>2
<1>2. ASSUME NEW g \in 0..Depth, NEW m, m = Means(D)[g][call] PROVE Same(call, m, r)
  <2>0. SUFFICES ASSUME m # Thrown, NoneIndexed(m)
                 PROVE  r # Thrown /\ Filled(r) /\ m = IF call.d.t = "scalar" THEN InFolder(call.d.v, call) ELSE r
    BY DEF Same
  <2>1. g # 0
    BY <1>0, <1>2, <2>0, MeansDefined
  <2> DEFINE k == g - 1
             mean == Means(D)[k]
             texts == Texts(D)[Depth]
  <2>2. g \in 1..Depth /\ k \in 0..Depth
    BY <1>0, <2>1
  <2>3. m = Meaning(D, call, texts, mean, FALSE, FALSE)
    BY <1>0, <1>2, <2>2, MeansDefined DEF MeansOf
  <2>4. Low(m, g) /\ IsTree(m)
    BY <1>2, <2>0, MeansFit DEF Fits, Low
  <2> HIDE DEF k
  <2>5. CASE call.d.t = "doc"
    <3>1. m = AddAll(Null, texts[call], mean)
      BY <2>3, <2>5 DEF Meaning, AddAll
    <3>2. Solid(r) /\ r # Thrown /\ Filled(r) /\ m = With(Null, r)
      BY <1>0, <1>1, <2>0, <2>2, <2>5, <3>1, NullIsTree DEF Pastes
    <3>3. m = r
      BY <3>2, WithNull
    <3> QED
      BY <2>5, <3>2, <3>3
  <2>6. CASE call.d.t = "seq"
    <3> DEFINE elements == [i \in DOMAIN call.d.s |-> mean[OfChild(call, call.d.s[i])]]
    <3>1. m = FlattenSequence(call.d, elements)
      BY <2>3, <2>6 DEF Meaning
    <3>2. elements = [i \in DOMAIN call.d.s |-> Means(D)[k][OfChild(call, call.d.s[i])]]
      OBVIOUS
    <3> HIDE DEF elements
    <3>3. r # Thrown /\ Filled(r) /\ m = r
      BY <2>0, <2>2, <2>4, <2>6, <3>1, <3>2, SequenceSame
    <3> QED
      BY <2>6, <3>3
  <2>7. CASE call.d.t = "scalar"
    <3>1. m = InFolder(call.d.v, call)
      BY <2>3, <2>7 DEF Meaning
    <3>2. r = call.d
      BY <2>7 DEF FlatNode, FlattenNode
    <3>3. r # Thrown
      <4>1. ASSUME NEW x, x.t = "scalar" PROVE x # Thrown
        BY <4>1 DEF Thrown
      <4> QED
        BY <2>7, <3>2, <4>1
    <3> QED
      BY <2>7, <3>1, <3>2, <3>3, ScalarFilled
  <2>8. CASE call.d.t \notin {"doc", "seq", "scalar"}
    <3>1. m = call.d /\ r = call.d
      BY <2>3, <2>8 DEF Meaning, FlatNode, FlattenNode
    <3>2. r = Null
      BY <2>8, <3>1, InputDocument
    <3>3. Filled(Null) /\ Null # Thrown
      BY SolidNull, NullIsTree, NoneThrown DEF Solid
    <3> QED
      BY <2>8, <3>1, <3>2, <3>3
  <2> QED
    BY <2>5, <2>6, <2>7, <2>8
<1>3. \A g \in 0..Depth : Same(call, Means(D)[g][call], r)
  BY <1>2
<1> QED
  BY <1>1, <1>3

\* With as many calls as may be open, every call returns what it means.
LEMMA AllSame ==
  ASSUME AllIndexed, NEW D \in Disks
  PROVE  \A h \in 0..Depth : \A call : Input(D, call) /\ Room(D, call, h)
           => /\ call.d.t # "scalar" => Pastes(D, call, Flats(D)[h][call])
              /\ \A g \in 0..Depth : Same(call, Means(D)[g][call], Flats(D)[h][call])
<1> DEFINE Settled(h, call) ==
             /\ call.d.t # "scalar" => Pastes(D, call, Flats(D)[h][call])
             /\ \A g \in 0..Depth : Same(call, Means(D)[g][call], Flats(D)[h][call])
           T == {h \in 0..Depth : \A call : Input(D, call) /\ Room(D, call, h) => Settled(h, call)}
<1>0. Depth \in Nat /\ Depth <= Height /\ Height \in Nat
  BY DepthAssumption, HeightAssumption
<1>1. \A h \in 0..Depth : Fit(D, Flats(D)[h], h)
  <2>1. ASSUME NEW flag \in BOOLEAN PROVE \A h \in 0..Depth : Fit(D, Flattened(D, flag)[h], h)
    BY FlattenedFit
  <2>2. FALSE \in BOOLEAN
    OBVIOUS
  <2> QED
    BY <2>1, <2>2, Zenon DEF Flats
<1>2. \A call \in Calls(D) : \A h \in 1..Depth : Flats(D)[h][call] = FlatNode(D, call, Flats(D)[h - 1])
  <2>1. ASSUME NEW flag
        PROVE  \A call \in Calls(D) : \A h \in 1..Depth :
                 Flattened(D, flag)[h][call] = FlattenNode(D, flag, call, Flattened(D, flag)[h - 1])
    BY FlattenedDefined
  <2> QED
    BY <2>1, Zenon DEF Flats, FlatNode
<1>3. 0 \in T
  <2>1. ASSUME NEW call, Input(D, call), Room(D, call, 0) PROVE FALSE
    BY <2>1, RoomPositive DEF Input
  <2> QED
    BY <1>0, <2>1
<1>4. ASSUME NEW h \in 0..Depth, h < Depth, h \in T PROVE h + 1 \in T
  <2>1. h \in Nat /\ h + 1 \in 0..Depth /\ h + 1 \in 1..Depth /\ (h + 1) - 1 = h /\ h \in 0..Height
    BY <1>0, <1>4
  <2> DEFINE flat == Flats(D)[h]
  <2>2. ASSUME NEW call, Input(D, call), Room(D, call, h + 1) PROVE Settled(h + 1, call)
    <3>1. call \in Calls(D)
      BY <2>2, InputDocument
    <3>2. Flats(D)[h + 1][call] = FlatNode(D, call, flat)
      BY <1>2, <2>1, <3>1
    <3>3. \A c : Input(D, c) /\ Room(D, c, h) => Settled(h, c)
      BY <1>4
    <3>4. ASSUME NEW d \in Inner(call.d), NEW g \in 0..Depth
          PROVE  Same(OfChild(call, d), Means(D)[g][OfChild(call, d)], flat[OfChild(call, d)])
      <4>1. Input(D, OfChild(call, d))
        BY <2>2, InputChild
      <4>2. Room(D, OfChild(call, d), h)
        BY <2>1, <2>2, RoomForCalls DEF Input
      <4> QED
        BY <3>3, <4>1, <4>2
    <3>5. ASSUME NEW to \in DOMAIN D \ Range(call.stack), ~IsSchema(to)
          PROVE  Pastes(D, OfFile(D, call, to), flat[OfFile(D, call, to)])
      <4>1. Sound(D, OfFile(D, call, to)) /\ OfFile(D, call, to).d = D[to] /\ OfFile(D, call, to).file = to
        BY <2>2, SoundFile DEF Input, OfFile
      <4>2. Once(OfFile(D, call, to)) /\ Room(D, OfFile(D, call, to), h)
        BY <2>1, <2>2, RoomForCalls DEF Input
      <4>3. Input(D, OfFile(D, call, to)) /\ OfFile(D, call, to).d.t # "scalar"
        BY <3>5, <4>1, <4>2, FilesOfDisk DEF Input
      <4> QED
        BY <3>3, <4>2, <4>3
    <3>6. Prepared(D, call, flat)
      BY <3>4, <3>5 DEF Prepared
    <3> DEFINE r == FlatNode(D, call, flat)
    <3>7. /\ call.d.t # "scalar" => Pastes(D, call, r)
          /\ \A g \in 0..Depth : Same(call, Means(D)[g][call], r)
      <4>1. Fit(D, flat, h)
        BY <1>1
      <4> HIDE DEF flat
      <4> QED
        BY <2>1, <2>2, <3>6, <4>1, CallSame
    <3> QED
      BY <3>2, <3>7
  <2> QED
    BY <2>1, <2>2
<1>5. 0..Depth \subseteq T
  <2> HIDE DEF T
  <2> QED
    BY <1>0, <1>3, <1>4, Induction
<1> QED
  BY <1>5

\* So does the call for an input file that is loaded.
LEMMA LoadIsPaste ==
  ASSUME AllIndexed, NEW D \in Disks, NEW f \in DOMAIN D, ~IsSchema(f), NEW m,
         m = Means(D)[Depth][RootCall(D, f)], m # Thrown, NoneIndexed(m)
  PROVE  Load(D, f, FALSE) # Thrown /\ Load(D, f, FALSE) = m
<1> DEFINE call == RootCall(D, f)
<1>1. call.d.t # "scalar"
  BY RootIsSound
<1>2. Input(D, call) /\ Room(D, call, Depth) /\ Depth \in 0..Depth
  BY DepthAssumption, DisksAssumption, RootHasRoom DEF Input
<1> HIDE DEF call
<1>3. Same(call, Means(D)[Depth][call], Flats(D)[Depth][call])
  BY <1>2, AllSame
<1>4. m = Means(D)[Depth][call]
  BY DEF call
<1>5. Flats(D)[Depth][call] # Thrown /\ m = Flats(D)[Depth][call]
  BY <1>1, <1>3, <1>4 DEF Same
<1>6. Load(D, f, FALSE) = Flats(D)[Depth][call]
  BY DEF Load, Flats, call
<1> QED
  BY <1>5, <1>6

-----------------------------------------------------------------------------
(* Texts are not cut short either.                                         *)

\* What a call in an input file stands for is what the calls that it makes stand for.
Alike(D, call, a, b) ==
  /\ \A d \in Inner(call.d) : a[OfChild(call, d)] = b[OfChild(call, d)]
  /\ \A to \in DOMAIN D \ Range(call.stack) : ~IsSchema(to) => a[OfFile(D, call, to)] = b[OfFile(D, call, to)]

\* An entry stands for its text.
LEMMA TextOfEntryLocal ==
  ASSUME NEW D \in Disks, NEW call, Input(D, call), call.d.t = "doc", NEW i \in DOMAIN call.d.entries,
         NEW a, NEW b, Alike(D, call, a, b)
  PROVE  TextOfEntry(D, call, call.d.entries[i], a) = TextOfEntry(D, call, call.d.entries[i], b)
<1> DEFINE e == call.d.entries[i]
           ref == e[2]
           to == Target(D, ref, call.file, call.folder)
<1>1. e[1] = "follow" => ref.folder \in Folder \cup {NoFolder}
  BY InputDocument
<1>2. CASE e[1] = "follow" /\ ~(to = NoFile \/ to \in Range(call.stack))
  <2>1. /\ TextOfEntry(D, call, e, a) = a[[OfFile(D, call, to) EXCEPT !.folder = to[1]]]
        /\ TextOfEntry(D, call, e, b) = b[[OfFile(D, call, to) EXCEPT !.folder = to[1]]]
    BY <1>2 DEF TextOfEntry
  <2>2. /\ to \in DOMAIN D /\ ~IsSchema(to) /\ to \notin Range(call.stack)
        /\ [OfFile(D, call, to) EXCEPT !.folder = to[1]] = OfFile(D, call, to)
    <3>1. ref.folder \in Folder \cup {NoFolder} /\ to = Target(D, ref, call.file, call.folder)
      BY <1>1, <1>2
    <3>2. to # NoFile /\ to \notin Range(call.stack)
      BY <1>2
    <3> HIDE DEF ref, to
    <3> QED
      BY <3>1, <3>2, InputFile
  <2> HIDE DEF to
  <2>3. a[OfFile(D, call, to)] = b[OfFile(D, call, to)]
    BY <2>2 DEF Alike
  <2> QED
    BY <2>1, <2>2, <2>3
<1>3. CASE ~(e[1] = "follow" /\ ~(to = NoFile \/ to \in Range(call.stack)))
  BY <1>3 DEF TextOfEntry
<1> QED
  BY <1>2, <1>3

\* So does a whole document.
LEMMA TextOfLocal ==
  ASSUME NEW D \in Disks, NEW call, Input(D, call), NEW a, NEW b, Alike(D, call, a, b)
  PROVE  TextOf(D, call, a) = TextOf(D, call, b)
<1>1. CASE call.d.t = "doc"
  <2> DEFINE n == Len(call.d.entries)
  <2>1. n \in Nat /\ DOMAIN call.d.entries = 1..n
    BY <1>1, InputDocument
  <2>2. PICK u : Upto(D, call, a, u) /\ TextOfMap(D, call, a) = u[n]
    BY <2>1, UptoDefined
  <2>3. PICK v : Upto(D, call, b, v) /\ TextOfMap(D, call, b) = v[n]
    BY <2>1, UptoDefined
  <2>4. /\ \A i \in 0..n : u[i] = IF i = 0 THEN <<>> ELSE u[i - 1] \o TextOfEntry(D, call, call.d.entries[i], a)
        /\ \A i \in 0..n : v[i] = IF i = 0 THEN <<>> ELSE v[i - 1] \o TextOfEntry(D, call, call.d.entries[i], b)
    BY <2>2, <2>3 DEF Upto
  <2> DEFINE T == {i \in 0..n : u[i] = v[i]}
  <2> HIDE DEF n
  <2>5. 0 \in T
    BY <2>1, <2>4
  <2>6. ASSUME NEW i \in 0..n, i < n, i \in T PROVE i + 1 \in T
    <3>1. i + 1 \in 0..n /\ i + 1 \in 1..n /\ i + 1 # 0 /\ (i + 1) - 1 = i
      BY <2>1, <2>6
    <3>2. /\ u[i + 1] = u[i] \o TextOfEntry(D, call, call.d.entries[i + 1], a)
          /\ v[i + 1] = v[i] \o TextOfEntry(D, call, call.d.entries[i + 1], b)
      BY <2>4, <3>1
    <3>3. TextOfEntry(D, call, call.d.entries[i + 1], a) = TextOfEntry(D, call, call.d.entries[i + 1], b)
      BY <1>1, <2>1, <3>1, TextOfEntryLocal
    <3> QED
      BY <2>6, <3>1, <3>2, <3>3
  <2>7. 0..n \subseteq T
    <3> HIDE DEF T
    <3> QED
      BY <2>1, <2>5, <2>6, Induction
  <2>8. u[n] = v[n]
    BY <2>1, <2>7
  <2> QED
    BY <1>1, <2>2, <2>3, <2>8 DEF TextOf
<1>2. CASE call.d.t # "doc"
  BY <1>2 DEF TextOf
<1> QED
  BY <1>1, <1>2

\* With so many files within one another, the text is what it would be with more.
LEMMA TextsEnough ==
  ASSUME NEW D \in Disks
  PROVE  \A h \in 0..Depth : \A call : Input(D, call) /\ Room(D, call, h)
           => \A k \in h..Depth : Texts(D)[k][call] = Texts(D)[h][call]
<1> DEFINE text == Texts(D)
           Settled(h) == \A call : Input(D, call) /\ Room(D, call, h)
                           => \A k \in h..Depth : text[k][call] = text[h][call]
           T == {h \in 0..Depth : Settled(h)}
<1>0. Depth \in Nat /\ \A call \in Calls(D) : \A h \in 1..Depth : text[h][call] = TextOf(D, call, text[h - 1])
  BY DepthAssumption, TextsDefined
<1> HIDE DEF text
<1>1. 0 \in T
  <2>1. ASSUME NEW call, Input(D, call), Room(D, call, 0) PROVE 0 >= 1
    BY <2>1, RoomPositive DEF Input
  <2> QED
    BY <1>0, <2>1
<1>2. ASSUME NEW h \in 0..Depth, h < Depth, h \in T PROVE h + 1 \in T
  <2>1. h \in Nat /\ h + 1 \in 0..Depth /\ h + 1 \in 1..Depth /\ (h + 1) - 1 = h
    BY <1>0, <1>2
  <2>2. ASSUME NEW call, Input(D, call), Room(D, call, h + 1), NEW k \in (h + 1)..Depth
        PROVE  text[k][call] = text[h + 1][call]
    <3>1. k \in 1..Depth /\ k - 1 \in h..Depth /\ call \in Calls(D) /\ Sound(D, call) /\ Once(call)
      BY <1>0, <2>1, <2>2 DEF Input, Sound
    <3>2. text[k][call] = TextOf(D, call, text[k - 1])
      BY <1>0, <3>1
    <3>3. text[h + 1][call] = TextOf(D, call, text[h])
      <4>1. text[h + 1][call] = TextOf(D, call, text[(h + 1) - 1])
        BY <1>0, <2>1, <3>1
      <4> QED
        BY <2>1, <4>1
    <3>4. ASSUME NEW c, Input(D, c), Room(D, c, h) PROVE text[k - 1][c] = text[h][c]
      BY <1>2, <3>1, <3>4
    <3>5. Alike(D, call, text[k - 1], text[h])
      <4>1. ASSUME NEW d \in Inner(call.d)
            PROVE  text[k - 1][OfChild(call, d)] = text[h][OfChild(call, d)]
        BY <2>1, <2>2, <3>1, <3>4, InputChild, RoomForCalls
      <4>2. ASSUME NEW to \in DOMAIN D \ Range(call.stack), ~IsSchema(to)
            PROVE  text[k - 1][OfFile(D, call, to)] = text[h][OfFile(D, call, to)]
        <5>1. Sound(D, OfFile(D, call, to)) /\ Once(OfFile(D, call, to)) /\ Room(D, OfFile(D, call, to), h)
          BY <2>1, <2>2, <3>1, SoundFile, RoomForCalls
        <5>2. Input(D, OfFile(D, call, to))
          BY <4>2, <5>1 DEF Input, OfFile
        <5> QED
          BY <3>4, <5>1, <5>2
      <4> QED
        BY <4>1, <4>2 DEF Alike
    <3>6. TextOf(D, call, text[k - 1]) = TextOf(D, call, text[h])
      BY <2>2, <3>5, TextOfLocal
    <3> QED
      BY <3>2, <3>3, <3>6
  <2> QED
    BY <2>1, <2>2
<1>3. 0..Depth \subseteq T
  <2> HIDE DEF T
  <2> QED
    BY <1>0, <1>1, <1>2, Induction
<1> QED
  BY <1>3 DEF text

\* The entries of a text whose calls have that much room.
Roomy(D, text, h) ==
  \A i \in DOMAIN text : text[i] = Thrown \/ (Input(D, text[i].call) /\ Room(D, text[i].call, h))

\* Two of them make one.
LEMMA TwoRoomy ==
  ASSUME NEW D, NEW a, NEW b, IsText(D, a), IsText(D, b), NEW h, Roomy(D, a, h), Roomy(D, b, h)
  PROVE  Roomy(D, a \o b, h)
<1> DEFINE c == a \o b
           m == Len(a)
           n == Len(b)
<1>1. /\ m \in Nat /\ n \in Nat /\ DOMAIN a = 1..m /\ DOMAIN b = 1..n
      /\ c \in Seq(Range(c)) /\ DOMAIN c = 1..(m + n)
      /\ \A i \in 1..m : c[i] = a[i]
      /\ \A j \in 1..n : c[m + j] = b[j]
  BY Concatenation DEF IsText
<1> HIDE DEF c, m, n
<1>2. ASSUME NEW i \in 1..(m + n)
      PROVE  c[i] = Thrown \/ (Input(D, c[i].call) /\ Room(D, c[i].call, h))
  <2>1. CASE i \in 1..m
    BY <1>1, <2>1 DEF Roomy
  <2>2. CASE i \notin 1..m
    <3>1. i - m \in 1..n /\ m + (i - m) = i
      BY <1>1, <2>2
    <3>2. c[i] = b[i - m]
      BY <1>1, <3>1
    <3> QED
      BY <1>1, <3>1, <3>2 DEF Roomy
  <2> QED
    BY <2>1, <2>2
<1> QED
  BY <1>1, <1>2 DEF Roomy, c

\* An entry is in its document or in that of another file, so that there is room for its call.
RoomyTexts(D, text) ==
  \A call : \A h \in Nat : Input(D, call) /\ Room(D, call, h + 1) => Roomy(D, text[call], h)

LEMMA EntryRoomy ==
  ASSUME NEW D \in Disks, NEW call, Input(D, call), call.d.t = "doc", NEW i \in DOMAIN call.d.entries,
         NEW h \in Nat, Room(D, call, h + 1), NEW text, RoomyTexts(D, text)
  PROVE  Roomy(D, TextOfEntry(D, call, call.d.entries[i], text), h)
<1> DEFINE e == call.d.entries[i]
           ref == e[2]
           to == Target(D, ref, call.file, call.folder)
           made == TextOfEntry(D, call, e, text)
<1>1. /\ e[1] = "follow" => ref.folder \in Folder \cup {NoFolder}
      /\ e[1] # "follow" => ref \in Inner(call.d)
      /\ Sound(D, call) /\ Once(call)
  BY InputDocument DEF Input
<1>2. CASE e[1] # "follow"
  <2> DEFINE c == OfChild(call, ref)
             x == Entry_(e[1], c)
             s == <<x>>
  <2>1. made = s
    BY <1>2 DEF TextOfEntry
  <2>2. Input(D, c) /\ Room(D, c, h)
    BY <1>1, <1>2, InputChild, RoomForCalls
  <2> HIDE DEF c
  <2>3. x.call = c /\ DOMAIN s = {1} /\ s[1] = x
    BY DEF Entry_
  <2> HIDE DEF x, s
  <2> QED
    BY <2>1, <2>2, <2>3 DEF Roomy
<1>3. CASE e[1] = "follow" /\ (to = NoFile \/ to \in Range(call.stack))
  <2>1. made = <<Thrown>>
    BY <1>3 DEF TextOfEntry
  <2> DEFINE s == <<Thrown>>
  <2>2. DOMAIN s = {1} /\ s[1] = Thrown
    OBVIOUS
  <2> HIDE DEF s
  <2>3. Roomy(D, s, h)
    BY <2>2 DEF Roomy
  <2> QED
    BY <2>1, <2>3 DEF s
<1>4. CASE e[1] = "follow" /\ ~(to = NoFile \/ to \in Range(call.stack))
  <2> DEFINE c == OfFile(D, call, to)
  <2>1. made = text[[c EXCEPT !.folder = to[1]]]
    BY <1>4 DEF TextOfEntry
  <2>2. to \in DOMAIN D \ Range(call.stack) /\ Input(D, c) /\ [c EXCEPT !.folder = to[1]] = c
    <3>1. ref.folder \in Folder \cup {NoFolder} /\ to = Target(D, ref, call.file, call.folder)
      BY <1>1, <1>4
    <3>2. to # NoFile /\ to \notin Range(call.stack)
      BY <1>4
    <3> HIDE DEF ref, to
    <3> QED
      BY <3>1, <3>2, InputFile
  <2>3. Room(D, c, h)
    BY <1>1, <2>2, RoomForCalls
  <2> HIDE DEF to, c
  <2>4. h - 1 \in Nat /\ (h - 1) + 1 = h
    BY <2>2, <2>3, RoomPositive DEF Input
  <2>5. Roomy(D, text[c], h - 1)
    BY <2>2, <2>3, <2>4 DEF RoomyTexts
  <2>6. ASSUME NEW b, Room(D, b, h - 1), Input(D, b) PROVE Room(D, b, h)
    <3>1. PICK k \in 0..DocHeight : b.d \in PartLevels(D[b.file])[k] /\ h - 1 >= Need(D, b, k)
      BY <2>6 DEF Room
    <3>2. Need(D, b, k) \in Int
      <4>1. Cardinality(DOMAIN D) \in Nat /\ Len(b.stack) \in Nat /\ DocHeight \in Nat
        BY <2>6, StackBounded, DepthAssumption DEF Input
      <4> QED
        BY <4>1 DEF Need
    <3>3. h >= Need(D, b, k)
      BY <3>1, <3>2
    <3> QED
      BY <3>1, <3>3 DEF Room
  <2>7. Roomy(D, text[c], h)
    BY <2>5, <2>6 DEF Roomy
  <2> QED
    BY <2>1, <2>2, <2>7
<1> QED
  BY <1>2, <1>3, <1>4

\* So there is for all texts.
LEMMA TextsRoomy ==
  ASSUME NEW D \in Disks
  PROVE  \A t \in 0..Depth : RoomyTexts(D, Texts(D)[t])
<1> DEFINE T == {t \in 0..Depth : RoomyTexts(D, Texts(D)[t])}
<1>0. /\ Depth \in Nat
      /\ \A call \in Calls(D) : /\ Texts(D)[0][call] = <<Thrown>>
                                /\ \A h \in 1..Depth : Texts(D)[h][call] = TextOf(D, call, Texts(D)[h - 1])
  BY DepthAssumption, TextsDefined
<1>1. ASSUME NEW h PROVE Roomy(D, <<Thrown>>, h) /\ Roomy(D, <<>>, h)
  <2> DEFINE s == <<Thrown>>
             e == <<>>
  <2>1. DOMAIN s = {1} /\ s[1] = Thrown /\ DOMAIN e = {}
    OBVIOUS
  <2> HIDE DEF s, e
  <2>2. Roomy(D, s, h) /\ Roomy(D, e, h)
    BY <2>1 DEF Roomy
  <2> QED
    BY <2>2 DEF s, e
<1>2. 0 \in T
  <2>1. ASSUME NEW call, Input(D, call), NEW h \in Nat PROVE Roomy(D, Texts(D)[0][call], h)
    <3>1. call \in Calls(D)
      BY <2>1, InputDocument
    <3> QED
      BY <1>0, <1>1, <3>1
  <2> QED
    BY <1>0, <2>1 DEF RoomyTexts
<1>3. ASSUME NEW t \in 0..Depth, t < Depth, t \in T PROVE t + 1 \in T
  <2> DEFINE text == Texts(D)[t]
  <2>1. t + 1 \in 0..Depth /\ t + 1 \in 1..Depth /\ (t + 1) - 1 = t /\ RoomyTexts(D, text) /\ AllTexts(D, text)
    BY <1>0, <1>3, TextsAre
  <2>2. ASSUME NEW call, NEW h \in Nat, Input(D, call), Room(D, call, h + 1)
        PROVE  Roomy(D, Texts(D)[t + 1][call], h)
    <3>1. call \in Calls(D)
      BY <2>2, InputDocument
    <3>2. Texts(D)[t + 1][call] = TextOf(D, call, text)
      BY <1>0, <2>1, <3>1
    <3> HIDE DEF text
    <3>3. CASE call.d.t = "doc"
      <4> DEFINE n == Len(call.d.entries)
      <4>1. n \in Nat /\ DOMAIN call.d.entries = 1..n
        BY <2>2, <3>3, InputDocument
      <4>2. PICK u : Upto(D, call, text, u) /\ TextOfMap(D, call, text) = u[n]
        BY <4>1, UptoDefined
      <4>3. \A i \in 0..n : u[i] = IF i = 0 THEN <<>> ELSE u[i - 1] \o TextOfEntry(D, call, call.d.entries[i], text)
        BY <4>2 DEF Upto
      <4>4. \A i \in 0..n : IsText(D, u[i])
        BY <2>1, <2>2, <3>3, <4>2, UptoIs
      <4> DEFINE U == {i \in 0..n : Roomy(D, u[i], h)}
      <4> HIDE DEF n
      <4>5. 0 \in U
        BY <1>1, <4>1, <4>3
      <4>6. ASSUME NEW i \in 0..n, i < n, i \in U PROVE i + 1 \in U
        <5>1. i + 1 \in 0..n /\ i + 1 \in 1..n /\ i + 1 # 0 /\ (i + 1) - 1 = i
          BY <4>1, <4>6
        <5> DEFINE b == TextOfEntry(D, call, call.d.entries[i + 1], text)
        <5>2. u[i + 1] = u[i] \o b
          BY <4>3, <5>1
        <5>3. IsText(D, b)
          BY <2>1, <2>2, <3>3, <4>1, <5>1, TextOfEntryIs
        <5>4. Roomy(D, b, h)
          BY <2>1, <2>2, <3>3, <4>1, <5>1, EntryRoomy
        <5> HIDE DEF b
        <5>5. Roomy(D, u[i] \o b, h)
          BY <4>4, <4>6, <5>3, <5>4, TwoRoomy
        <5> QED
          BY <5>1, <5>2, <5>5
      <4>7. 0..n \subseteq U
        <5> HIDE DEF U
        <5> QED
          BY <4>1, <4>5, <4>6, Induction
      <4>8. Roomy(D, u[n], h)
        BY <4>1, <4>7
      <4>9. TextOf(D, call, text) = TextOfMap(D, call, text)
        BY <3>3 DEF TextOf
      <4> QED
        BY <3>2, <4>2, <4>8, <4>9
    <3>4. CASE call.d.t # "doc"
      BY <1>1, <3>2, <3>4 DEF TextOf
    <3> QED
      BY <3>3, <3>4
  <2> HIDE DEF text
  <2> QED
    BY <2>1, <2>2 DEF RoomyTexts
<1>4. 0..Depth \subseteq T
  <2> HIDE DEF T
  <2> QED
    BY <1>0, <1>2, <1>3, Induction
<1> QED
  BY <1>4

\* What a call means is what the entries of its text mean, or the elements of its sequence.
LEMMA MeansLocal ==
  ASSUME NEW D \in Disks, NEW call, Input(D, call), NEW text, text = Texts(D)[Depth][call],
         NEW a, NEW b,
         \A i \in DOMAIN text : text[i] # Thrown => a[text[i].call] = b[text[i].call],
         \A d \in Inner(call.d) : a[OfChild(call, d)] = b[OfChild(call, d)]
  PROVE  MeansOf(D, call, a) = MeansOf(D, call, b)
<1>1. CASE call.d.t = "doc"
  <2> DEFINE n == Len(text)
  <2>1. n \in Nat /\ DOMAIN text = 1..n
    <3>1. text \in Seq(Range(text))
      BY TextsAre, DepthAssumption DEF AllTexts, IsText
    <3> QED
      BY <3>1
  <2>2. PICK x : Steps(Null, text, a, x) /\ AddAll(Null, text, a) = x[n]
    BY <2>1, StepsDefined
  <2>3. PICK y : Steps(Null, text, b, y) /\ AddAll(Null, text, b) = y[n]
    BY <2>1, StepsDefined
  <2>4. /\ \A i \in 0..n : x[i] = IF i = 0 THEN Null ELSE OneMore(x[i - 1], text[i], a)
        /\ \A i \in 0..n : y[i] = IF i = 0 THEN Null ELSE OneMore(y[i - 1], text[i], b)
    BY <2>2, <2>3 DEF Steps
  <2> DEFINE T == {i \in 0..n : x[i] = y[i]}
  <2> HIDE DEF n
  <2>5. 0 \in T
    BY <2>1, <2>4
  <2>6. ASSUME NEW i \in 0..n, i < n, i \in T PROVE i + 1 \in T
    <3>1. i + 1 \in 0..n /\ i + 1 \in 1..n /\ i + 1 # 0 /\ (i + 1) - 1 = i
      BY <2>1, <2>6
    <3>2. x[i + 1] = OneMore(x[i], text[i + 1], a) /\ y[i + 1] = OneMore(y[i], text[i + 1], b)
      BY <2>4, <3>1
    <3>3. text[i + 1] = Thrown \/ a[text[i + 1].call] = b[text[i + 1].call]
      BY <2>1, <3>1
    <3>4. ASSUME NEW node, NEW e, e = Thrown \/ a[e.call] = b[e.call] PROVE OneMore(node, e, a) = OneMore(node, e, b)
      <4>1. CASE e = Thrown
        BY <4>1 DEF OneMore, AddText
      <4>2. CASE a[e.call] = b[e.call]
        BY <4>2 DEF OneMore, AddText
      <4> QED
        BY <3>4, <4>1, <4>2
    <3>5. OneMore(x[i], text[i + 1], a) = OneMore(x[i], text[i + 1], b)
      BY <3>3, <3>4
    <3> QED
      BY <2>6, <3>1, <3>2, <3>5
  <2>7. 0..n \subseteq T
    <3> HIDE DEF T
    <3> QED
      BY <2>1, <2>5, <2>6, Induction
  <2>8. x[n] = y[n]
    BY <2>1, <2>7
  <2>9. MeansOf(D, call, a) = AddAll(Null, text, a) /\ MeansOf(D, call, b) = AddAll(Null, text, b)
    BY <1>1 DEF MeansOf, Meaning, AddAll
  <2> QED
    BY <2>2, <2>3, <2>8, <2>9
<1>2. CASE call.d.t = "seq"
  <2>1. \A i \in DOMAIN call.d.s : a[OfChild(call, call.d.s[i])] = b[OfChild(call, call.d.s[i])]
    BY <1>2, InputDocument
  <2>2. [i \in DOMAIN call.d.s |-> a[OfChild(call, call.d.s[i])]]
          = [i \in DOMAIN call.d.s |-> b[OfChild(call, call.d.s[i])]]
    BY <2>1
  <2> QED
    BY <1>2, <2>2 DEF MeansOf, Meaning
<1>3. CASE call.d.t \notin {"doc", "seq"}
  BY <1>3 DEF MeansOf, Meaning
<1> QED
  BY <1>1, <1>2, <1>3

\* With so many maps and sequences within one another, it means what it would mean with more.
LEMMA MeansEnough ==
  ASSUME NEW D \in Disks
  PROVE  \A h \in 0..Depth : \A call : Input(D, call) /\ Room(D, call, h)
           => \A k \in h..Depth : Means(D)[k][call] = Means(D)[h][call]
<1> DEFINE mean == Means(D)
           Settled(h) == \A call : Input(D, call) /\ Room(D, call, h)
                           => \A k \in h..Depth : mean[k][call] = mean[h][call]
           T == {h \in 0..Depth : Settled(h)}
<1>0. Depth \in Nat /\ \A call \in Calls(D) : \A h \in 1..Depth : mean[h][call] = MeansOf(D, call, mean[h - 1])
  BY DepthAssumption, MeansDefined
<1> HIDE DEF mean
<1>1. 0 \in T
  <2>1. ASSUME NEW call, Input(D, call), Room(D, call, 0) PROVE 0 >= 1
    BY <2>1, RoomPositive DEF Input
  <2> QED
    BY <1>0, <2>1
<1>2. ASSUME NEW h \in 0..Depth, h < Depth, h \in T PROVE h + 1 \in T
  <2>1. h \in Nat /\ h + 1 \in 0..Depth /\ h + 1 \in 1..Depth /\ (h + 1) - 1 = h
    BY <1>0, <1>2
  <2>2. ASSUME NEW call, Input(D, call), Room(D, call, h + 1), NEW k \in (h + 1)..Depth
        PROVE  mean[k][call] = mean[h + 1][call]
    <3> DEFINE text == Texts(D)[Depth][call]
               a == mean[k - 1]
               b == mean[h]
    <3>1. k \in 1..Depth /\ k - 1 \in h..Depth /\ call \in Calls(D) /\ Sound(D, call) /\ Once(call)
      BY <1>0, <2>1, <2>2 DEF Input, Sound
    <3>2. mean[k][call] = MeansOf(D, call, a)
      BY <1>0, <3>1
    <3>3. mean[h + 1][call] = MeansOf(D, call, b)
      <4>1. mean[h + 1][call] = MeansOf(D, call, mean[(h + 1) - 1])
        BY <1>0, <2>1, <3>1
      <4> QED
        BY <2>1, <4>1
    <3>4. ASSUME NEW c, Input(D, c), Room(D, c, h) PROVE a[c] = b[c]
      BY <1>2, <3>1, <3>4
    <3>5. Roomy(D, text, h)
      <4>1. RoomyTexts(D, Texts(D)[Depth])
        BY <1>0, TextsRoomy
      <4> QED
        BY <2>1, <2>2, <4>1 DEF RoomyTexts
    <3> HIDE DEF a, b, text
    <3>6. \A i \in DOMAIN text : text[i] # Thrown => a[text[i].call] = b[text[i].call]
      BY <3>4, <3>5 DEF Roomy
    <3>7. \A d \in Inner(call.d) : a[OfChild(call, d)] = b[OfChild(call, d)]
      BY <2>1, <2>2, <3>1, <3>4, InputChild, RoomForCalls
    <3>8. MeansOf(D, call, a) = MeansOf(D, call, b)
      BY <2>2, <3>6, <3>7, MeansLocal DEF text
    <3> QED
      BY <3>2, <3>3, <3>8
  <2> QED
    BY <2>1, <2>2
<1>3. 0..Depth \subseteq T
  <2> HIDE DEF T
  <2> QED
    BY <1>0, <1>1, <1>2, Induction
<1> QED
  BY <1>3 DEF mean

-----------------------------------------------------------------------------
(* The theorems.                                                           *)

\* What was loaded last is what the file of the same disk gives.
Loaded ==
  \/ file = NoFile /\ result = Null
  \/ file \in DOMAIN disk /\ result = Load(disk, file, override)
IInv == disk \in Disks /\ override \in BOOLEAN /\ Loaded

\* Nothing has been loaded at first.
LEMMA InitLoaded == Init => IInv
BY DEF Init, IInv, Loaded

\* A call of load_yaml or load_schema leaves what it loaded (YamlServer).
LEMMA StepLoaded == IInv /\ [Next]_vars => IInv'
<1> SUFFICES ASSUME IInv, [Next]_vars PROVE IInv'
  OBVIOUS
<1>1. ASSUME NEW f \in DOMAIN disk, LoadYaml(f) PROVE IInv'
  BY <1>1 DEF IInv, Loaded, LoadYaml
<1>2. ASSUME NEW name \in SchemaNames, LoadSchema(name) PROVE IInv'
  <2> DEFINE found == FindFileRecursive(disk, name, SchemaFolders)
  <2>1. found \in DOMAIN disk
    <3>1. DOMAIN SchemaFolders \subseteq Nat
      BY FolderAssumption
    <3> QED
      BY <1>2, <3>1, FoundIsFile DEF LoadSchema
  <2>2. file' = found /\ result' = Load(disk, found, override) /\ UNCHANGED <<disk, override>>
    BY <1>2 DEF LoadSchema
  <2> HIDE DEF found
  <2> QED
    BY <2>1, <2>2 DEF IInv, Loaded
<1>3. CASE UNCHANGED vars
  BY <1>3 DEF vars, IInv, Loaded
<1> QED
  BY <1>1, <1>2, <1>3 DEF Next

\* That is a tree with resolved values.
LEMMA LoadedTame ==
  ASSUME AllIndexed, IInv, result # Thrown
  PROVE  IsTree(result) /\ Clean(result)
<1>1. CASE result = Null
  <2>1. 1 \in 1..(Height + 1)
    BY HeightAssumption
  <2> QED
    BY <1>1, <2>1, TameNull DEF Tame
<1>2. CASE file \in DOMAIN disk /\ result = Load(disk, file, override)
  BY <1>2, LoadTame DEF IInv
<1> QED
  BY <1>1, <1>2 DEF IInv, Loaded

\* Flattening leaves trees of nodes and no reference, or throws (flattenNode).
THEOREM TypeCorrect == AllIndexed => (Spec => []TypeOK)
<1>1. ASSUME AllIndexed PROVE Spec => []TypeOK
  <2>1. IInv => TypeOK
    BY <1>1, LoadedTame DEF IInv, Loaded, TypeOK
  <2> QED
    BY <2>1, InitLoaded, StepLoaded, PTL DEF Spec
<1> QED
  BY <1>1

\* The relative paths of a file that are values of keys are resolved with its own folder, once,
\* through however many files it is followed, and none with another folder (flattenMap, addNodeYaml).
THEOREM PathsResolved == AllIndexed => (Spec => []PathsOfOwner)
<1>1. ASSUME AllIndexed PROVE Spec => []PathsOfOwner
  <2>1. IInv => PathsOfOwner
    <3>1. \A v : ByCode(v) => Resolved(v)
      BY DEF ByCode, Resolved
    <3> QED
      BY <1>1, <3>1, LoadedTame DEF PathsOfOwner, Clean
  <2> QED
    BY <2>1, InitLoaded, StepLoaded, PTL DEF Spec
<1> QED
  BY <1>1

\* The recursion ends however the files follow each other: never more calls are open than
\* documents are deep, once for each file and once more for the root, which is not on the
\* follow_stack (the check of follow_stack in insertNodes).
THEOREM RecursionEnds ==
  ASSUME NEW D \in Disks, NEW flag, NEW f \in DOMAIN D, NEW h \in 0..Depth,
         h >= (Cardinality(DOMAIN D) + 1) * (DocHeight + 1)
  PROVE  Flattened(D, flag)[h][RootCall(D, f)] = Load(D, f, flag)
<1> DEFINE call == RootCall(D, f)
<1>1. Sound(D, call) /\ Once(call) /\ Room(D, call, h)
  BY RootHasRoom
<1>2. Depth \in h..Depth
  BY DepthAssumption
<1> HIDE DEF call
<1>3. Flattened(D, flag)[Depth][call] = Flattened(D, flag)[h][call]
  BY <1>1, <1>2, Enough
<1> QED
  BY <1>3 DEF Load, call

\* And pasting ends just as well, for an input file: the text is complete and so is its node, when no more is open
\* than documents are deep, once for each file and once more for the root.
THEOREM PastingEnds ==
  ASSUME NEW D \in Disks, NEW f \in DOMAIN D, ~IsSchema(f), NEW h \in 0..Depth,
         h >= (Cardinality(DOMAIN D) + 1) * (DocHeight + 1)
  PROVE  /\ Texts(D)[Depth][RootCall(D, f)] = Texts(D)[h][RootCall(D, f)]
         /\ Meanings(D, FALSE, FALSE)[Depth][RootCall(D, f)] = Meanings(D, FALSE, FALSE)[h][RootCall(D, f)]
<1> DEFINE call == RootCall(D, f)
<1>1. Input(D, call) /\ Room(D, call, h)
  BY RootHasRoom DEF Input
<1>2. Depth \in h..Depth
  BY DepthAssumption
<1> HIDE DEF call
<1>3. Texts(D)[Depth][call] = Texts(D)[h][call] /\ Means(D)[Depth][call] = Means(D)[h][call]
  BY <1>1, <1>2, TextsEnough, MeansEnough
<1> QED
  BY <1>3 DEF call, Means

\* Without 'override', an input file that follows others is flattened to the node of the text in which
\* their contents are pasted, whenever that text has one in which no sequence has become a map: flattening
\* file by file loses nothing, adds nothing and finds every file (flattenMap, insertNodes, addNodeYaml).
THEOREM CopiesAndPastes ==
  AllIndexed => (Spec => [](~override /\ ~IsSchema(file) => CopyPaste /\ (NoneIndexed(Expected) => FoundFromOwnFolder)))
<1>1. ASSUME AllIndexed
      PROVE  Spec => [](~override /\ ~IsSchema(file) => CopyPaste /\ (NoneIndexed(Expected) => FoundFromOwnFolder))
  <2>1. IInv => (~override /\ ~IsSchema(file) => CopyPaste /\ (NoneIndexed(Expected) => FoundFromOwnFolder))
    <3>1. SUFFICES ASSUME IInv, ~override, ~IsSchema(file), file # NoFile, Expected # Thrown, NoneIndexed(Expected)
                   PROVE  result # Thrown /\ result = Expected
      BY DEF CopyPaste, FoundFromOwnFolder
    <3>2. override = FALSE /\ IsSchema(file) = FALSE
      BY <3>1 DEF IInv, IsSchema
    <3>3. Expected = Means(disk)[Depth][RootCall(disk, file)] /\ result = Load(disk, file, FALSE)
      BY <3>1, <3>2, Zenon DEF Expected, Means, IInv, Loaded
    <3>4. disk \in Disks /\ file \in DOMAIN disk
      BY <3>1 DEF IInv, Loaded
    <3> DEFINE m == Means(disk)[Depth][RootCall(disk, file)]
    <3>5. m # Thrown /\ NoneIndexed(m)
      BY <3>1, <3>3
    <3>6. Load(disk, file, FALSE) # Thrown /\ Load(disk, file, FALSE) = m
      BY <1>1, <3>1, <3>4, <3>5, LoadIsPaste
    <3> QED
      BY <3>3, <3>6
  <2> QED
    BY <2>1, InitLoaded, StepLoaded, PTL DEF Spec
<1> QED
  BY <1>1

=============================================================================
