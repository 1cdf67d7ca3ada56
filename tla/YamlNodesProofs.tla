-------------------------- MODULE YamlNodesProofs --------------------------
(***************************************************************************)
(* What adding the children of one node to another one does, for nodes of  *)
(* any shape and height: the result is a tree, and whatever is in it is    *)
(* from one of the two, or from both.                                      *)
(*                                                                         *)
(* Nodes are compared from the root down, one level after the other: of    *)
(* two nodes at the same place, one is what was there and the other is     *)
(* what becomes of it (Merged), and the same holds of their children.      *)
(***************************************************************************)
EXTENDS YamlNodes, Recursion, SequenceTheorems

\* Every element of a sequence has a key.
AllIndexed == DOMAIN IndexKey = Nat \ {0}

-----------------------------------------------------------------------------
(* Levels.                                                                 *)

Deeper(L, how) ==
  UNION {{<<Append(x[1], key), Inside(x[2], how)[key]>> : key \in DOMAIN Inside(x[2], how)} : x \in L}

\* The levels of a node exist, and each comes from the one above.
LEMMA LevelsDefined ==
  ASSUME NEW n, NEW how
  PROVE  /\ Levels(n, how)[0] = {<< <<>>, n >>}
         /\ \A h \in 1..(Height + 1) : Levels(n, how)[h] = Deeper(Levels(n, how)[h - 1], how)
<1> DEFINE top == {<< <<>>, n >>}
           H == Height + 1
           Body(f) == [h \in 0..H |-> IF h = 0 THEN top ELSE Deeper(f[h - 1], how)]
           T == {m \in 0..H : \E f : f = [h \in 0..m |-> IF h = 0 THEN top ELSE Deeper(f[h - 1], how)]}
<1>0. H \in Nat /\ H \in 0..H
  BY HeightAssumption
<1> HIDE DEF H, top
<1>1. 0 \in T
  <2> DEFINE f == [h \in 0..0 |-> top]
  <2>1. f = [h \in 0..0 |-> IF h = 0 THEN top ELSE Deeper(f[h - 1], how)]
    OBVIOUS
  <2> HIDE DEF f
  <2> QED
    BY <1>0, <2>1
<1>2. ASSUME NEW m \in 0..H, m < H, m \in T PROVE m + 1 \in T
  <2>1. PICK f : f = [h \in 0..m |-> IF h = 0 THEN top ELSE Deeper(f[h - 1], how)]
    BY <1>2
  <2> DEFINE g == [h \in 0..(m + 1) |-> IF h = m + 1 THEN Deeper(f[m], how) ELSE f[h]]
  <2>2. ASSUME NEW h \in 0..(m + 1) PROVE g[h] = IF h = 0 THEN top ELSE Deeper(g[h - 1], how)
    <3>1. CASE h = 0
      BY <1>0, <2>1, <3>1
    <3>2. CASE h # 0 /\ h = m + 1
      BY <1>0, <3>2
    <3>3. CASE h # 0 /\ h # m + 1
      <4>1. h \in 0..m /\ h - 1 \in 0..m /\ h - 1 # m + 1 /\ h - 1 \in 0..(m + 1)
        BY <1>0, <3>3
      <4> QED
        BY <2>1, <3>3, <4>1
    <3> QED
      BY <3>1, <3>2, <3>3
  <2>3. g = [h \in 0..(m + 1) |-> IF h = 0 THEN top ELSE Deeper(g[h - 1], how)]
    <3>1. g = [h \in 0..(m + 1) |-> g[h]]
      OBVIOUS
    <3> HIDE DEF g
    <3> QED
      BY <2>2, <3>1
  <2>4. m + 1 \in 0..H
    BY <1>0, <1>2
  <2> HIDE DEF g
  <2> QED
    BY <2>3, <2>4
<1>3. \E f : f = Body(f)
  <2>1. 0..H \subseteq T
    <3> HIDE DEF T
    <3> QED
      BY <1>0, <1>1, <1>2, Induction
  <2> QED
    BY <1>0, <2>1
<1>4. Levels(n, how) = CHOOSE f : f = Body(f)
  BY DEF Levels, Deeper, H, top
<1>5. Levels(n, how) = Body(Levels(n, how))
  <2> HIDE DEF Body
  <2> QED
    BY <1>3, <1>4
<1>6. ASSUME NEW h \in 0..H
      PROVE  Levels(n, how)[h] = IF h = 0 THEN top ELSE Deeper(Levels(n, how)[h - 1], how)
  <2> DEFINE L == Levels(n, how)
  <2> HIDE DEF L
  <2>1. L = Body(L)
    BY <1>5 DEF L
  <2>2. L[h] = IF h = 0 THEN top ELSE Deeper(L[h - 1], how)
    BY <2>1
  <2> QED
    BY <2>2 DEF L
<1> QED
  BY <1>0, <1>6 DEF top, H

\* What stands in a node has its children one level below.
LEMMA LevelDown ==
  ASSUME NEW n, NEW how, NEW h \in 0..Height, NEW x \in Levels(n, how)[h], NEW key \in DOMAIN Inside(x[2], how)
  PROVE  h + 1 \in 1..(Height + 1) /\ <<Append(x[1], key), Inside(x[2], how)[key]>> \in Levels(n, how)[h + 1]
<1>1. h + 1 \in 1..(Height + 1) /\ (h + 1) - 1 = h
  BY HeightAssumption
<1>2. Levels(n, how)[h + 1] = Deeper(Levels(n, how)[h], how)
  BY <1>1, LevelsDefined
<1> QED
  BY <1>1, <1>2 DEF Deeper

\* And whatever is not the root is a child.
IsChild(y, x, how) == \E key \in DOMAIN Inside(x[2], how) : y = <<Append(x[1], key), Inside(x[2], how)[key]>>
LEMMA LevelUp ==
  ASSUME NEW n, NEW how, NEW h \in 0..Height, NEW y \in Levels(n, how)[h + 1]
  PROVE  \E x \in Levels(n, how)[h] : IsChild(y, x, how)
<1>1. h + 1 \in 1..(Height + 1) /\ (h + 1) - 1 = h
  BY HeightAssumption
<1>2. Levels(n, how)[h + 1] = Deeper(Levels(n, how)[h], how)
  BY <1>1, LevelsDefined
<1> QED
  BY <1>2 DEF Deeper, IsChild

Below(L) ==
  UNION {{<<Children(x[1])[key], x[2].m[key]>> : key \in Shared(x[1], x[2])} : x \in L}

\* The levels of what is in two nodes exist, too.
LEMMA PairLevelsDefined ==
  ASSUME NEW old, NEW value
  PROVE  /\ PairLevels(old, value)[0] = {<<old, value>>}
         /\ \A h \in 1..Height : PairLevels(old, value)[h] = Below(PairLevels(old, value)[h - 1])
<1> DEFINE top == {<<old, value>>}
           H == Height
           Body(f) == [h \in 0..H |-> IF h = 0 THEN top ELSE Below(f[h - 1])]
           T == {m \in 0..H : \E f : f = [h \in 0..m |-> IF h = 0 THEN top ELSE Below(f[h - 1])]}
<1>0. H \in Nat /\ H \in 0..H
  BY HeightAssumption
<1> HIDE DEF H, top
<1>1. 0 \in T
  <2> DEFINE f == [h \in 0..0 |-> top]
  <2>1. f = [h \in 0..0 |-> IF h = 0 THEN top ELSE Below(f[h - 1])]
    OBVIOUS
  <2> HIDE DEF f
  <2> QED
    BY <1>0, <2>1
<1>2. ASSUME NEW m \in 0..H, m < H, m \in T PROVE m + 1 \in T
  <2>1. PICK f : f = [h \in 0..m |-> IF h = 0 THEN top ELSE Below(f[h - 1])]
    BY <1>2
  <2> DEFINE g == [h \in 0..(m + 1) |-> IF h = m + 1 THEN Below(f[m]) ELSE f[h]]
  <2>2. ASSUME NEW h \in 0..(m + 1) PROVE g[h] = IF h = 0 THEN top ELSE Below(g[h - 1])
    <3>1. CASE h = 0
      BY <1>0, <2>1, <3>1
    <3>2. CASE h # 0 /\ h = m + 1
      BY <1>0, <3>2
    <3>3. CASE h # 0 /\ h # m + 1
      <4>1. h \in 0..m /\ h - 1 \in 0..m /\ h - 1 # m + 1 /\ h - 1 \in 0..(m + 1)
        BY <1>0, <3>3
      <4> QED
        BY <2>1, <3>3, <4>1
    <3> QED
      BY <3>1, <3>2, <3>3
  <2>3. g = [h \in 0..(m + 1) |-> IF h = 0 THEN top ELSE Below(g[h - 1])]
    <3>1. g = [h \in 0..(m + 1) |-> g[h]]
      OBVIOUS
    <3> HIDE DEF g
    <3> QED
      BY <2>2, <3>1
  <2>4. m + 1 \in 0..H
    BY <1>0, <1>2
  <2> HIDE DEF g
  <2> QED
    BY <2>3, <2>4
<1>3. \E f : f = Body(f)
  <2>1. 0..H \subseteq T
    <3> HIDE DEF T
    <3> QED
      BY <1>0, <1>1, <1>2, Induction
  <2> QED
    BY <1>0, <2>1
<1>4. PairLevels(old, value) = CHOOSE f : f = Body(f)
  BY DEF PairLevels, Below, H, top
<1>5. PairLevels(old, value) = Body(PairLevels(old, value))
  <2> HIDE DEF Body
  <2> QED
    BY <1>3, <1>4
<1>6. ASSUME NEW h \in 0..H
      PROVE  PairLevels(old, value)[h] = IF h = 0 THEN top ELSE Below(PairLevels(old, value)[h - 1])
  <2> DEFINE L == PairLevels(old, value)
  <2> HIDE DEF L
  <2>1. L = Body(L)
    BY <1>5 DEF L
  <2>2. L[h] = IF h = 0 THEN top ELSE Below(L[h - 1])
    BY <2>1
  <2> QED
    BY <2>2 DEF L
<1> QED
  BY <1>0, <1>6 DEF top, H

\* What is added at a place is in the value, and what is there in the old node, both on
\* that level.
LEMMA PairPlaces ==
  ASSUME NEW old, NEW value
  PROVE  \A h \in 0..Height : \A x \in PairLevels(old, value)[h] :
           /\ x = <<x[1], x[2]>>
           /\ \E p : <<p, x[1]>> \in Levels(old, "nodes")[h] /\ <<p, x[2]>> \in Levels(value, "nodes")[h]
<1> DEFINE Placed(h) == \A x \in PairLevels(old, value)[h] :
             /\ x = <<x[1], x[2]>>
             /\ \E p : <<p, x[1]>> \in Levels(old, "nodes")[h] /\ <<p, x[2]>> \in Levels(value, "nodes")[h]
           T == {h \in 0..Height : Placed(h)}
<1>0. Height \in Nat /\ 0 \in 0..Height
  BY HeightAssumption
<1>1. 0 \in T
  <2>1. PairLevels(old, value)[0] = {<<old, value>>}
    BY PairLevelsDefined
  <2>2. << <<>>, old >> \in Levels(old, "nodes")[0] /\ << <<>>, value >> \in Levels(value, "nodes")[0]
    BY LevelsDefined
  <2>3. \A x \in PairLevels(old, value)[0] : x = <<old, value>> /\ x[1] = old /\ x[2] = value
    BY <2>1
  <2> QED
    BY <1>0, <2>2, <2>3
<1>2. ASSUME NEW h \in 0..Height, h < Height, h \in T PROVE h + 1 \in T
  <2>1. h + 1 \in 1..Height /\ h + 1 \in 0..Height /\ (h + 1) - 1 = h
    BY <1>0, <1>2
  <2>2. ASSUME NEW y \in PairLevels(old, value)[h + 1]
        PROVE  /\ y = <<y[1], y[2]>>
               /\ \E p : /\ <<p, y[1]>> \in Levels(old, "nodes")[h + 1]
                         /\ <<p, y[2]>> \in Levels(value, "nodes")[h + 1]
    <3>1. PairLevels(old, value)[h + 1] = Below(PairLevels(old, value)[h])
      BY <2>1, PairLevelsDefined
    <3>2. PICK x \in PairLevels(old, value)[h] :
            \E key \in Shared(x[1], x[2]) : y = <<Children(x[1])[key], x[2].m[key]>>
      BY <3>1 DEF Below
    <3> PICK key \in Shared(x[1], x[2]) : y = <<Children(x[1])[key], x[2].m[key]>>
      BY <3>2
    <3>3. PICK p : <<p, x[1]>> \in Levels(old, "nodes")[h] /\ <<p, x[2]>> \in Levels(value, "nodes")[h]
      BY <1>2, <3>2
    <3>4. /\ key \in DOMAIN Inside(x[1], "nodes") /\ Inside(x[1], "nodes")[key] = Children(x[1])[key]
          /\ key \in DOMAIN Inside(x[2], "nodes") /\ Inside(x[2], "nodes")[key] = x[2].m[key]
      BY <3>2 DEF Shared, Inside, Children
    <3>5. <<Append(p, key), Children(x[1])[key]>> \in Levels(old, "nodes")[h + 1]
      <4>1. PICK z \in Levels(old, "nodes")[h] : z = <<p, x[1]>> /\ z[1] = p /\ z[2] = x[1]
        BY <3>3
      <4> QED
        BY <3>4, <4>1, LevelDown
    <3>6. <<Append(p, key), x[2].m[key]>> \in Levels(value, "nodes")[h + 1]
      <4>1. PICK z \in Levels(value, "nodes")[h] : z = <<p, x[2]>> /\ z[1] = p /\ z[2] = x[2]
        BY <3>3
      <4> QED
        BY <3>4, <4>1, LevelDown
    <3> QED
      BY <3>2, <3>5, <3>6
  <2> QED
    BY <2>1, <2>2
<1>3. 0..Height \subseteq T
  <2> HIDE DEF T
  <2> QED
    BY <1>0, <1>1, <1>2, Induction
<1> QED
  BY <1>3

-----------------------------------------------------------------------------
(* What becomes of two nodes at one place.                                 *)

\* It depends on what becomes of their children, and on nothing else.
LEMMA MergeLocal ==
  ASSUME NEW old, NEW value, NEW flag, NEW sort, NEW f, NEW g,
         \A key \in Shared(old, value) :
           f[<<Children(old)[key], value.m[key]>>] = g[<<Children(old)[key], value.m[key]>>]
  PROVE  Merge(old, value, flag, sort, f) = Merge(old, value, flag, sort, g)
<1>1. CASE value.t = "map"
  <2> DEFINE there == Children(old)
             With(inner) == [key \in DOMAIN value.m |-> IF key \in DOMAIN there
                                                          THEN inner[<<there[key], value.m[key]>>]
                                                          ELSE value.m[key]]
  <2>1. With(f) = With(g)
    BY <1>1 DEF Shared
  <2>2. AddChildren(old, value.m, f) = AddChildren(old, value.m, g)
    BY <2>1 DEF AddChildren
  <2> QED
    BY <2>2 DEF Merge, MergeYaml, MergeSchema
<1>2. CASE value.t # "map"
  BY <1>2 DEF Merge, MergeYaml, MergeSchema
<1> QED
  BY <1>1, <1>2

\* The children of two nodes are on the next level, if the value is a tree.
LEMMA PairDown ==
  ASSUME NEW old, NEW value, IsTree(value), NEW h \in 0..Height, NEW x \in PairLevels(old, value)[h],
         NEW key \in Shared(x[1], x[2])
  PROVE  /\ h + 1 \in 0..Height
         /\ <<Children(x[1])[key], x[2].m[key]>> \in PairLevels(old, value)[h + 1]
<1>1. h < Height
  <2>1. SUFFICES ASSUME h = Height PROVE FALSE
    BY HeightAssumption
  <2>2. PICK p : <<p, x[2]>> \in Levels(value, "nodes")[h]
    BY PairPlaces
  <2>3. PICK z \in Levels(value, "nodes")[h] : z = <<p, x[2]>> /\ z[2] = x[2]
    BY <2>2
  <2>4. key \in DOMAIN Inside(z[2], "nodes")
    BY <2>3 DEF Shared, Inside, Children
  <2>5. Levels(value, "nodes")[h + 1] # {}
    BY <2>4, LevelDown
  <2> QED
    BY <2>1, <2>5 DEF IsTree
<1>2. h + 1 \in 1..Height /\ h + 1 \in 0..Height /\ (h + 1) - 1 = h
  BY <1>1, HeightAssumption
<1>3. PairLevels(old, value)[h + 1] = Below(PairLevels(old, value)[h])
  BY <1>2, PairLevelsDefined
<1> QED
  BY <1>2, <1>3 DEF Below

\* The recursion of addNodeYaml and addNodeSchema ends, since a tree has a last level: so
\* what becomes of two nodes comes from what becomes of their children.
LEMMA MergedDefined ==
  ASSUME NEW old, NEW children, NEW flag, NEW sort, IsTree(Map(children))
  PROVE  \A x \in Pairs(old, Map(children)) :
           Merged(old, children, flag, sort)[x] =
             Merge(x[1], x[2], flag, sort, Merged(old, children, flag, sort))
<1> DEFINE value == Map(children)
           H == Height
           Level(h) == PairLevels(old, value)[h]
           From(n) == UNION {Level(h) : h \in (H - n)..H}
           Is(f, D) == f = [x \in D |-> Merge(x[1], x[2], flag, sort, f)]
           T == {n \in 0..H : \E f : Is(f, From(n))}
<1>0. H \in Nat /\ 0 \in 0..H /\ H \in 0..H
  BY HeightAssumption
<1>1. ASSUME NEW h \in 0..H, NEW x \in Level(h), NEW key \in Shared(x[1], x[2])
      PROVE  h + 1 \in 0..H /\ <<Children(x[1])[key], x[2].m[key]>> \in Level(h + 1)
  BY <1>1, PairDown
<1> HIDE DEF value, H, Level
<1>2. 0 \in T
  <2> DEFINE f == [x \in From(0) |-> Merge(x[1], x[2], flag, sort, <<>>)]
  <2>1. ASSUME NEW x \in From(0) PROVE f[x] = Merge(x[1], x[2], flag, sort, f)
    <3>1. x \in Level(H)
      BY <1>0
    <3>2. ASSUME NEW key \in Shared(x[1], x[2]) PROVE FALSE
      <4>1. H + 1 \in 0..H
        BY <1>0, <1>1, <3>1
      <4> QED
        BY <1>0, <4>1
    <3>3. Merge(x[1], x[2], flag, sort, <<>>) = Merge(x[1], x[2], flag, sort, f)
      <4> HIDE DEF f
      <4>1. \A key \in Shared(x[1], x[2]) :
              << >>[<<Children(x[1])[key], x[2].m[key]>>] = f[<<Children(x[1])[key], x[2].m[key]>>]
        BY <3>2
      <4> QED
        BY <4>1, MergeLocal
    <3> QED
      BY <3>3
  <2>2. f = [x \in From(0) |-> f[x]]
    OBVIOUS
  <2> HIDE DEF f, From
  <2>3. Is(f, From(0))
    BY <2>1, <2>2
  <2> QED
    BY <1>0, <2>3
<1>3. ASSUME NEW n \in 0..H, n < H, n \in T PROVE n + 1 \in T
  <2>1. PICK f : Is(f, From(n))
    BY <1>3
  <2> DEFINE g == [x \in From(n + 1) |-> IF x \in From(n) THEN f[x] ELSE Merge(x[1], x[2], flag, sort, f)]
  <2>2. ASSUME NEW x \in From(n + 1), NEW key \in Shared(x[1], x[2])
        PROVE  <<Children(x[1])[key], x[2].m[key]>> \in From(n) \cap From(n + 1)
    <3>1. PICK h \in (H - (n + 1))..H : x \in Level(h)
      OBVIOUS
    <3>2. h \in 0..H
      BY <1>0, <1>3, <3>1
    <3>3. h + 1 \in 0..H /\ <<Children(x[1])[key], x[2].m[key]>> \in Level(h + 1)
      BY <1>1, <3>1, <3>2
    <3>4. h + 1 \in (H - n)..H /\ h + 1 \in (H - (n + 1))..H
      BY <1>0, <1>3, <3>1, <3>3
    <3> QED
      BY <3>3, <3>4
  <2>3. From(n) \subseteq From(n + 1)
    <3>1. \A h \in (H - n)..H : h \in (H - (n + 1))..H
      BY <1>0, <1>3
    <3> QED
      BY <3>1
  <2> HIDE DEF From
  <2>4. ASSUME NEW x \in From(n + 1) PROVE g[x] = Merge(x[1], x[2], flag, sort, g)
    <3>1. g[x] = Merge(x[1], x[2], flag, sort, f)
      BY <2>1
    <3>2. \A key \in Shared(x[1], x[2]) :
            f[<<Children(x[1])[key], x[2].m[key]>>] = g[<<Children(x[1])[key], x[2].m[key]>>]
      BY <2>2
    <3>3. Merge(x[1], x[2], flag, sort, f) = Merge(x[1], x[2], flag, sort, g)
      <4> HIDE DEF g
      <4> QED
        BY <3>2, MergeLocal
    <3> QED
      BY <3>1, <3>3
  <2>5. g = [x \in From(n + 1) |-> g[x]]
    OBVIOUS
  <2>6. n + 1 \in 0..H
    BY <1>0, <1>3
  <2> HIDE DEF g
  <2>7. Is(g, From(n + 1))
    BY <2>4, <2>5
  <2> QED
    BY <2>6, <2>7
<1>4. \E f : Is(f, Pairs(old, value))
  <2>1. 0..H \subseteq T
    <3> HIDE DEF T
    <3> QED
      BY <1>0, <1>2, <1>3, Induction
  <2>2. \E f : Is(f, From(H))
    BY <1>0, <2>1
  <2>3. From(H) = Pairs(old, value)
    BY <1>0 DEF Pairs, Level, H
  <2> QED
    BY <2>2, <2>3
<1>5. Merged(old, children, flag, sort) = CHOOSE f : Is(f, Pairs(old, value))
  BY DEF Merged, value
<1>6. Is(Merged(old, children, flag, sort), Pairs(old, value))
  <2> HIDE DEF Is
  <2> QED
    BY <1>4, <1>5
<1> DEFINE M == Merged(old, children, flag, sort)
<1> HIDE DEF M
<1>7. M = [x \in Pairs(old, value) |-> Merge(x[1], x[2], flag, sort, M)]
  BY <1>6 DEF M
<1>8. \A x \in Pairs(old, value) : M[x] = Merge(x[1], x[2], flag, sort, M)
  BY <1>7
<1> QED
  BY <1>8 DEF M, value

-----------------------------------------------------------------------------
(* Children.                                                               *)

\* The children of a sequence are its elements, each under its key.
LEMMA ChildrenOfSequence ==
  ASSUME AllIndexed, NEW n, n.t = "seq", IsNode(n)
  PROVE  /\ DOMAIN Children(n) = {IndexKey[i] : i \in DOMAIN n.s}
         /\ \A i \in DOMAIN n.s : Children(n)[IndexKey[i]] = n.s[i]
<1>1. DOMAIN n.s \subseteq DOMAIN IndexKey
  <2>1. n.s \in Seq(Range(n.s))
    BY DEF IsNode
  <2>2. DOMAIN n.s = 1..Len(n.s) /\ Len(n.s) \in Nat
    BY <2>1
  <2> QED
    BY <2>2 DEF AllIndexed
<1> DEFINE C == [key \in {IndexKey[i] : i \in DOMAIN n.s} |->
                   n.s[CHOOSE i \in DOMAIN n.s : IndexKey[i] = key]]
<1>2. Children(n) = C
  BY DEF Children
<1>3. ASSUME NEW i \in DOMAIN n.s PROVE C[IndexKey[i]] = n.s[i]
  <2> DEFINE j == CHOOSE k \in DOMAIN n.s : IndexKey[k] = IndexKey[i]
  <2>1. j \in DOMAIN n.s /\ IndexKey[j] = IndexKey[i]
    OBVIOUS
  <2>2. j = i
    BY <1>1, <2>1, IndexAssumption
  <2>3. C[IndexKey[i]] = n.s[j]
    OBVIOUS
  <2> QED
    BY <2>2, <2>3
<1> QED
  BY <1>2, <1>3

\* What becomes of a node to which children are added, unless that throws.
LEMMA ChildrenAdded ==
  ASSUME NEW old, NEW children, NEW inner, NEW m, m = AddChildren(old, children, inner), m # Thrown
  PROVE  \/ DOMAIN children = {} /\ m = old
         \/ /\ DOMAIN children # {} /\ old.t # "scalar"
            /\ m.t = "map" /\ m = Map(m.m) /\ DOMAIN m.m = DOMAIN Children(old) \cup DOMAIN children
            /\ \A key \in DOMAIN m.m :
                 \/ /\ key \in DOMAIN Children(old) \cap DOMAIN children
                    /\ m.m[key] = inner[<<Children(old)[key], children[key]>>] /\ m.m[key] # Thrown
                 \/ key \in DOMAIN children \ DOMAIN Children(old) /\ m.m[key] = children[key]
                 \/ key \in DOMAIN Children(old) \ DOMAIN children /\ m.m[key] = Children(old)[key]
<1> DEFINE there == Children(old)
           more == [key \in DOMAIN children |-> IF key \in DOMAIN there
                                                  THEN inner[<<there[key], children[key]>>]
                                                  ELSE children[key]]
           f == [key \in DOMAIN there \cup DOMAIN children |->
                   IF key \in DOMAIN children THEN more[key] ELSE there[key]]
<1>1. CASE DOMAIN children = {}
  BY <1>1 DEF AddChildren
<1>2. CASE DOMAIN children # {}
  <2>1. old.t # "scalar" /\ (\A key \in DOMAIN children : more[key] # Thrown) /\ m = Map(f)
    BY <1>2 DEF AddChildren
  <2>2. m.t = "map" /\ m.m = f
    BY <2>1 DEF Map
  <2>3. ASSUME NEW key \in DOMAIN f
        PROVE  \/ /\ key \in DOMAIN there \cap DOMAIN children
                  /\ f[key] = inner[<<there[key], children[key]>>] /\ f[key] # Thrown
               \/ key \in DOMAIN children \ DOMAIN there /\ f[key] = children[key]
               \/ key \in DOMAIN there \ DOMAIN children /\ f[key] = there[key]
    <3>1. CASE key \in DOMAIN children
      <4>1. f[key] = more[key] /\ more[key] # Thrown
        BY <2>1, <3>1
      <4> QED
        BY <3>1, <4>1
    <3>2. CASE key \notin DOMAIN children
      BY <3>2
    <3> QED
      BY <3>1, <3>2
  <2> QED
    BY <1>2, <2>1, <2>2, <2>3
<1> QED
  BY <1>1, <1>2

\* What becomes of two nodes at one place, unless that throws: one of the two, the elements
\* of both, or their children.
Kept(old, value, sort, m) ==
  /\ m = old /\ (~sort => value.t \in {"seq", "map"})
  /\ value.t = "map" => DOMAIN value.m = {}
  /\ value.t = "seq" => value.s = <<>>
Replaced(old, value, flag, sort, m) == m = value /\ flag /\ (~sort => value.t = "scalar")
Appended(old, value, sort, m) ==
  /\ ~sort /\ value.t = "seq" /\ value.s # <<>> /\ old.t \in {"null", "seq"}
  /\ m = Seq_(IF old.t = "null" THEN value.s ELSE old.s \o value.s)
ChildByChild(old, value, sort, inner, m) ==
  /\ value.t = "map" /\ DOMAIN value.m # {} /\ old.t # "scalar"
  /\ sort => old.t \in {"null", "map"} /\ ~HasAnyReservedKey(old)
  /\ m = AddChildren(old, value.m, inner)

LEMMA MergeCases ==
  ASSUME NEW old, NEW value, IsNode(old), IsNode(value), NEW flag \in BOOLEAN, NEW sort \in BOOLEAN, NEW inner,
         NEW m, m = Merge(old, value, flag, sort, inner), m # Thrown
  PROVE  \/ Kept(old, value, sort, m)
         \/ Replaced(old, value, flag, sort, m)
         \/ Appended(old, value, sort, m)
         \/ ChildByChild(old, value, sort, inner, m)
<1>1. ASSUME value.t = "map", DOMAIN value.m = {}
      PROVE  AddChildren(old, value.m, inner) = old
  BY <1>1 DEF AddChildren
<1>2. ASSUME value.t = "map", DOMAIN value.m # {}, AddChildren(old, value.m, inner) # Thrown
      PROVE  old.t # "scalar"
  BY <1>2 DEF AddChildren
<1>3. CASE ~sort
  <2>1. m = MergeYaml(old, value, flag, inner)
    BY <1>3 DEF Merge
  <2>2. CASE value.t = "scalar"
    BY <1>3, <2>1, <2>2 DEF MergeYaml, Replace, Replaced
  <2>3. CASE value.t = "seq"
    <3>1. m = PushBack(old, value.s)
      BY <2>1, <2>3 DEF MergeYaml
    <3>2. CASE value.s = <<>>
      BY <1>3, <2>3, <3>1, <3>2 DEF PushBack, Kept
    <3>3. CASE value.s # <<>>
      BY <1>3, <2>3, <3>1, <3>3 DEF PushBack, Appended
    <3> QED
      BY <3>2, <3>3
  <2>4. CASE value.t = "map"
    <3>1. m = AddChildren(old, value.m, inner)
      BY <2>1, <2>4 DEF MergeYaml
    <3>2. CASE DOMAIN value.m = {}
      BY <1>1, <2>4, <3>1, <3>2 DEF Kept
    <3>3. CASE DOMAIN value.m # {}
      BY <1>2, <1>3, <2>4, <3>1, <3>3 DEF ChildByChild
    <3> QED
      BY <3>2, <3>3
  <2>5. CASE value.t \notin {"scalar", "seq", "map"}
    BY <2>1, <2>5 DEF MergeYaml
  <2> QED
    BY <2>2, <2>3, <2>4, <2>5
<1>4. CASE sort
  <2>1. m = MergeSchema(old, value, flag, inner)
    BY <1>4 DEF Merge
  <2>2. CASE IsSpecification(old) \/ old.t \in {"scalar", "seq"}
    BY <1>4, <2>1, <2>2 DEF MergeSchema, Replace, Replaced
  <2>3. CASE ~(IsSpecification(old) \/ old.t \in {"scalar", "seq"})
    <3>1. ~HasAnyReservedKey(old) /\ old.t \in {"null", "map"}
      BY <2>1, <2>3 DEF MergeSchema, IsNode
    <3>2. m = CASE value.t = "map" -> AddChildren(old, value.m, inner)
                [] value.t = "seq" /\ value.s # <<>> -> Thrown
                [] OTHER -> old
      BY <2>1, <2>3, <3>1 DEF MergeSchema
    <3>3. CASE value.t # "map"
      BY <1>4, <3>2, <3>3 DEF Kept
    <3>4. CASE value.t = "map" /\ DOMAIN value.m = {}
      BY <1>1, <1>4, <3>2, <3>4 DEF Kept
    <3>5. CASE value.t = "map" /\ DOMAIN value.m # {}
      BY <1>2, <1>4, <3>1, <3>2, <3>5 DEF ChildByChild
    <3> QED
      BY <3>3, <3>4, <3>5
  <2> QED
    BY <2>2, <2>3
<1> QED
  BY <1>3, <1>4

\* Two trees are compared at nodes.
LEMMA PairNodes ==
  ASSUME NEW old, NEW value, IsTree(old), IsTree(value), NEW h \in 0..Height, NEW x \in PairLevels(old, value)[h]
  PROVE  IsNode(x[1]) /\ IsNode(x[2])
<1>1. PICK p : <<p, x[1]>> \in Levels(old, "nodes")[h] /\ <<p, x[2]>> \in Levels(value, "nodes")[h]
  BY PairPlaces
<1>2. <<p, x[1]>> \in Places(old, "nodes") /\ <<p, x[2]>> \in Places(value, "nodes")
  BY <1>1 DEF Places
<1>3. IsNode(<<p, x[1]>>[2]) /\ IsNode(<<p, x[2]>>[2])
  BY <1>2 DEF IsTree
<1> QED
  BY <1>3

\* One sequence after the other.
LEMMA Concatenation ==
  ASSUME NEW a, NEW b, a \in Seq(Range(a)), b \in Seq(Range(b))
  PROVE  /\ a \o b \in Seq(Range(a \o b)) /\ DOMAIN (a \o b) = 1..(Len(a) + Len(b))
         /\ Len(a) \in Nat /\ Len(b) \in Nat /\ DOMAIN a = 1..Len(a) /\ DOMAIN b = 1..Len(b)
         /\ \A i \in DOMAIN a : (a \o b)[i] = a[i]
         /\ \A j \in DOMAIN b : Len(a) + j \in DOMAIN (a \o b) /\ (a \o b)[Len(a) + j] = b[j]
<1> DEFINE S == Range(a) \cup Range(b)
           c == a \o b
<1>1. a \in Seq(S) /\ b \in Seq(S)
  <2>1. Range(a) \subseteq S /\ Range(b) \subseteq S
    OBVIOUS
  <2> HIDE DEF S
  <2> QED
    BY <2>1
<1> HIDE DEF S
<1>2. /\ c \in Seq(S) /\ Len(c) = Len(a) + Len(b)
      /\ Len(a) \in Nat /\ Len(b) \in Nat /\ DOMAIN a = 1..Len(a) /\ DOMAIN b = 1..Len(b)
      /\ DOMAIN c = 1..(Len(a) + Len(b))
      /\ \A i \in 1..Len(a) : c[i] = a[i]
      /\ \A i \in 1..(Len(a) + Len(b)) : c[i] = IF i <= Len(a) THEN a[i] ELSE b[i - Len(a)]
  BY <1>1
<1> HIDE DEF c
<1>3. c \in Seq(Range(c))
  <2>1. c = [i \in 1..Len(c) |-> c[i]] /\ Len(c) \in Nat
    BY <1>2
  <2>2. \A i \in 1..Len(c) : c[i] \in Range(c)
    BY <1>2 DEF Range
  <2> QED
    BY <2>1, <2>2
<1>4. ASSUME NEW j \in DOMAIN b PROVE Len(a) + j \in DOMAIN c /\ c[Len(a) + j] = b[j]
  <2>1. Len(a) + j \in 1..(Len(a) + Len(b)) /\ ~(Len(a) + j <= Len(a)) /\ (Len(a) + j) - Len(a) = j
    BY <1>2
  <2> QED
    BY <1>2, <2>1
<1> QED
  BY <1>2, <1>3, <1>4 DEF c

-----------------------------------------------------------------------------
(* The addition of all children of a map, at the root.                     *)

\* What became of a pair on level h, when the children were added to the old node.
Made(old, children, flag, sort, h, x, m) ==
  /\ x \in PairLevels(old, Map(children))[h] /\ m # Thrown
  /\ m = IF h = 0 THEN AddMap(old, children, flag, sort) ELSE Merged(old, children, flag, sort)[x]

\* Child by child: what is on both sides was merged one level below, and the rest stays.
MadeOfChildren(old, children, flag, sort, h, x, m) ==
  /\ x[2].t = "map" /\ DOMAIN x[2].m # {} /\ x[1].t # "scalar"
  /\ sort /\ h # 0 => x[1].t \in {"null", "map"} /\ ~HasAnyReservedKey(x[1])
  /\ m.t = "map" /\ DOMAIN m.m = DOMAIN Children(x[1]) \cup DOMAIN x[2].m
  /\ \A key \in DOMAIN m.m :
       \/ /\ key \in DOMAIN Children(x[1]) \cap DOMAIN x[2].m /\ h + 1 \in 0..Height
          /\ Made(old, children, flag, sort, h + 1, <<Children(x[1])[key], x[2].m[key]>>, m.m[key])
       \/ key \in DOMAIN x[2].m \ DOMAIN Children(x[1]) /\ m.m[key] = x[2].m[key]
       \/ key \in DOMAIN Children(x[1]) \ DOMAIN x[2].m /\ m.m[key] = Children(x[1])[key]

\* The same cases, for all pairs.  At the root a specification is no reason to stop.
LEMMA MadeCases ==
  ASSUME NEW old, NEW children, IsTree(old), IsTree(Map(children)), NEW flag \in BOOLEAN, NEW sort \in BOOLEAN,
         NEW h \in 0..Height, NEW x, NEW m, Made(old, children, flag, sort, h, x, m)
  PROVE  \/ Kept(x[1], x[2], sort, m)
         \/ Replaced(x[1], x[2], flag, sort, m)
         \/ Appended(x[1], x[2], sort, m)
         \/ MadeOfChildren(old, children, flag, sort, h, x, m)
<1> DEFINE M == Merged(old, children, flag, sort)
<1> HIDE DEF M
<1>1. x \in PairLevels(old, Map(children))[h] /\ m # Thrown /\ x \in Pairs(old, Map(children))
  BY DEF Made, Pairs
<1>2. ASSUME x[2].t = "map", DOMAIN x[2].m # {},
             sort /\ h # 0 => x[1].t \in {"null", "map"} /\ ~HasAnyReservedKey(x[1]),
             m = AddChildren(x[1], x[2].m, M)
      PROVE  MadeOfChildren(old, children, flag, sort, h, x, m)
  <2>1. /\ x[1].t # "scalar"
        /\ m.t = "map" /\ m = Map(m.m) /\ DOMAIN m.m = DOMAIN Children(x[1]) \cup DOMAIN x[2].m
        /\ \A key \in DOMAIN m.m :
             \/ /\ key \in DOMAIN Children(x[1]) \cap DOMAIN x[2].m
                /\ m.m[key] = M[<<Children(x[1])[key], x[2].m[key]>>] /\ m.m[key] # Thrown
             \/ key \in DOMAIN x[2].m \ DOMAIN Children(x[1]) /\ m.m[key] = x[2].m[key]
             \/ key \in DOMAIN Children(x[1]) \ DOMAIN x[2].m /\ m.m[key] = Children(x[1])[key]
    BY <1>1, <1>2, ChildrenAdded
  <2>2. ASSUME NEW key \in DOMAIN Children(x[1]) \cap DOMAIN x[2].m,
               m.m[key] = M[<<Children(x[1])[key], x[2].m[key]>>], m.m[key] # Thrown
        PROVE  /\ h + 1 \in 0..Height
               /\ Made(old, children, flag, sort, h + 1, <<Children(x[1])[key], x[2].m[key]>>, m.m[key])
    <3>1. key \in Shared(x[1], x[2])
      BY <1>2 DEF Shared
    <3>2. /\ h + 1 \in 0..Height
          /\ <<Children(x[1])[key], x[2].m[key]>> \in PairLevels(old, Map(children))[h + 1]
      BY <1>1, <3>1, PairDown
    <3>3. h + 1 # 0
      OBVIOUS
    <3> QED
      BY <2>2, <3>2, <3>3 DEF Made, M
  <2> QED
    BY <1>2, <2>1, <2>2 DEF MadeOfChildren
<1>3. CASE h = 0
  <2>1. x = <<old, Map(children)>> /\ x[1] = old /\ x[2] = Map(children)
    BY <1>1, <1>3, PairLevelsDefined
  <2>2. x[2].t = "map" /\ x[2].m = children
    BY <2>1 DEF Map
  <2>3. m = AddChildren(x[1], x[2].m, M)
    BY <1>3, <2>1, <2>2 DEF Made, AddMap, M
  <2>4. CASE DOMAIN children = {}
    BY <2>2, <2>3, <2>4 DEF AddChildren, Kept
  <2>5. CASE DOMAIN children # {}
    BY <1>2, <1>3, <2>2, <2>3, <2>5
  <2> QED
    BY <2>4, <2>5
<1>4. CASE h # 0
  <2>1. m = Merge(x[1], x[2], flag, sort, M)
    BY <1>1, <1>4, MergedDefined DEF Made, M
  <2>2. IsNode(x[1]) /\ IsNode(x[2])
    BY <1>1, PairNodes
  <2>3. \/ Kept(x[1], x[2], sort, m)
        \/ Replaced(x[1], x[2], flag, sort, m)
        \/ Appended(x[1], x[2], sort, m)
        \/ ChildByChild(x[1], x[2], sort, M, m)
    BY <1>1, <2>1, <2>2, MergeCases
  <2>4. ChildByChild(x[1], x[2], sort, M, m) => MadeOfChildren(old, children, flag, sort, h, x, m)
    BY <1>2 DEF ChildByChild
  <2> QED
    BY <2>3, <2>4
<1> QED
  BY <1>3, <1>4

-----------------------------------------------------------------------------
(* Type correctness.                                                       *)

\* Where a node within the result is from: the old node, what is added, or both.
Found(n, h, m) == \E p : <<p, m>> \in Levels(n, "nodes")[h]
From(old, children, flag, sort, h, m) ==
  \/ Found(old, h, m) \/ Found(Map(children), h, m)
  \/ h \in 0..Height /\ \E x : Made(old, children, flag, sort, h, x, m)

LEMMA FoundDown ==
  ASSUME NEW n, NEW h \in 0..Height, NEW m, Found(n, h, m), NEW key \in DOMAIN Children(m)
  PROVE  Found(n, h + 1, Children(m)[key])
<1>1. PICK p : <<p, m>> \in Levels(n, "nodes")[h]
  BY DEF Found
<1>2. PICK z \in Levels(n, "nodes")[h] : z = <<p, m>> /\ z[1] = p /\ z[2] = m
  BY <1>1
<1>3. key \in DOMAIN Inside(z[2], "nodes") /\ Inside(z[2], "nodes")[key] = Children(m)[key]
  BY <1>2 DEF Inside
<1> QED
  BY <1>3, LevelDown DEF Found

\* In a tree, what is found is a node, and nothing is below the last level.
LEMMA FoundIsNode ==
  ASSUME NEW n, IsTree(n)
  PROVE  /\ \A h \in 0..Height : \A m : Found(n, h, m) => IsNode(m)
         /\ \A m : ~Found(n, Height + 1, m)
<1>1. ASSUME NEW h \in 0..Height, NEW m, Found(n, h, m) PROVE IsNode(m)
  <2>1. PICK p : <<p, m>> \in Levels(n, "nodes")[h]
    BY <1>1 DEF Found
  <2>2. <<p, m>> \in Places(n, "nodes")
    BY <2>1 DEF Places
  <2>3. IsNode(<<p, m>>[2])
    BY <2>2 DEF IsTree
  <2> QED
    BY <2>3
<1>2. ASSUME NEW m, Found(n, Height + 1, m) PROVE FALSE
  BY <1>2 DEF Found, IsTree
<1> QED
  BY <1>1, <1>2

\* Both sides of a pair are found on its level.
LEMMA PairFound ==
  ASSUME NEW old, NEW children, NEW h \in 0..Height, NEW x \in PairLevels(old, Map(children))[h]
  PROVE  Found(old, h, x[1]) /\ Found(Map(children), h, x[2])
BY PairPlaces DEF Found

\* A node within the result is a node, and its children are from one of the three again.
LEMMA FromDown ==
  ASSUME AllIndexed, NEW old, NEW children, IsTree(old), IsTree(Map(children)),
         NEW flag \in BOOLEAN, NEW sort \in BOOLEAN,
         NEW h \in 0..Height, NEW m, From(old, children, flag, sort, h, m)
  PROVE  /\ IsNode(m)
         /\ \A key \in DOMAIN Children(m) : From(old, children, flag, sort, h + 1, Children(m)[key])
<1>1. CASE Found(old, h, m)
  BY <1>1, FoundIsNode, FoundDown DEF From
<1>2. CASE Found(Map(children), h, m)
  BY <1>2, FoundIsNode, FoundDown DEF From
<1>3. ASSUME NEW x, Made(old, children, flag, sort, h, x, m)
      PROVE  /\ IsNode(m)
             /\ \A key \in DOMAIN Children(m) : From(old, children, flag, sort, h + 1, Children(m)[key])
  <2>1. Found(old, h, x[1]) /\ Found(Map(children), h, x[2]) /\ IsNode(x[1]) /\ IsNode(x[2])
    BY <1>3, PairFound, FoundIsNode DEF Made
  <2>2. CASE m \in {x[1], x[2]}
    BY <1>1, <1>2, <2>1, <2>2
  <2>3. CASE Appended(x[1], x[2], sort, m)
    <3> DEFINE s == IF x[1].t = "null" THEN x[2].s ELSE x[1].s \o x[2].s
    <3>1. m.t = "seq" /\ m.s = s /\ x[2].t = "seq" /\ x[2].s \in Seq(Range(x[2].s))
          /\ (x[1].t # "null" => x[1].t = "seq" /\ x[1].s \in Seq(Range(x[1].s)))
      BY <2>1, <2>3 DEF Appended, Seq_, IsNode
    <3>2. s \in Seq(Range(s))
      BY <3>1, Concatenation
    <3>3. IsNode(m)
      BY <3>1, <3>2 DEF IsNode
    <3>4. ASSUME NEW i \in DOMAIN s
          PROVE  \/ x[1].t = "seq" /\ \E j \in DOMAIN x[1].s : s[i] = x[1].s[j]
                 \/ \E j \in DOMAIN x[2].s : s[i] = x[2].s[j]
      <4>1. CASE x[1].t = "null"
        BY <4>1
      <4>2. CASE x[1].t # "null"
        <5> DEFINE a == x[1].s
                   b == x[2].s
        <5>1. a \in Seq(Range(a)) /\ b \in Seq(Range(b)) /\ x[1].t = "seq" /\ s = a \o b
          BY <3>1, <4>2
        <5> HIDE DEF a, b, s
        <5>2. i \in 1..(Len(a) + Len(b)) /\ Len(a) \in Nat /\ Len(b) \in Nat
          BY <5>1, Concatenation
        <5>3. CASE i <= Len(a)
          <6>1. i \in DOMAIN a /\ s[i] = a[i]
            BY <5>1, <5>2, <5>3, Concatenation
          <6> QED
            BY <5>1, <6>1 DEF a
        <5>4. CASE ~(i <= Len(a))
          <6>1. i - Len(a) \in 1..Len(b) /\ Len(a) + (i - Len(a)) = i
            BY <5>2, <5>4
          <6>2. i - Len(a) \in DOMAIN b /\ s[i] = b[i - Len(a)]
            BY <5>1, <6>1, Concatenation
          <6> QED
            BY <6>2 DEF b
        <5> QED
          BY <5>3, <5>4
      <4> QED
        BY <4>1, <4>2
    <3>5. ASSUME NEW key \in DOMAIN Children(m)
          PROVE  From(old, children, flag, sort, h + 1, Children(m)[key])
      <4>1. PICK i \in DOMAIN s : key = IndexKey[i] /\ Children(m)[key] = s[i]
        <5>1. m.s = s /\ m.t = "seq"
          BY <3>1
        <5> HIDE DEF s
        <5>2. /\ DOMAIN Children(m) = {IndexKey[i] : i \in DOMAIN m.s}
              /\ \A i \in DOMAIN m.s : Children(m)[IndexKey[i]] = m.s[i]
          BY <3>3, <5>1, ChildrenOfSequence
        <5> QED
          BY <5>1, <5>2
      <4>2. CASE x[1].t = "seq" /\ \E j \in DOMAIN x[1].s : s[i] = x[1].s[j]
        <5>1. PICK j \in DOMAIN x[1].s : s[i] = x[1].s[j]
          BY <4>2
        <5>2. IndexKey[j] \in DOMAIN Children(x[1]) /\ Children(x[1])[IndexKey[j]] = s[i]
          BY <2>1, <4>2, <5>1, ChildrenOfSequence
        <5> QED
          BY <2>1, <4>1, <5>2, FoundDown DEF From
      <4>3. CASE \E j \in DOMAIN x[2].s : s[i] = x[2].s[j]
        <5>1. PICK j \in DOMAIN x[2].s : s[i] = x[2].s[j]
          BY <4>3
        <5>2. IndexKey[j] \in DOMAIN Children(x[2]) /\ Children(x[2])[IndexKey[j]] = s[i]
          BY <2>1, <3>1, <5>1, ChildrenOfSequence
        <5> QED
          BY <2>1, <4>1, <5>2, FoundDown DEF From
      <4> QED
        BY <3>4, <4>1, <4>2, <4>3
    <3> QED
      BY <3>3, <3>5
  <2>4. CASE MadeOfChildren(old, children, flag, sort, h, x, m)
    <3>1. m.t = "map" /\ Children(m) = m.m
      BY <2>4 DEF MadeOfChildren, Children
    <3>2. ASSUME NEW key \in DOMAIN m.m PROVE From(old, children, flag, sort, h + 1, m.m[key])
      <4>1. CASE /\ key \in DOMAIN Children(x[1]) \cap DOMAIN x[2].m /\ h + 1 \in 0..Height
                 /\ Made(old, children, flag, sort, h + 1, <<Children(x[1])[key], x[2].m[key]>>, m.m[key])
        BY <4>1 DEF From
      <4>2. CASE key \in DOMAIN x[2].m \ DOMAIN Children(x[1]) /\ m.m[key] = x[2].m[key]
        <5>1. key \in DOMAIN Children(x[2]) /\ Children(x[2])[key] = m.m[key]
          BY <2>4, <4>2 DEF MadeOfChildren, Children
        <5> QED
          BY <2>1, <5>1, FoundDown DEF From
      <4>3. CASE key \in DOMAIN Children(x[1]) \ DOMAIN x[2].m /\ m.m[key] = Children(x[1])[key]
        BY <2>1, <4>3, FoundDown DEF From
      <4> QED
        BY <2>4, <4>1, <4>2, <4>3 DEF MadeOfChildren
    <3> QED
      BY <3>1, <3>2 DEF IsNode
  <2> QED
    BY <1>3, <2>2, <2>3, <2>4, MadeCases DEF Kept, Replaced
<1> QED
  BY <1>1, <1>2, <1>3 DEF From

\* So whatever is in the result is from one of the three.
LEMMA AddedFrom ==
  ASSUME AllIndexed, NEW old, NEW children, IsTree(old), IsTree(Map(children)),
         NEW flag \in BOOLEAN, NEW sort \in BOOLEAN, AddMap(old, children, flag, sort) # Thrown
  PROVE  \A h \in 0..(Height + 1) : \A y \in Levels(AddMap(old, children, flag, sort), "nodes")[h] :
           From(old, children, flag, sort, h, y[2])
<1> DEFINE m == AddMap(old, children, flag, sort)
           T == {h \in 0..(Height + 1) : \A y \in Levels(m, "nodes")[h] : From(old, children, flag, sort, h, y[2])}
<1>0. Height \in Nat /\ 0 \in 0..Height /\ 0 \in 0..(Height + 1) /\ Height + 1 \in Nat
  BY HeightAssumption
<1>1. 0 \in T
  <2>1. Levels(m, "nodes")[0] = {<< <<>>, m >>}
    BY LevelsDefined
  <2>2. Made(old, children, flag, sort, 0, <<old, Map(children)>>, m)
    BY PairLevelsDefined DEF Made
  <2>3. From(old, children, flag, sort, 0, m)
    BY <1>0, <2>2 DEF From
  <2> QED
    BY <1>0, <2>1, <2>3
<1> HIDE DEF m
<1>2. ASSUME NEW h \in 0..(Height + 1), h < Height + 1, h \in T PROVE h + 1 \in T
  <2>1. h \in 0..Height /\ h + 1 \in 0..(Height + 1)
    BY <1>0, <1>2
  <2>2. ASSUME NEW y \in Levels(m, "nodes")[h + 1] PROVE From(old, children, flag, sort, h + 1, y[2])
    <3>1. PICK x \in Levels(m, "nodes")[h] : IsChild(y, x, "nodes")
      BY <2>1, LevelUp
    <3>2. PICK key \in DOMAIN Children(x[2]) : y = <<Append(x[1], key), Children(x[2])[key]>>
      BY <3>1 DEF IsChild, Inside
    <3>3. From(old, children, flag, sort, h, x[2])
      BY <1>2
    <3>4. From(old, children, flag, sort, h + 1, Children(x[2])[key])
      BY <2>1, <3>3, FromDown
    <3> QED
      BY <3>2, <3>4
  <2> QED
    BY <2>1, <2>2
<1>3. 0..(Height + 1) \subseteq T
  <2> HIDE DEF T
  <2> QED
    BY <1>0, <1>1, <1>2, Induction
<1> QED
  BY <1>3 DEF m

\* A node is the same tree as ever after an addition.
LEMMA AddedTree ==
  ASSUME AllIndexed, NEW old, NEW children, IsTree(old), IsTree(Map(children)),
         NEW flag \in BOOLEAN, NEW sort \in BOOLEAN, AddMap(old, children, flag, sort) # Thrown
  PROVE  IsTree(AddMap(old, children, flag, sort))
<1> DEFINE m == AddMap(old, children, flag, sort)
<1>0. Height \in Nat
  BY HeightAssumption
<1>1. \A h \in 0..(Height + 1) : \A y \in Levels(m, "nodes")[h] : From(old, children, flag, sort, h, y[2])
  BY AddedFrom
<1> HIDE DEF m
<1>2. ASSUME NEW x \in Places(m, "nodes") PROVE IsNode(x[2])
  <2>1. PICK h \in 0..Height : x \in Levels(m, "nodes")[h]
    BY DEF Places
  <2>2. h \in 0..(Height + 1)
    BY <1>0
  <2>3. From(old, children, flag, sort, h, x[2])
    BY <1>1, <2>1, <2>2
  <2> QED
    BY <2>3, FromDown
<1>3. ASSUME NEW x \in Levels(m, "nodes")[Height + 1] PROVE FALSE
  <2>1. Height + 1 \in 0..(Height + 1) /\ Height + 1 \notin 0..Height
    BY <1>0
  <2>2. From(old, children, flag, sort, Height + 1, x[2])
    BY <1>1, <2>1
  <2> QED
    BY <2>1, <2>2, FoundIsNode DEF From
<1> QED
  BY <1>2, <1>3 DEF IsTree, m

\* It is not higher than what was added and what was there.
LEMMA AddedHeight ==
  ASSUME AllIndexed, NEW old, NEW children, IsTree(old), IsTree(Map(children)),
         NEW flag \in BOOLEAN, NEW sort \in BOOLEAN, AddMap(old, children, flag, sort) # Thrown,
         NEW h \in 0..(Height + 1), Levels(old, "nodes")[h] = {}, Levels(Map(children), "nodes")[h] = {}
  PROVE  Levels(AddMap(old, children, flag, sort), "nodes")[h] = {}
<1> SUFFICES ASSUME NEW y \in Levels(AddMap(old, children, flag, sort), "nodes")[h] PROVE FALSE
  OBVIOUS
<1>1. From(old, children, flag, sort, h, y[2])
  BY AddedFrom
<1>2. ~Found(old, h, y[2]) /\ ~Found(Map(children), h, y[2])
  BY DEF Found
<1>3. PICK x : h \in 0..Height /\ Made(old, children, flag, sort, h, x, y[2])
  BY <1>1, <1>2 DEF From
<1>4. Found(old, h, x[1])
  BY <1>3, PairFound DEF Made
<1> QED
  BY <1>4 DEF Found

\* And it has no scalars but theirs.
LEMMA AddedScalars ==
  ASSUME AllIndexed, NEW old, NEW children, IsTree(old), IsTree(Map(children)),
         NEW flag \in BOOLEAN, NEW sort \in BOOLEAN, AddMap(old, children, flag, sort) # Thrown,
         NEW y \in Places(AddMap(old, children, flag, sort), "nodes"), y[2].t = "scalar"
  PROVE  \E z \in Places(old, "nodes") \cup Places(Map(children), "nodes") : z[2] = y[2]
<1>0. Height \in Nat
  BY HeightAssumption
<1>1. PICK h \in 0..Height : y \in Levels(AddMap(old, children, flag, sort), "nodes")[h]
  BY DEF Places
<1>2. From(old, children, flag, sort, h, y[2])
  <2>1. h \in 0..(Height + 1)
    BY <1>0
  <2> QED
    BY <1>1, <2>1, AddedFrom
<1>3. ASSUME Found(old, h, y[2]) \/ Found(Map(children), h, y[2])
      PROVE  \E z \in Places(old, "nodes") \cup Places(Map(children), "nodes") : z[2] = y[2]
  <2>1. PICK p : <<p, y[2]>> \in Levels(old, "nodes")[h] \cup Levels(Map(children), "nodes")[h]
    BY <1>3 DEF Found
  <2>2. <<p, y[2]>> \in Places(old, "nodes") \cup Places(Map(children), "nodes") /\ <<p, y[2]>>[2] = y[2]
    BY <2>1 DEF Places
  <2> QED
    BY <2>2
<1>4. ASSUME NEW x, Made(old, children, flag, sort, h, x, y[2])
      PROVE  Found(old, h, y[2]) \/ Found(Map(children), h, y[2])
  <2>1. Found(old, h, x[1]) /\ Found(Map(children), h, x[2])
    BY <1>4, PairFound DEF Made
  <2>2. ~Appended(x[1], x[2], sort, y[2])
    BY DEF Appended, Seq_
  <2>3. ~MadeOfChildren(old, children, flag, sort, h, x, y[2])
    BY DEF MadeOfChildren
  <2> QED
    BY <1>4, <2>1, <2>2, <2>3, MadeCases DEF Kept, Replaced
<1> QED
  BY <1>2, <1>3, <1>4 DEF From

-----------------------------------------------------------------------------
(* A node and its children, each of them as a tree.                        *)

\* What is in a node is the node itself or in one of its children, one level above.
LEMMA LevelOfChild ==
  ASSUME NEW n, NEW h \in 0..Height, NEW y \in Levels(n, "nodes")[h + 1]
  PROVE  \E key \in DOMAIN Children(n) : \E z \in Levels(Children(n)[key], "nodes")[h] : z[2] = y[2]
<1> DEFINE In(k, x) == \E key \in DOMAIN Children(n) : \E z \in Levels(Children(n)[key], "nodes")[k] : z[2] = x[2]
           T == {k \in 0..Height : \A x \in Levels(n, "nodes")[k + 1] : In(k, x)}
<1>0. Height \in Nat /\ 0 \in 0..Height
  BY HeightAssumption
<1>1. 0 \in T
  <2>1. ASSUME NEW x \in Levels(n, "nodes")[0 + 1] PROVE In(0, x)
    <3>1. PICK top \in Levels(n, "nodes")[0] : IsChild(x, top, "nodes")
      BY <1>0, LevelUp
    <3>2. top = << <<>>, n >> /\ top[2] = n
      BY <3>1, LevelsDefined
    <3>3. PICK key \in DOMAIN Children(n) : x[2] = Children(n)[key]
      BY <3>1, <3>2 DEF IsChild, Inside
    <3>4. << <<>>, Children(n)[key] >> \in Levels(Children(n)[key], "nodes")[0]
      BY LevelsDefined
    <3>5. << <<>>, Children(n)[key] >>[2] = x[2]
      BY <3>3
    <3> QED
      BY <3>4, <3>5
  <2> QED
    BY <1>0, <2>1
<1>2. ASSUME NEW k \in 0..Height, k < Height, k \in T PROVE k + 1 \in T
  <2>1. k + 1 \in 0..Height
    BY <1>0, <1>2
  <2>2. ASSUME NEW x \in Levels(n, "nodes")[(k + 1) + 1] PROVE In(k + 1, x)
    <3>1. PICK w \in Levels(n, "nodes")[k + 1] : IsChild(x, w, "nodes")
      BY <2>1, LevelUp
    <3>2. PICK inner \in DOMAIN Children(w[2]) : x[2] = Children(w[2])[inner]
      BY <3>1 DEF IsChild, Inside
    <3>3. PICK key \in DOMAIN Children(n) : \E z \in Levels(Children(n)[key], "nodes")[k] : z[2] = w[2]
      BY <1>2
    <3>4. PICK z \in Levels(Children(n)[key], "nodes")[k] : z[2] = w[2]
      BY <3>3
    <3>5. inner \in DOMAIN Inside(z[2], "nodes") /\ Inside(z[2], "nodes")[inner] = x[2]
      BY <3>2, <3>4 DEF Inside
    <3>6. <<Append(z[1], inner), x[2]>> \in Levels(Children(n)[key], "nodes")[k + 1]
      BY <3>5, LevelDown
    <3>7. <<Append(z[1], inner), x[2]>>[2] = x[2]
      OBVIOUS
    <3> QED
      BY <3>6, <3>7
  <2> QED
    BY <2>1, <2>2
<1>3. 0..Height \subseteq T
  <2> HIDE DEF T
  <2> QED
    BY <1>0, <1>1, <1>2, Induction
<1> QED
  BY <1>3

\* And what is in a child is in the node, one level below.
LEMMA LevelOfParent ==
  ASSUME NEW n, NEW key \in DOMAIN Children(n), NEW h \in 0..Height, NEW z \in Levels(Children(n)[key], "nodes")[h]
  PROVE  \E y \in Levels(n, "nodes")[h + 1] : y[2] = z[2]
<1> DEFINE c == Children(n)[key]
           T == {k \in 0..Height : \A x \in Levels(c, "nodes")[k] : \E y \in Levels(n, "nodes")[k + 1] : y[2] = x[2]}
<1>0. Height \in Nat /\ 0 \in 0..Height
  BY HeightAssumption
<1>1. 0 \in T
  <2>1. Levels(c, "nodes")[0] = {<< <<>>, c >>} /\ Levels(n, "nodes")[0] = {<< <<>>, n >>}
    BY LevelsDefined
  <2>2. << <<>>, n >> \in Levels(n, "nodes")[0] /\ << <<>>, n >>[2] = n
    BY <2>1
  <2>3. PICK top \in Levels(n, "nodes")[0] : top[2] = n
    BY <2>2
  <2>4. key \in DOMAIN Inside(top[2], "nodes") /\ Inside(top[2], "nodes")[key] = c
    BY <2>3 DEF Inside
  <2> HIDE DEF c
  <2>5. <<Append(top[1], key), c>> \in Levels(n, "nodes")[0 + 1]
    BY <1>0, <2>4, LevelDown
  <2>6. <<Append(top[1], key), c>>[2] = c /\ \A x \in Levels(c, "nodes")[0] : x[2] = c
    BY <2>1
  <2>7. \A x \in Levels(c, "nodes")[0] : \E y \in Levels(n, "nodes")[0 + 1] : y[2] = x[2]
    BY <2>5, <2>6
  <2> QED
    BY <1>0, <2>7
<1> HIDE DEF c
<1>2. ASSUME NEW k \in 0..Height, k < Height, k \in T PROVE k + 1 \in T
  <2>1. k + 1 \in 0..Height
    BY <1>0, <1>2
  <2>2. ASSUME NEW x \in Levels(c, "nodes")[k + 1] PROVE \E y \in Levels(n, "nodes")[(k + 1) + 1] : y[2] = x[2]
    <3>1. PICK w \in Levels(c, "nodes")[k] : IsChild(x, w, "nodes")
      BY LevelUp
    <3>2. PICK inner \in DOMAIN Children(w[2]) : x[2] = Children(w[2])[inner]
      BY <3>1 DEF IsChild, Inside
    <3>3. PICK v \in Levels(n, "nodes")[k + 1] : v[2] = w[2]
      BY <1>2
    <3>4. inner \in DOMAIN Inside(v[2], "nodes") /\ Inside(v[2], "nodes")[inner] = x[2]
      BY <3>2, <3>3 DEF Inside
    <3>5. <<Append(v[1], inner), x[2]>> \in Levels(n, "nodes")[(k + 1) + 1]
      BY <2>1, <3>4, LevelDown
    <3>6. <<Append(v[1], inner), x[2]>>[2] = x[2]
      OBVIOUS
    <3> QED
      BY <3>5, <3>6
  <2> QED
    BY <2>1, <2>2
<1>3. 0..Height \subseteq T
  <2> HIDE DEF T
  <2> QED
    BY <1>0, <1>1, <1>2, Induction
<1> QED
  BY <1>3 DEF c

\* There is nothing below an empty level.
LEMMA EmptyBelow ==
  ASSUME NEW n, NEW h \in 0..(Height + 1), Levels(n, "nodes")[h] = {}, NEW k \in h..(Height + 1)
  PROVE  Levels(n, "nodes")[k] = {}
<1> DEFINE T == {d \in 0..(Height + 1 - h) : Levels(n, "nodes")[h + d] = {}}
<1>0. Height \in Nat /\ h \in Nat /\ Height + 1 - h \in Nat /\ 0 \in 0..(Height + 1 - h) /\ h + 0 = h
  BY HeightAssumption
<1>1. 0 \in T
  BY <1>0
<1>2. ASSUME NEW d \in 0..(Height + 1 - h), d < Height + 1 - h, d \in T PROVE d + 1 \in T
  <2>1. d + 1 \in 0..(Height + 1 - h) /\ h + d \in 0..Height /\ h + (d + 1) = (h + d) + 1
    BY <1>0, <1>2
  <2>2. Levels(n, "nodes")[(h + d) + 1] = {}
    BY <1>2, <2>1, LevelUp
  <2> QED
    BY <2>1, <2>2
<1>3. 0..(Height + 1 - h) \subseteq T
  <2> HIDE DEF T
  <2> QED
    BY <1>0, <1>1, <1>2, Induction
<1>4. k - h \in 0..(Height + 1 - h) /\ h + (k - h) = k
  BY <1>0
<1> QED
  BY <1>3, <1>4

\* A node whose children are trees is one, if they are not too high.
LEMMA TreeOfChildren ==
  ASSUME NEW n, IsNode(n), NEW h \in 0..Height,
         \A key \in DOMAIN Children(n) : IsTree(Children(n)[key]) /\ Levels(Children(n)[key], "nodes")[h] = {}
  PROVE  /\ IsTree(n) /\ Levels(n, "nodes")[h + 1] = {}
         /\ \A y \in Places(n, "nodes") :
              y[2] = n \/ \E key \in DOMAIN Children(n) : \E z \in Places(Children(n)[key], "nodes") : z[2] = y[2]
<1>0. Height \in Nat /\ h + 1 \in 0..(Height + 1) /\ Height + 1 \in (h + 1)..(Height + 1)
  BY HeightAssumption
<1>1. Levels(n, "nodes")[h + 1] = {}
  BY LevelOfChild
<1>2. Levels(n, "nodes")[Height + 1] = {}
  BY <1>0, <1>1, EmptyBelow
<1>3. ASSUME NEW y \in Places(n, "nodes")
      PROVE  y[2] = n \/ \E key \in DOMAIN Children(n) : \E z \in Places(Children(n)[key], "nodes") : z[2] = y[2]
  <2>1. PICK k \in 0..Height : y \in Levels(n, "nodes")[k]
    BY DEF Places
  <2>2. CASE k = 0
    BY <2>1, <2>2, LevelsDefined
  <2>3. CASE k # 0
    <3>1. k - 1 \in 0..Height /\ (k - 1) + 1 = k
      BY <1>0, <2>3
    <3>2. PICK key \in DOMAIN Children(n) : \E z \in Levels(Children(n)[key], "nodes")[k - 1] : z[2] = y[2]
      BY <2>1, <3>1, LevelOfChild
    <3> QED
      BY <3>1, <3>2 DEF Places
  <2> QED
    BY <2>2, <2>3
<1>4. ASSUME NEW y \in Places(n, "nodes") PROVE IsNode(y[2])
  BY <1>3 DEF IsTree
<1> QED
  BY <1>1, <1>2, <1>3, <1>4 DEF IsTree

\* The children of a tree are trees.
LEMMA ChildIsTree ==
  ASSUME NEW n, IsTree(n), NEW key \in DOMAIN Children(n), NEW h \in 0..Height, Levels(n, "nodes")[h + 1] = {}
  PROVE  /\ IsTree(Children(n)[key]) /\ Levels(Children(n)[key], "nodes")[h] = {}
         /\ \A z \in Places(Children(n)[key], "nodes") : \E y \in Places(n, "nodes") : y[2] = z[2]
<1> DEFINE c == Children(n)[key]
<1>0. Height \in Nat /\ h \in 0..(Height + 1) /\ Height + 1 \in h..(Height + 1)
  BY HeightAssumption
<1>1. Levels(c, "nodes")[h] = {}
  BY LevelOfParent
<1>2. Levels(c, "nodes")[Height + 1] = {}
  BY <1>0, <1>1, EmptyBelow
<1>3. ASSUME NEW z \in Places(c, "nodes") PROVE \E y \in Places(n, "nodes") : y[2] = z[2]
  <2>1. PICK k \in 0..Height : z \in Levels(c, "nodes")[k]
    BY DEF Places
  <2>2. PICK y \in Levels(n, "nodes")[k + 1] : y[2] = z[2]
    BY <2>1, LevelOfParent
  <2>3. k + 1 \in 0..Height
    <3>1. k # Height
      BY <2>2 DEF IsTree
    <3> QED
      BY <1>0, <3>1
  <2> QED
    BY <2>2, <2>3 DEF Places
<1>4. ASSUME NEW z \in Places(c, "nodes") PROVE IsNode(z[2])
  BY <1>3 DEF IsTree
<1> QED
  BY <1>1, <1>2, <1>3, <1>4 DEF IsTree

\* A node without children.
LEMMA LeafIsTree ==
  ASSUME NEW n, IsNode(n), DOMAIN Children(n) = {}, NEW h \in 1..(Height + 1)
  PROVE  IsTree(n) /\ Levels(n, "nodes")[h] = {} /\ \A y \in Places(n, "nodes") : y[2] = n
<1>1. h - 1 \in 0..Height /\ (h - 1) + 1 = h
  BY HeightAssumption
<1> QED
  BY <1>1, TreeOfChildren

\* The node that flattenMap begins with.
LEMMA NullIsTree == IsTree(Null)
<1>1. IsNode(Null) /\ DOMAIN Children(Null) = {}
  BY DEF IsNode, Children, Null
<1>2. 1 \in 1..(Height + 1)
  BY HeightAssumption
<1> QED
  BY <1>1, <1>2, LeafIsTree

-----------------------------------------------------------------------------
(* What becomes of two nodes depends on them alone, and not on where they  *)
(* are met.                                                                *)

LEMMA MergedAgree ==
  ASSUME NEW a, NEW c, NEW b, NEW e, NEW flag, NEW sort, IsTree(Map(c)), IsTree(Map(e))
  PROVE  \A x : x \in Pairs(a, Map(c)) /\ x \in Pairs(b, Map(e)) =>
           Merged(a, c, flag, sort)[x] = Merged(b, e, flag, sort)[x]
<1> DEFINE f == Merged(a, c, flag, sort)
           g == Merged(b, e, flag, sort)
           T == {n \in 0..Height : \A x \in PairLevels(a, Map(c))[Height - n] :
                                     x \in Pairs(b, Map(e)) => f[x] = g[x]}
<1>0. Height \in Nat
  BY HeightAssumption
<1>1. ASSUME NEW h \in 0..Height, NEW x \in PairLevels(a, Map(c))[h], x \in Pairs(b, Map(e)),
             h + 1 \in 0..Height => \A y \in PairLevels(a, Map(c))[h + 1] : y \in Pairs(b, Map(e)) => f[y] = g[y]
      PROVE  f[x] = g[x]
  <2>1. x \in Pairs(a, Map(c))
    BY DEF Pairs
  <2>2. f[x] = Merge(x[1], x[2], flag, sort, f) /\ g[x] = Merge(x[1], x[2], flag, sort, g)
    BY <1>1, <2>1, MergedDefined
  <2> HIDE DEF f, g
  <2>3. PICK k \in 0..Height : x \in PairLevels(b, Map(e))[k]
    BY <1>1 DEF Pairs
  <2>4. ASSUME NEW key \in Shared(x[1], x[2])
        PROVE  f[<<Children(x[1])[key], x[2].m[key]>>] = g[<<Children(x[1])[key], x[2].m[key]>>]
    <3> DEFINE y == <<Children(x[1])[key], x[2].m[key]>>
    <3>1. h + 1 \in 0..Height /\ y \in PairLevels(a, Map(c))[h + 1]
      BY PairDown
    <3>2. k + 1 \in 0..Height /\ y \in PairLevels(b, Map(e))[k + 1]
      BY <2>3, PairDown
    <3>3. y \in Pairs(b, Map(e))
      BY <3>2 DEF Pairs
    <3> QED
      BY <1>1, <3>1, <3>3
  <2>5. Merge(x[1], x[2], flag, sort, f) = Merge(x[1], x[2], flag, sort, g)
    BY <2>4, MergeLocal
  <2> QED
    BY <2>2, <2>5
<1> HIDE DEF f, g
<1>2. 0 \in T
  <2>1. ASSUME NEW x \in PairLevels(a, Map(c))[Height], x \in Pairs(b, Map(e)) PROVE f[x] = g[x]
    <3>1. Height \in 0..Height /\ ~(Height + 1 \in 0..Height)
      BY <1>0
    <3> QED
      BY <1>1, <2>1, <3>1
  <2>2. 0 \in 0..Height /\ Height - 0 = Height
    BY <1>0
  <2> QED
    BY <2>1, <2>2
<1>3. ASSUME NEW n \in 0..Height, n < Height, n \in T PROVE n + 1 \in T
  <2>1. n + 1 \in 0..Height /\ Height - (n + 1) \in 0..Height /\ (Height - (n + 1)) + 1 = Height - n
    BY <1>0, <1>3
  <2>2. ASSUME NEW x \in PairLevels(a, Map(c))[Height - (n + 1)], x \in Pairs(b, Map(e)) PROVE f[x] = g[x]
    <3>1. \A y \in PairLevels(a, Map(c))[Height - n] : y \in Pairs(b, Map(e)) => f[y] = g[y]
      BY <1>3
    <3> QED
      BY <1>1, <2>1, <2>2, <3>1
  <2> QED
    BY <2>1, <2>2
<1>4. 0..Height \subseteq T
  <2> HIDE DEF T
  <2> QED
    BY <1>0, <1>2, <1>3, Induction
<1>5. ASSUME NEW x \in Pairs(a, Map(c)) \cap Pairs(b, Map(e)) PROVE f[x] = g[x]
  <2>1. PICK h \in 0..Height : x \in PairLevels(a, Map(c))[h]
    BY DEF Pairs
  <2>2. Height - h \in 0..Height /\ Height - (Height - h) = h
    BY <1>0
  <2>3. Height - h \in T
    BY <1>4, <2>2
  <2> QED
    BY <2>1, <2>2, <2>3
<1> QED
  BY <1>5 DEF f, g

\* A node that is no deeper.
Low(n, h) == IsTree(n) /\ Levels(n, "nodes")[h] = {}

\* What becomes of a node that exists when another one is added without 'override', in an
\* input file.
Meet(a, b) ==
  CASE b.t = "seq" -> PushBack(a, b.s)
    [] b.t = "map" -> AddMap(a, b.m, FALSE, FALSE)
    [] OTHER -> Thrown

\* Children that meet, and the others.
MeetAt(a, c, key) ==
  CASE key \in DOMAIN c /\ key \in DOMAIN Children(a) -> Meet(Children(a)[key], c[key])
    [] key \in DOMAIN c /\ key \notin DOMAIN Children(a) -> c[key]
    [] OTHER -> Children(a)[key]
Met(a, c) == Map([key \in DOMAIN Children(a) \cup DOMAIN c |-> MeetAt(a, c, key)])

\* No child is an exception, and a map of children is as good as the map.
LEMMA NoneThrown ==
  ASSUME NEW n, IsTree(n)
  PROVE  /\ n # Thrown /\ \A key \in DOMAIN Children(n) : Children(n)[key] # Thrown
         /\ n.t = "map" => IsTree(Map(n.m))
<1>0. Height \in Nat /\ Height + 1 \in 1..(Height + 1)
  BY HeightAssumption
<1>1. Height \in 0..Height /\ Levels(n, "nodes")[Height + 1] = {}
  BY <1>0 DEF IsTree
<1>2. \A m : IsTree(m) => m # Thrown
  <2>1. SUFFICES ASSUME NEW m, IsTree(m) PROVE m # Thrown
    OBVIOUS
  <2>2. << <<>>, m >> \in Levels(m, "nodes")[0]
    BY LevelsDefined
  <2>3. 0 \in 0..Height
    BY <1>0
  <2>4. IsNode(m)
    <3>1. << <<>>, m >> \in Places(m, "nodes")
      BY <2>2, <2>3 DEF Places
    <3>2. PICK x \in Places(m, "nodes") : x = << <<>>, m >>
      BY <3>1
    <3>3. x[2] = m
      BY <3>2
    <3> QED
      BY <2>1, <3>3 DEF IsTree
  <2> QED
    BY <2>4 DEF IsNode, Thrown
<1>3. \A key \in DOMAIN Children(n) : IsTree(Children(n)[key]) /\ Levels(Children(n)[key], "nodes")[Height] = {}
  BY <1>1, ChildIsTree
<1>4. ASSUME n.t = "map" PROVE IsTree(Map(n.m))
  <2> DEFINE m == Map(n.m)
  <2>1. IsNode(m) /\ Children(m) = n.m /\ Children(n) = n.m
    BY <1>4 DEF IsNode, Map, Children
  <2> HIDE DEF m
  <2>2. IsTree(m)
    BY <1>1, <1>3, <2>1, TreeOfChildren
  <2> QED
    BY <2>2 DEF m
<1> QED
  BY <1>2, <1>3, <1>4

\* The addition of children, by what becomes of those that meet.
LEMMA AddMapMet ==
  ASSUME NEW a, NEW c, IsTree(a), IsTree(Map(c))
  PROVE  /\ DOMAIN c = {} => AddMap(a, c, FALSE, FALSE) = a
         /\ DOMAIN c # {} =>
              IF a.t = "scalar" \/ \E key \in DOMAIN c \cap DOMAIN Children(a) : MeetAt(a, c, key) = Thrown
                THEN AddMap(a, c, FALSE, FALSE) = Thrown
                ELSE AddMap(a, c, FALSE, FALSE) = Met(a, c)
<1> DEFINE f == Merged(a, c, FALSE, FALSE)
           x == <<a, Map(c)>>
<1>0. Height \in Nat /\ 0 \in 0..Height /\ Map(c).t = "map" /\ Map(c).m = c /\ x[1] = a /\ x[2] = Map(c) /\ Children(Map(c)) = c
  BY HeightAssumption DEF Map, Children
<1>a. \A v \in Pairs(a, Map(c)) : f[v] = Merge(v[1], v[2], FALSE, FALSE, f)
  BY MergedDefined
<1>b. \A b, e : IsTree(Map(e)) =>
        \A v \in Pairs(a, Map(c)) \cap Pairs(b, Map(e)) : f[v] = Merged(b, e, FALSE, FALSE)[v]
  <2>1. SUFFICES ASSUME NEW b, NEW e, IsTree(Map(e)), NEW v \in Pairs(a, Map(c)) \cap Pairs(b, Map(e))
                 PROVE  Merged(a, c, FALSE, FALSE)[v] = Merged(b, e, FALSE, FALSE)[v]
    OBVIOUS
  <2>2. IsTree(Map(c)) /\ v \in Pairs(a, Map(c)) /\ v \in Pairs(b, Map(e))
    BY <2>1
  <2>3. ASSUME NEW flag, NEW sort PROVE Merged(a, c, flag, sort)[v] = Merged(b, e, flag, sort)[v]
    BY <2>1, <2>2, MergedAgree
  <2> QED
    BY <2>3
<1> HIDE DEF f
<1>c. ASSUME NEW b, NEW d, <<b, d>> \in PairLevels(a, Map(c))[1], 1 \in 0..Height, IsTree(d) PROVE f[<<b, d>>] = Meet(b, d)
  <2> DEFINE y == <<b, d>>
  <2>3. y \in Pairs(a, Map(c)) /\ y[1] = b /\ y[2] = d
    BY <1>c DEF Pairs
  <2>4. f[y] = Merge(b, d, FALSE, FALSE, f)
    BY <1>a, <2>3
  <2>5. CASE d.t = "map"
    <3> DEFINE g == Merged(b, d.m, FALSE, FALSE)
    <3>1. IsTree(Map(d.m))
      BY <1>c, <2>5, NoneThrown
    <3>2. \A v \in Pairs(a, Map(c)) \cap Pairs(b, Map(d.m)) : f[v] = g[v]
      BY <1>b, <3>1
    <3> HIDE DEF g
    <3>3. ASSUME NEW k \in Shared(b, d) PROVE f[<<Children(b)[k], d.m[k]>>] = g[<<Children(b)[k], d.m[k]>>]
      <4> DEFINE z == <<Children(b)[k], d.m[k]>>
                 w == <<b, Map(d.m)>>
      <4>1. 1 + 1 \in 0..Height /\ z \in PairLevels(a, Map(c))[1 + 1]
        <5>1. k \in Shared(y[1], y[2])
          BY <2>3
        <5> QED
          BY <1>c, <2>3, <5>1, PairDown
      <4>2. w[1] = b /\ w[2] = Map(d.m) /\ w[2].m = d.m /\ w[2].t = "map"
        BY DEF Map
      <4>3. w \in PairLevels(b, Map(d.m))[0] /\ k \in Shared(w[1], w[2])
        BY <2>5, <4>2, PairLevelsDefined DEF Shared
      <4>4. 0 + 1 \in 0..Height /\ z \in PairLevels(b, Map(d.m))[0 + 1]
        BY <1>0, <3>1, <4>2, <4>3, PairDown
      <4>5. z \in Pairs(a, Map(c)) \cap Pairs(b, Map(d.m))
        BY <4>1, <4>4 DEF Pairs
      <4> QED
        BY <3>2, <4>5
    <3>4. Merge(b, d, FALSE, FALSE, f) = Merge(b, d, FALSE, FALSE, g)
      BY <3>3, MergeLocal
    <3>5. Merge(b, d, FALSE, FALSE, g) = AddMap(b, d.m, FALSE, FALSE)
      BY <2>5 DEF Merge, MergeYaml, AddMap, g
    <3> QED
      BY <2>4, <2>5, <3>4, <3>5 DEF Meet
  <2>6. CASE d.t # "map"
    <3>1. Merge(b, d, FALSE, FALSE, f) = Meet(b, d)
      BY <2>6 DEF Merge, MergeYaml, Meet, Replace
    <3> QED
      BY <2>4, <3>1
  <2> QED
    BY <2>5, <2>6
<1>1. ASSUME NEW key \in DOMAIN c \cap DOMAIN Children(a) PROVE f[<<Children(a)[key], c[key]>>] = MeetAt(a, c, key)
  <2>1. x \in PairLevels(a, Map(c))[0] /\ key \in Shared(x[1], x[2])
    BY <1>0, PairLevelsDefined DEF Shared
  <2>2. 0 + 1 \in 0..Height /\ <<Children(a)[key], c[key]>> \in PairLevels(a, Map(c))[0 + 1]
    BY <1>0, <2>1, PairDown
  <2>3. 0 + 1 = 1
    OBVIOUS
  <2>4. IsTree(c[key])
    <3>1. Height \in 0..Height /\ Levels(Map(c), "nodes")[Height + 1] = {}
      BY <1>0 DEF IsTree
    <3> QED
      BY <1>0, <3>1, ChildIsTree
  <2>5. f[<<Children(a)[key], c[key]>>] = Meet(Children(a)[key], c[key])
    BY <1>c, <2>2, <2>3, <2>4
  <2> QED
    BY <2>5 DEF MeetAt
<1> DEFINE more == [key \in DOMAIN c |-> IF key \in DOMAIN Children(a) THEN f[<<Children(a)[key], c[key]>>] ELSE c[key]]
<1>2. \A key \in DOMAIN c : more[key] = MeetAt(a, c, key)
  BY <1>1 DEF MeetAt
<1>3. ASSUME NEW key \in DOMAIN c, key \notin DOMAIN Children(a) PROVE MeetAt(a, c, key) # Thrown
  BY <1>0, <1>3, NoneThrown DEF MeetAt
<1>4. [key \in DOMAIN Children(a) \cup DOMAIN c |-> IF key \in DOMAIN c THEN more[key] ELSE Children(a)[key]] =
        [key \in DOMAIN Children(a) \cup DOMAIN c |-> MeetAt(a, c, key)]
  BY <1>2 DEF MeetAt
<1>5. AddMap(a, c, FALSE, FALSE) =
        CASE DOMAIN c = {} -> a
          [] DOMAIN c # {} /\ (a.t = "scalar" \/ \E key \in DOMAIN c : more[key] = Thrown) -> Thrown
          [] OTHER -> Map([key \in DOMAIN Children(a) \cup DOMAIN c |->
                             IF key \in DOMAIN c THEN more[key] ELSE Children(a)[key]])
  BY DEF AddMap, AddChildren, f
<1>6. (\E key \in DOMAIN c : more[key] = Thrown)
        <=> \E key \in DOMAIN c \cap DOMAIN Children(a) : MeetAt(a, c, key) = Thrown
  BY <1>2, <1>3
<1> HIDE DEF more
<1> QED
  BY <1>4, <1>5, <1>6 DEF Met

-----------------------------------------------------------------------------
(* Nodes and their children.                                               *)

LEMMA Root ==
  ASSUME NEW n
  PROVE  \E x \in Places(n, "nodes") : x[2] = n
<1>1. << <<>>, n >> \in Levels(n, "nodes")[0] /\ 0 \in 0..Height
  BY LevelsDefined, HeightAssumption
<1>2. PICK x \in Levels(n, "nodes")[0] : x = << <<>>, n >>
  BY <1>1
<1>3. x[2] = n
  BY <1>2
<1> QED
  BY <1>1, <1>2, <1>3 DEF Places

\* A tree is a node and so are its children.
LEMMA TreeParts ==
  ASSUME NEW n, IsTree(n)
  PROVE  /\ IsNode(n)
         /\ \A key \in DOMAIN Children(n) : IsTree(Children(n)[key])
         /\ \A y \in Places(n, "nodes") :
              y[2] = n \/ \E key \in DOMAIN Children(n) : \E z \in Places(Children(n)[key], "nodes") : z[2] = y[2]
         /\ \A key \in DOMAIN Children(n) :
              \A z \in Places(Children(n)[key], "nodes") : \E y \in Places(n, "nodes") : y[2] = z[2]
<1>0. Height \in 0..Height /\ Levels(n, "nodes")[Height + 1] = {}
  BY HeightAssumption DEF IsTree
<1>1. IsNode(n)
  BY Root DEF IsTree
<1>2. \A key \in DOMAIN Children(n) :
        /\ IsTree(Children(n)[key]) /\ Levels(Children(n)[key], "nodes")[Height] = {}
        /\ \A z \in Places(Children(n)[key], "nodes") : \E y \in Places(n, "nodes") : y[2] = z[2]
  BY <1>0, ChildIsTree
<1> QED
  BY <1>0, <1>1, <1>2, TreeOfChildren

\* No map is empty (flattenMap makes a null node of an empty one).
Filled(n) == \A x \in Places(n, "nodes") : x[2].t = "map" => DOMAIN x[2].m # {}

\* Both are said of a node and of its children.
LEMMA FilledParts ==
  ASSUME NEW n, IsTree(n)
  PROVE  Filled(n) <=> /\ n.t = "map" => DOMAIN n.m # {}
                       /\ \A key \in DOMAIN Children(n) : Filled(Children(n)[key])
<1>1. ASSUME Filled(n)
      PROVE  (n.t = "map" => DOMAIN n.m # {}) /\ \A key \in DOMAIN Children(n) : Filled(Children(n)[key])
  <2>1. n.t = "map" => DOMAIN n.m # {}
    BY <1>1, Root DEF Filled
  <2>2. ASSUME NEW key \in DOMAIN Children(n), NEW z \in Places(Children(n)[key], "nodes"), z[2].t = "map"
        PROVE  DOMAIN z[2].m # {}
    <3>1. PICK y \in Places(n, "nodes") : y[2] = z[2]
      BY TreeParts
    <3> QED
      BY <1>1, <2>2, <3>1 DEF Filled
  <2> QED
    BY <2>1, <2>2 DEF Filled
<1>2. ASSUME n.t = "map" => DOMAIN n.m # {}, \A key \in DOMAIN Children(n) : Filled(Children(n)[key])
      PROVE  Filled(n)
  <2>1. SUFFICES ASSUME NEW y \in Places(n, "nodes"), y[2].t = "map" PROVE DOMAIN y[2].m # {}
    BY DEF Filled
  <2>2. y[2] = n \/ \E key \in DOMAIN Children(n) : \E z \in Places(Children(n)[key], "nodes") : z[2] = y[2]
    BY TreeParts
  <2> QED
    BY <1>2, <2>1, <2>2 DEF Filled
<1> QED
  BY <1>1, <1>2

\* Depth goes by children.
LEMMA LowChild ==
  ASSUME NEW n, NEW h \in 0..Height, Low(n, h + 1), NEW key \in DOMAIN Children(n)
  PROVE  Low(Children(n)[key], h)
BY ChildIsTree DEF Low

LEMMA LowOfChildren ==
  ASSUME NEW n, IsNode(n), NEW h \in 0..Height, \A key \in DOMAIN Children(n) : Low(Children(n)[key], h)
  PROVE  Low(n, h + 1)
<1>1. \A key \in DOMAIN Children(n) : IsTree(Children(n)[key]) /\ Levels(Children(n)[key], "nodes")[h] = {}
  BY DEF Low
<1> QED
  BY <1>1, TreeOfChildren DEF Low

LEMMA LowMap ==
  ASSUME NEW n, NEW h \in 0..(Height + 1), Low(n, h), n.t = "map"
  PROVE  Low(Map(n.m), h)
<1>1. h # 0
  BY LevelsDefined DEF Low
<1>2. h - 1 \in 0..Height /\ (h - 1) + 1 = h
  BY <1>1, HeightAssumption
<1> DEFINE m == Map(n.m)
<1>3. IsNode(m) /\ Children(m) = n.m /\ Children(n) = n.m
  BY DEF IsNode, Map, Children
<1> HIDE DEF m
<1>4. \A key \in DOMAIN Children(m) : Low(Children(m)[key], h - 1)
  BY <1>2, <1>3, LowChild
<1>5. Low(m, h)
  BY <1>2, <1>3, <1>4, LowOfChildren
<1> QED
  BY <1>5 DEF m

LEMMA LowHigher ==
  ASSUME NEW n, NEW h \in 0..(Height + 1), Low(n, h), NEW k \in h..(Height + 1)
  PROVE  Low(n, k)
BY EmptyBelow DEF Low

LEMMA TreeIsLow ==
  ASSUME NEW n
  PROVE  /\ IsTree(n) <=> Low(n, Height + 1)
         /\ 0 \in 0..(Height + 1) /\ Height + 1 \in 0..(Height + 1) /\ Height + 1 \in 1..(Height + 1)
BY HeightAssumption DEF Low, IsTree

\* A map with one key.
LEMMA EntryLow ==
  ASSUME NEW key, NEW v, NEW g \in 0..Height, Low(v, g)
  PROVE  /\ Low(Map(Entry(key, v)), g + 1) /\ Map(Entry(key, v)).t = "map"
         /\ DOMAIN Map(Entry(key, v)).m = {key} /\ Map(Entry(key, v)).m = Entry(key, v)
         /\ DOMAIN Children(Map(Entry(key, v))) = {key} /\ Children(Map(Entry(key, v)))[key] = v
<1> DEFINE n == Map(Entry(key, v))
<1>1. n.t = "map" /\ IsNode(n) /\ n.m = Entry(key, v)
  BY DEF Map, IsNode
<1>2. DOMAIN Children(n) = {key} /\ Children(n)[key] = v /\ DOMAIN n.m = {key}
  BY DEF Map, Children, Entry
<1> HIDE DEF n
<1>3. Low(n, g + 1)
  BY <1>1, <1>2, LowOfChildren
<1> QED
  BY <1>1, <1>2, <1>3 DEF n

LEMMA ScalarFilled ==
  ASSUME NEW n, n.t = "scalar"
  PROVE  Filled(n) /\ IsTree(n)
<1>1. IsNode(n) /\ DOMAIN Children(n) = {} /\ n.t # "map"
  BY DEF IsNode, Children
<1>2. IsTree(n)
  BY <1>1, LeafIsTree, TreeIsLow
<1> QED
  BY <1>1, <1>2, FilledParts

LEMMA EntryFilled ==
  ASSUME NEW key, NEW v, Low(v, Height)
  PROVE  /\ Low(Map(Entry(key, v)), Height + 1) /\ Map(Entry(key, v)).t = "map"
         /\ Map(Entry(key, v)).m = Entry(key, v) /\ DOMAIN Map(Entry(key, v)).m = {key}
         /\ Filled(v) => Filled(Map(Entry(key, v)))
<1> DEFINE y == Map(Entry(key, v))
<1>1. /\ Low(y, Height + 1) /\ y.t = "map" /\ DOMAIN y.m = {key} /\ y.m = Entry(key, v)
      /\ DOMAIN Children(y) = {key} /\ Children(y)[key] = v
  <2>1. Height \in 0..Height
    BY HeightAssumption
  <2> QED
    BY <2>1, EntryLow
<1> HIDE DEF y
<1>2. IsTree(y)
  BY <1>1 DEF Low
<1>3. Filled(v) => Filled(y)
  BY <1>1, <1>2, FilledParts
<1> QED
  BY <1>1, <1>3 DEF y

\* Only the children count, and not the map that has them.
LEMMA SameChildren ==
  ASSUME NEW n, IsTree(n), NEW c, NEW d, IsTree(Map(c)), IsTree(Map(d)), DOMAIN c = DOMAIN d, DOMAIN d # {},
         \A key \in DOMAIN d : c[key] = d[key]
  PROVE  AddMap(n, c, FALSE, FALSE) = AddMap(n, d, FALSE, FALSE)
<1>1. \A key : MeetAt(n, c, key) = MeetAt(n, d, key)
  BY DEF MeetAt
<1>2. Met(n, c) = Met(n, d)
  <2> DEFINE f == [key \in DOMAIN Children(n) \cup DOMAIN c |-> MeetAt(n, c, key)]
             g == [key \in DOMAIN Children(n) \cup DOMAIN d |-> MeetAt(n, d, key)]
  <2>1. f = g
    BY <1>1
  <2> QED
    BY <2>1 DEF Met
<1>3. CASE n.t = "scalar" \/ \E key \in DOMAIN d \cap DOMAIN Children(n) : MeetAt(n, d, key) = Thrown
  <2>1. n.t = "scalar" \/ \E key \in DOMAIN c \cap DOMAIN Children(n) : MeetAt(n, c, key) = Thrown
    BY <1>1, <1>3
  <2>2. AddMap(n, d, FALSE, FALSE) = Thrown
    BY <1>3, AddMapMet
  <2>3. AddMap(n, c, FALSE, FALSE) = Thrown
    BY <2>1, AddMapMet
  <2> QED
    BY <2>2, <2>3
<1>4. CASE ~(n.t = "scalar" \/ \E key \in DOMAIN d \cap DOMAIN Children(n) : MeetAt(n, d, key) = Thrown)
  <2>1. ~(n.t = "scalar" \/ \E key \in DOMAIN c \cap DOMAIN Children(n) : MeetAt(n, c, key) = Thrown)
    BY <1>1, <1>4
  <2>2. AddMap(n, d, FALSE, FALSE) = Met(n, d)
    BY <1>4, AddMapMet
  <2>3. AddMap(n, c, FALSE, FALSE) = Met(n, c)
    BY <2>1, AddMapMet
  <2> QED
    BY <1>2, <2>2, <2>3
<1> QED
  BY <1>3, <1>4

-----------------------------------------------------------------------------
(* What two nodes that meet become.                                        *)

\* Elements of both, the first ones where they were.
Appends(a, b, m) ==
  /\ b.t = "seq" /\ b.s # <<>> /\ a.t \in {"null", "seq"}
  /\ m.t = "seq" /\ m = Seq_(IF a.t = "null" THEN b.s ELSE a.s \o b.s) /\ IsNode(m)
  /\ DOMAIN Children(a) \subseteq DOMAIN Children(m)
  /\ \A key \in DOMAIN Children(a) : Children(m)[key] = Children(a)[key]
  /\ \A key \in DOMAIN Children(b) : \E k \in DOMAIN Children(m) : Children(m)[k] = Children(b)[key]
  /\ \A k \in DOMAIN Children(m) : \/ k \in DOMAIN Children(a)
                                   \/ \E key \in DOMAIN Children(b) : Children(m)[k] = Children(b)[key]

LEMMA PushBackAppends ==
  ASSUME AllIndexed, NEW a, NEW b, IsNode(a), IsNode(b), b.t = "seq", b.s # <<>>, PushBack(a, b.s) # Thrown
  PROVE  Appends(a, b, PushBack(a, b.s))
<1> DEFINE m == PushBack(a, b.s)
<1>1. CASE a.t = "null"
  <2>1. m = Seq_(b.s) /\ m.t = "seq" /\ m.s = b.s
    BY <1>1 DEF PushBack, Seq_
  <2>2. IsNode(m) /\ Children(m) = Children(b) /\ DOMAIN Children(a) = {}
    BY <1>1, <2>1 DEF IsNode, Children
  <2> QED
    BY <1>1, <2>1, <2>2 DEF Appends
<1>2. CASE a.t = "seq"
  <2>1. m = Seq_(a.s \o b.s) /\ m.t = "seq" /\ m.s = a.s \o b.s
    BY <1>2 DEF PushBack, Seq_
  <2> DEFINE p == a.s
             q == b.s
  <2>2. p \in Seq(Range(p)) /\ q \in Seq(Range(q)) /\ m.s = p \o q
    BY <1>2, <2>1 DEF IsNode
  <2> HIDE DEF p, q
  <2>3. /\ p \o q \in Seq(Range(p \o q)) /\ DOMAIN (p \o q) = 1..(Len(p) + Len(q))
        /\ Len(p) \in Nat /\ Len(q) \in Nat /\ DOMAIN p = 1..Len(p) /\ DOMAIN q = 1..Len(q)
        /\ \A i \in DOMAIN p : (p \o q)[i] = p[i]
        /\ \A j \in DOMAIN q : Len(p) + j \in DOMAIN (p \o q) /\ (p \o q)[Len(p) + j] = q[j]
    BY <2>2, Concatenation
  <2>4. IsNode(m)
    BY <2>1, <2>2, <2>3 DEF IsNode
  <2> HIDE DEF m
  <2>5. /\ DOMAIN Children(m) = {IndexKey[i] : i \in DOMAIN m.s}
        /\ \A i \in DOMAIN m.s : Children(m)[IndexKey[i]] = m.s[i]
    BY <2>1, <2>4, ChildrenOfSequence
  <2>6. /\ DOMAIN Children(a) = {IndexKey[i] : i \in DOMAIN p}
        /\ \A i \in DOMAIN p : Children(a)[IndexKey[i]] = p[i]
    BY <1>2, ChildrenOfSequence DEF p
  <2>7. /\ DOMAIN Children(b) = {IndexKey[i] : i \in DOMAIN q}
        /\ \A i \in DOMAIN q : Children(b)[IndexKey[i]] = q[i]
    BY ChildrenOfSequence DEF q
  <2>8. ASSUME NEW key \in DOMAIN Children(a) PROVE key \in DOMAIN Children(m) /\ Children(m)[key] = Children(a)[key]
    <3>1. PICK i \in DOMAIN p : key = IndexKey[i]
      BY <2>6
    <3>2. i \in DOMAIN m.s /\ m.s[i] = p[i]
      BY <2>1, <2>2, <2>3
    <3> QED
      BY <2>5, <2>6, <3>1, <3>2
  <2>9. ASSUME NEW key \in DOMAIN Children(b) PROVE \E k \in DOMAIN Children(m) : Children(m)[k] = Children(b)[key]
    <3>1. PICK j \in DOMAIN q : key = IndexKey[j]
      BY <2>7
    <3>2. Len(p) + j \in DOMAIN m.s /\ m.s[Len(p) + j] = q[j]
      BY <2>1, <2>2, <2>3
    <3>3. IndexKey[Len(p) + j] \in DOMAIN Children(m)
      BY <2>5, <3>2
    <3>4. Children(m)[IndexKey[Len(p) + j]] = Children(b)[key]
      BY <2>5, <2>7, <3>1, <3>2
    <3> QED
      BY <3>3, <3>4
  <2>10. ASSUME NEW k \in DOMAIN Children(m)
         PROVE  k \in DOMAIN Children(a) \/ \E key \in DOMAIN Children(b) : Children(m)[k] = Children(b)[key]
    <3>1. PICK i \in DOMAIN m.s : k = IndexKey[i]
      BY <2>5
    <3>2. CASE i \in DOMAIN p
      BY <2>6, <3>1, <3>2
    <3>3. CASE i \notin DOMAIN p
      <4>1. i - Len(p) \in DOMAIN q /\ Len(p) + (i - Len(p)) = i
        BY <2>1, <2>2, <2>3, <3>3
      <4>2. m.s[i] = q[i - Len(p)]
        BY <2>1, <2>2, <2>3, <4>1
      <4>3. IndexKey[i - Len(p)] \in DOMAIN Children(b)
        BY <2>7, <4>1
      <4>4. Children(m)[k] = Children(b)[IndexKey[i - Len(p)]]
        BY <2>5, <2>7, <3>1, <4>1, <4>2
      <4> QED
        BY <4>3, <4>4
    <3> QED
      BY <3>2, <3>3
  <2>11. m.t = "seq" /\ m = Seq_(IF a.t = "null" THEN b.s ELSE a.s \o b.s)
    BY <1>2, <2>1
  <2> QED
    BY <1>2, <2>4, <2>8, <2>9, <2>10, <2>11 DEF Appends, m
<1>3. CASE a.t \notin {"null", "seq"}
  BY <1>3 DEF PushBack
<1> QED
  BY <1>1, <1>2, <1>3

\* Child by child.
Joins(a, b, m) ==
  /\ b.t = "map" /\ DOMAIN b.m # {} /\ a.t # "scalar" /\ m = Met(a, b.m)
  /\ m.t = "map" /\ IsNode(m) /\ Children(m) = m.m /\ DOMAIN m.m = DOMAIN Children(a) \cup DOMAIN b.m
  /\ \A key \in DOMAIN m.m : m.m[key] = MeetAt(a, b.m, key) /\ m.m[key] # Thrown

\* Nothing was added.
Stays(a, b, m) ==
  /\ m = a /\ DOMAIN Children(b) = {}
  /\ \/ b.t = "seq" /\ b.s = <<>>
     \/ b.t = "map" /\ DOMAIN b.m = {}

LEMMA MeetCases ==
  ASSUME AllIndexed, NEW a, NEW b, IsTree(a), IsTree(b), Meet(a, b) # Thrown
  PROVE  \/ Stays(a, b, Meet(a, b))
         \/ Appends(a, b, Meet(a, b))
         \/ Joins(a, b, Meet(a, b))
<1> DEFINE m == Meet(a, b)
<1>0. IsNode(a) /\ IsNode(b)
  BY TreeParts
<1>1. CASE b.t = "seq"
  <2>1. m = PushBack(a, b.s)
    BY <1>1 DEF Meet
  <2>2. CASE b.s = <<>>
    <3>1. m = a
      BY <2>1, <2>2 DEF PushBack
    <3>2. DOMAIN Children(b) = {}
      <4>1. DOMAIN b.s = {}
        BY <2>2
      <4> QED
        BY <1>0, <1>1, <4>1, ChildrenOfSequence
    <3> QED
      BY <1>1, <2>2, <3>1, <3>2 DEF Stays
  <2>3. CASE b.s # <<>>
    BY <1>0, <1>1, <2>1, <2>3, PushBackAppends
  <2> QED
    BY <2>2, <2>3
<1>2. CASE b.t = "map"
  <2>1. m = AddMap(a, b.m, FALSE, FALSE) /\ IsTree(Map(b.m)) /\ Children(b) = b.m
    BY <1>2, NoneThrown DEF Meet, Children
  <2>2. CASE DOMAIN b.m = {}
    <3>1. m = a
      BY <2>1, <2>2, AddMapMet
    <3> QED
      BY <1>2, <2>1, <2>2, <3>1 DEF Stays
  <2>3. CASE DOMAIN b.m # {}
    <3>1. /\ ~(a.t = "scalar" \/ \E key \in DOMAIN b.m \cap DOMAIN Children(a) : MeetAt(a, b.m, key) = Thrown)
          /\ m = Met(a, b.m)
      BY <2>1, <2>3, AddMapMet
    <3>2. m.t = "map" /\ m.m = [key \in DOMAIN Children(a) \cup DOMAIN b.m |-> MeetAt(a, b.m, key)]
      BY <3>1 DEF Met, Map
    <3>3. IsNode(m) /\ Children(m) = m.m
      BY <3>2 DEF IsNode, Children
    <3>4. ASSUME NEW key \in DOMAIN m.m PROVE MeetAt(a, b.m, key) # Thrown
      <4>1. CASE key \in DOMAIN b.m \cap DOMAIN Children(a)
        BY <3>1, <4>1
      <4>2. CASE key \in DOMAIN b.m /\ key \notin DOMAIN Children(a)
        BY <2>1, <4>2, NoneThrown DEF MeetAt
      <4>3. CASE key \notin DOMAIN b.m
        BY <3>2, <4>3, NoneThrown DEF MeetAt
      <4> QED
        BY <4>1, <4>2, <4>3
    <3> HIDE DEF m
    <3>5. Joins(a, b, m)
      BY <1>2, <2>3, <3>1, <3>2, <3>3, <3>4 DEF Joins
    <3> QED
      BY <3>5 DEF m
  <2> QED
    BY <2>2, <2>3
<1>3. CASE b.t \notin {"seq", "map"}
  BY <1>3 DEF Meet
<1> QED
  BY <1>1, <1>2, <1>3

\* Two trees make a tree that is not deeper.
LEMMA MeetLow ==
  ASSUME AllIndexed, NEW a, NEW b, NEW h \in 0..(Height + 1), Low(a, h), Low(b, h), Meet(a, b) # Thrown
  PROVE  Low(Meet(a, b), h)
<1>0. h # 0 /\ IsTree(a) /\ IsTree(b) /\ IsNode(a) /\ IsNode(b)
  <2>1. IsTree(a) /\ IsTree(b)
    BY DEF Low
  <2>2. h # 0
    BY LevelsDefined DEF Low
  <2> QED
    BY <2>1, <2>2, TreeParts
<1>1. h - 1 \in 0..Height /\ (h - 1) + 1 = h
  BY <1>0, HeightAssumption
<1>2. CASE Stays(a, b, Meet(a, b))
  BY <1>2 DEF Stays
<1>3. CASE Appends(a, b, Meet(a, b))
  <2> DEFINE m == Meet(a, b)
  <2>1. Appends(a, b, m)
    BY <1>3
  <2> HIDE DEF m
  <2>2. \A key \in DOMAIN Children(a) : Low(Children(a)[key], h - 1)
    BY <1>1, LowChild
  <2>3. \A key \in DOMAIN Children(b) : Low(Children(b)[key], h - 1)
    BY <1>1, LowChild
  <2>4. \A key \in DOMAIN Children(m) : Low(Children(m)[key], h - 1)
    BY <2>1, <2>2, <2>3 DEF Appends
  <2>5. Low(m, h)
    BY <1>1, <2>1, <2>4, LowOfChildren DEF Appends
  <2> QED
    BY <2>5 DEF m
<1>4. CASE Joins(a, b, Meet(a, b))
  <2>1. b.t = "map" /\ Low(Map(b.m), h) /\ Meet(a, b) = AddMap(a, b.m, FALSE, FALSE)
    BY <1>4, LowMap DEF Joins, Meet
  <2> DEFINE m == AddMap(a, b.m, FALSE, FALSE)
  <2>2. m # Thrown /\ IsTree(Map(b.m)) /\ Levels(a, "nodes")[h] = {} /\ Levels(Map(b.m), "nodes")[h] = {}
    BY <2>1 DEF Low
  <2>3. IsTree(m)
    BY <1>0, <2>2, AddedTree
  <2>4. Levels(m, "nodes")[h] = {}
    BY <1>0, <2>2, AddedHeight
  <2> QED
    BY <2>1, <2>3, <2>4 DEF Low
<1> QED
  BY <1>0, <1>2, <1>3, <1>4, MeetCases

\* No map is empty if none was.
LEMMA MeetFilled ==
  ASSUME AllIndexed
  PROVE  \A h \in 0..(Height + 1) : \A a, b :
           Low(a, h) /\ Low(b, h) /\ Filled(a) /\ Filled(b) /\ Meet(a, b) # Thrown => Filled(Meet(a, b))
<1> DEFINE Ok(h, a, b) ==
             Low(a, h) /\ Low(b, h) /\ Filled(a) /\ Filled(b) /\ Meet(a, b) # Thrown => Filled(Meet(a, b))
           T == {h \in 0..(Height + 1) : \A a, b : Ok(h, a, b)}
<1>0. Height + 1 \in Nat /\ 0 \in 0..(Height + 1)
  BY HeightAssumption
<1>1. 0 \in T
  BY <1>0, LevelsDefined DEF Low
<1>2. ASSUME NEW h \in 0..(Height + 1), h < Height + 1, h \in T PROVE h + 1 \in T
  <2>0. h \in 0..Height /\ h + 1 \in 0..(Height + 1)
    BY <1>2, HeightAssumption
  <2>1. ASSUME NEW a, NEW b, Low(a, h + 1), Low(b, h + 1), Filled(a), Filled(b), Meet(a, b) # Thrown
        PROVE  Filled(Meet(a, b))
    <3> DEFINE m == Meet(a, b)
    <3>0. IsTree(a) /\ IsTree(b)
      BY <2>1 DEF Low
    <3>1. Stays(a, b, m) \/ Appends(a, b, m) \/ Joins(a, b, m)
      BY <2>1, <3>0, MeetCases
    <3>2. Low(m, h + 1) /\ IsTree(m)
      BY <2>0, <2>1, MeetLow DEF Low
    <3>3. \A key \in DOMAIN Children(a) : Filled(Children(a)[key]) /\ Low(Children(a)[key], h)
      BY <2>0, <2>1, <3>0, FilledParts, LowChild
    <3>4. \A key \in DOMAIN Children(b) : Filled(Children(b)[key]) /\ Low(Children(b)[key], h)
      BY <2>0, <2>1, <3>0, FilledParts, LowChild
    <3> HIDE DEF m
    <3>5. CASE Stays(a, b, m)
      BY <2>1, <3>5 DEF Stays, m
    <3>6. CASE Appends(a, b, m)
      <4>1. m.t # "map" /\ \A key \in DOMAIN Children(m) : Filled(Children(m)[key])
        BY <3>3, <3>4, <3>6 DEF Appends
      <4> QED
        BY <3>2, <4>1, FilledParts DEF m
    <3>7. CASE Joins(a, b, m)
      <4>1. DOMAIN m.m # {} /\ Children(m) = m.m /\ Children(b) = b.m
        BY <3>7 DEF Joins, Children
      <4>2. ASSUME NEW key \in DOMAIN m.m PROVE Filled(m.m[key])
        <5>1. m.m[key] = MeetAt(a, b.m, key) /\ m.m[key] # Thrown /\ key \in DOMAIN Children(a) \cup DOMAIN b.m
          BY <3>7 DEF Joins
        <5>2. CASE key \in DOMAIN b.m /\ key \in DOMAIN Children(a)
          <6>1. m.m[key] = Meet(Children(a)[key], b.m[key])
            BY <5>1, <5>2 DEF MeetAt
          <6>2. Ok(h, Children(a)[key], b.m[key])
            BY <1>2
          <6> QED
            BY <3>3, <3>4, <4>1, <5>1, <5>2, <6>1, <6>2
        <5>3. CASE key \in DOMAIN b.m /\ key \notin DOMAIN Children(a)
          BY <3>4, <4>1, <5>1, <5>3 DEF MeetAt
        <5>4. CASE key \notin DOMAIN b.m
          BY <3>3, <5>1, <5>4 DEF MeetAt
        <5> QED
          BY <5>2, <5>3, <5>4
      <4> QED
        BY <3>2, <4>1, <4>2, FilledParts DEF m
    <3> QED
      BY <3>1, <3>5, <3>6, <3>7
  <2> QED
    BY <2>0, <2>1
<1>3. 0..(Height + 1) \subseteq T
  <2> HIDE DEF T
  <2> QED
    BY <1>0, <1>1, <1>2, Induction
<1> QED
  BY <1>3

LEMMA ThreeSequences ==
  ASSUME NEW s, NEW t, NEW u, s \in Seq(Range(s)), t \in Seq(Range(t)), u \in Seq(Range(u))
  PROVE  (s \o t) \o u = s \o (t \o u)
<1> DEFINE S == Range(s) \cup Range(t) \cup Range(u)
<1>1. s \in Seq(S) /\ t \in Seq(S) /\ u \in Seq(S)
  OBVIOUS
<1> HIDE DEF S
<1> QED
  BY <1>1, ConcatAssociative

=============================================================================
