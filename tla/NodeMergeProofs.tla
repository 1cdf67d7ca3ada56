-------------------------- MODULE NodeMergeProofs --------------------------
(***************************************************************************)
(* That a node to which others are added keeps what is in it, or takes     *)
(* what is added last, in whatever order that is, for nodes of any shape   *)
(* and height.                                                             *)
(***************************************************************************)
EXTENDS NodeMerge, YamlNodesProofs, FiniteSetTheorems

-----------------------------------------------------------------------------
(* Without 'override' everything is kept.                                  *)

\* What becomes of a node of the old tree.
Keeps(old, children, sort, h, o, m) == m = o \/ \E x : Made(old, children, FALSE, sort, h, x, m) /\ x[1] = o

\* Its children are still there.
LEMMA KeepsDown ==
  ASSUME AllIndexed, NEW old, NEW children, IsTree(old), IsTree(Map(children)), NEW sort \in BOOLEAN,
         NEW h \in 0..Height, NEW o, NEW m, Keeps(old, children, sort, h, o, m), NEW key \in DOMAIN Children(o)
  PROVE  key \in DOMAIN Children(m) /\ Keeps(old, children, sort, h + 1, Children(o)[key], Children(m)[key])
<1>1. CASE m = o
  BY <1>1 DEF Keeps
<1>2. ASSUME NEW x, Made(old, children, FALSE, sort, h, x, m), x[1] = o
      PROVE  key \in DOMAIN Children(m) /\ Keeps(old, children, sort, h + 1, Children(o)[key], Children(m)[key])
  <2>1. IsNode(o) /\ IsNode(x[2])
    BY <1>2, PairNodes DEF Made
  <2>2. CASE Appended(o, x[2], sort, m)
    <3>1. o.t = "seq"
      BY <2>2 DEF Appended, Children
    <3> DEFINE a == o.s
               b == x[2].s
    <3>2. m.t = "seq" /\ m.s = a \o b /\ x[2].t = "seq"
      BY <2>2, <3>1 DEF Appended, Seq_
    <3>3. a \in Seq(Range(a)) /\ b \in Seq(Range(b))
      BY <2>1, <3>1, <3>2 DEF IsNode
    <3>4. PICK i \in DOMAIN a : key = IndexKey[i] /\ Children(o)[key] = a[i]
      <4>1. /\ DOMAIN Children(o) = {IndexKey[i] : i \in DOMAIN a}
            /\ \A i \in DOMAIN a : Children(o)[IndexKey[i]] = a[i]
        BY <2>1, <3>1, ChildrenOfSequence
      <4> QED
        BY <4>1
    <3> HIDE DEF a, b
    <3>5. a \o b \in Seq(Range(a \o b)) /\ i \in DOMAIN (a \o b) /\ (a \o b)[i] = a[i]
      <4>1. i \in 1..Len(a) /\ Len(a) \in Nat /\ Len(b) \in Nat
        BY <3>3, <3>4, Concatenation
      <4>2. i \in 1..(Len(a) + Len(b))
        BY <4>1
      <4> QED
        BY <3>3, <3>4, <4>2, Concatenation
    <3>6. IsNode(m)
      BY <3>2, <3>5 DEF IsNode
    <3>7. IndexKey[i] \in DOMAIN Children(m) /\ Children(m)[IndexKey[i]] = m.s[i]
      BY <3>2, <3>5, <3>6, ChildrenOfSequence
    <3> QED
      BY <3>2, <3>4, <3>5, <3>7 DEF Keeps
  <2>3. CASE MadeOfChildren(old, children, FALSE, sort, h, x, m)
    <3>1. m.t = "map" /\ Children(m) = m.m /\ key \in DOMAIN m.m
      BY <1>2, <2>3 DEF MadeOfChildren, Children
    <3>2. CASE /\ key \in DOMAIN x[2].m
               /\ Made(old, children, FALSE, sort, h + 1, <<Children(x[1])[key], x[2].m[key]>>, m.m[key])
      <4> DEFINE y == <<Children(x[1])[key], x[2].m[key]>>
      <4>1. y[1] = Children(o)[key]
        BY <1>2
      <4> HIDE DEF y
      <4>2. Made(old, children, FALSE, sort, h + 1, y, m.m[key])
        BY <3>2 DEF y
      <4> QED
        BY <3>1, <4>1, <4>2 DEF Keeps
    <3>3. CASE m.m[key] = Children(x[1])[key]
      BY <1>2, <3>1, <3>3 DEF Keeps
    <3> QED
      BY <1>2, <2>3, <3>1, <3>2, <3>3 DEF MadeOfChildren
  <2> QED
    BY <1>1, <1>2, <2>2, <2>3, MadeCases DEF Kept, Replaced
<1> QED
  BY <1>1, <1>2 DEF Keeps

\* So everything in the old tree is at its place, and what it is there came from it.
KeptAt(old, children, sort, h, x, m) ==
  \E y \in Levels(m, "nodes")[h] : y[1] = x[1] /\ Keeps(old, children, sort, h, x[2], y[2])

LEMMA KeepsPlaces ==
  ASSUME AllIndexed, NEW old, NEW children, IsTree(old), IsTree(Map(children)), NEW sort \in BOOLEAN,
         AddMap(old, children, FALSE, sort) # Thrown, NEW g \in 0..Height, NEW z \in Levels(old, "nodes")[g]
  PROVE  KeptAt(old, children, sort, g, z, AddMap(old, children, FALSE, sort))
<1> DEFINE m == AddMap(old, children, FALSE, sort)
           T == {h \in 0..Height : \A x \in Levels(old, "nodes")[h] :
                   \E y \in Levels(m, "nodes")[h] : y[1] = x[1] /\ Keeps(old, children, sort, h, x[2], y[2])}
<1>0. Height \in Nat /\ 0 \in 0..Height
  BY HeightAssumption
<1>1. 0 \in T
  <2> DEFINE r == <<old, Map(children)>>
  <2>1. Levels(m, "nodes")[0] = {<< <<>>, m >>} /\ Levels(old, "nodes")[0] = {<< <<>>, old >>}
    BY LevelsDefined
  <2>2. r \in PairLevels(old, Map(children))[0] /\ r[1] = old
    BY PairLevelsDefined
  <2> HIDE DEF r
  <2>3. Made(old, children, FALSE, sort, 0, r, m)
    BY <2>2 DEF Made
  <2> HIDE DEF m
  <2>4. Keeps(old, children, sort, 0, old, m)
    BY <2>2, <2>3 DEF Keeps
  <2>5. ASSUME NEW x \in Levels(old, "nodes")[0]
        PROVE  \E y \in Levels(m, "nodes")[0] : y[1] = x[1] /\ Keeps(old, children, sort, 0, x[2], y[2])
    <3>1. x[1] = <<>> /\ x[2] = old
      BY <2>1
    <3> DEFINE y == << <<>>, m >>
    <3>2. y \in Levels(m, "nodes")[0] /\ y[1] = <<>> /\ y[2] = m
      BY <2>1
    <3> HIDE DEF y
    <3>3. Keeps(old, children, sort, 0, x[2], y[2])
      BY <2>4, <3>1, <3>2
    <3> QED
      BY <3>1, <3>2, <3>3
  <2> QED
    BY <1>0, <2>5
<1> HIDE DEF m
<1>2. ASSUME NEW h \in 0..Height, h < Height, h \in T PROVE h + 1 \in T
  <2>1. h + 1 \in 0..Height
    BY <1>0, <1>2
  <2>2. ASSUME NEW c \in Levels(old, "nodes")[h + 1]
        PROVE  \E y \in Levels(m, "nodes")[h + 1] : y[1] = c[1] /\ Keeps(old, children, sort, h + 1, c[2], y[2])
    <3>1. PICK x \in Levels(old, "nodes")[h] : IsChild(c, x, "nodes")
      BY LevelUp
    <3>2. PICK key \in DOMAIN Children(x[2]) : c = <<Append(x[1], key), Children(x[2])[key]>>
      BY <3>1 DEF IsChild, Inside
    <3>3. PICK y \in Levels(m, "nodes")[h] : y[1] = x[1] /\ Keeps(old, children, sort, h, x[2], y[2])
      BY <1>2
    <3>4. /\ key \in DOMAIN Children(y[2])
          /\ Keeps(old, children, sort, h + 1, Children(x[2])[key], Children(y[2])[key])
      BY <3>3, KeepsDown
    <3>5. <<Append(y[1], key), Children(y[2])[key]>> \in Levels(m, "nodes")[h + 1]
      <4>1. key \in DOMAIN Inside(y[2], "nodes") /\ Inside(y[2], "nodes")[key] = Children(y[2])[key]
        BY <3>4 DEF Inside
      <4> QED
        BY <4>1, LevelDown
    <3> QED
      BY <3>2, <3>3, <3>4, <3>5
  <2> QED
    BY <2>1, <2>2
<1>3. 0..Height \subseteq T
  <2> HIDE DEF T
  <2> QED
    BY <1>0, <1>1, <1>2, Induction
<1>4. g \in T
  BY <1>3
<1> QED
  BY <1>4 DEF m, KeptAt


\* Scalars do not change, nor do the specifications of a schema below the root.
LEMMA KeepsValues ==
  ASSUME NEW old, NEW children, IsTree(old), IsTree(Map(children)), NEW sort \in BOOLEAN,
         NEW h \in 0..Height, NEW o, NEW m, Keeps(old, children, sort, h, o, m),
         o.t = "scalar" \/ (sort /\ h # 0 /\ IsSpecification(o))
  PROVE  m = o
<1>1. ASSUME NEW x, Made(old, children, FALSE, sort, h, x, m), x[1] = o PROVE m = o
  <2>1. IsSpecification(o) => o.t = "map" /\ HasAnyReservedKey(o)
    BY DEF IsSpecification, HasAnyReservedKey, ReservedKeys
  <2>2. ~Appended(o, x[2], sort, m)
    BY <2>1 DEF Appended
  <2>3. ~MadeOfChildren(old, children, FALSE, sort, h, x, m)
    BY <1>1, <2>1 DEF MadeOfChildren
  <2> QED
    BY <1>1, <2>2, <2>3, MadeCases DEF Kept, Replaced
<1> QED
  BY <1>1 DEF Keeps

LEMMA NothingLost ==
  ASSUME AllIndexed, NEW old, NEW children, IsTree(old), IsTree(Map(children)), NEW sort \in BOOLEAN,
         AddMap(old, children, FALSE, sort) # Thrown
  PROVE  /\ Leaves(old) \subseteq Leaves(AddMap(old, children, FALSE, sort))
         /\ sort => AllSpecifications(old) \subseteq AllSpecifications(AddMap(old, children, FALSE, sort))
<1> DEFINE m == AddMap(old, children, FALSE, sort)
<1>0. \A h \in 0..Height : \A x \in Levels(old, "nodes")[h] : KeptAt(old, children, sort, h, x, m)
  BY KeepsPlaces
<1> HIDE DEF m
<1>1. ASSUME NEW x \in Places(old, "nodes"),
             x[2].t = "scalar" \/ (sort /\ x[1] # <<>> /\ IsSpecification(x[2]))
      PROVE  \E y \in Places(m, "nodes") : y[1] = x[1] /\ y[2] = x[2]
  <2>1. PICK h \in 0..Height : x \in Levels(old, "nodes")[h]
    BY DEF Places
  <2>2. PICK y \in Levels(m, "nodes")[h] : y[1] = x[1] /\ Keeps(old, children, sort, h, x[2], y[2])
    BY <1>0, <2>1 DEF KeptAt
  <2>3. h = 0 => x[1] = <<>>
    BY <2>1, LevelsDefined
  <2>4. y[2] = x[2]
    BY <1>1, <2>2, <2>3, KeepsValues
  <2>5. y \in Places(m, "nodes")
    BY DEF Places
  <2> QED
    BY <2>2, <2>4, <2>5
<1>2. Leaves(old) \subseteq Leaves(m)
  <2>1. ASSUME NEW x \in Places(old, "nodes"), x[2].t = "scalar" PROVE <<x[1], x[2].v>> \in Leaves(m)
    <3>1. PICK y \in Places(m, "nodes") : y[1] = x[1] /\ y[2] = x[2]
      BY <1>1, <2>1
    <3> QED
      BY <2>1, <3>1 DEF Leaves
  <2> QED
    BY <2>1 DEF Leaves
<1>3. ASSUME sort PROVE AllSpecifications(old) \subseteq AllSpecifications(m)
  <2>1. ASSUME NEW x \in Places(old, "nodes"), x[1] # <<>>, IsSpecification(x[2])
        PROVE  <<x[1], x[2].m>> \in AllSpecifications(m)
    <3>1. PICK y \in Places(m, "nodes") : y[1] = x[1] /\ y[2] = x[2]
      BY <1>1, <1>3, <2>1
    <3> QED
      BY <2>1, <3>1 DEF AllSpecifications
  <2> QED
    BY <2>1 DEF AllSpecifications
<1> QED
  BY <1>2, <1>3 DEF m

-----------------------------------------------------------------------------
(* With 'override' the last one wins.                                      *)

\* Where values are looked for, in input files and in schemas.
Within(sort) == IF sort THEN "namespaces" ELSE "maps"

\* What becomes of a node v that is in the value which is added.
Wins(old, children, sort, h, v, r) ==
  /\ Found(Map(children), h, v)
  /\ r = v \/ \E x : Made(old, children, TRUE, sort, h, x, r) /\ x[2] = v

\* The elements that are appended are the last ones.
LEMMA AppendedLast ==
  ASSUME NEW a, NEW b, a \in Seq(Range(a)), b \in Seq(Range(b))
  PROVE  IsSuffix(b, a \o b) /\ IsSuffix(b, b)
<1> DEFINE c == a \o b
           n == Len(a)
           k == Len(b)
<1>1. /\ c \in Seq(Range(c)) /\ DOMAIN c = 1..(n + k) /\ n \in Nat /\ k \in Nat
      /\ DOMAIN b = 1..k /\ \A j \in DOMAIN b : c[n + j] = b[j]
  BY Concatenation
<1>2. Len(c) = n + k
  BY <1>1
<1> HIDE DEF c, n, k
<1> DEFINE rb == Reverse(b)
           rc == Reverse(c)
<1>3. rb = [i \in 1..k |-> b[(k - i) + 1]] /\ rc = [i \in 1..(n + k) |-> c[((n + k) - i) + 1]]
  BY <1>2 DEF Reverse, k
<1>4. rb \in Seq(Range(b)) /\ rc \in Seq(Range(c)) /\ Len(rb) = k /\ Len(rc) = n + k
  <2>1. ASSUME NEW i \in 1..k PROVE b[(k - i) + 1] \in Range(b)
    <3>1. (k - i) + 1 \in DOMAIN b
      BY <1>1
    <3> QED
      BY <3>1 DEF Range
  <2>2. ASSUME NEW i \in 1..(n + k) PROVE c[((n + k) - i) + 1] \in Range(c)
    <3>1. ((n + k) - i) + 1 \in DOMAIN c
      BY <1>1
    <3> QED
      BY <3>1 DEF Range
  <2> HIDE DEF rb, rc
  <2> QED
    BY <1>1, <1>3, <2>1, <2>2
<1>5. ASSUME NEW i \in 1..k PROVE rc[i] = rb[i]
  <2>1. (k - i) + 1 \in DOMAIN b /\ n + ((k - i) + 1) = ((n + k) - i) + 1 /\ i \in 1..(n + k)
    BY <1>1
  <2>2. c[((n + k) - i) + 1] = b[(k - i) + 1]
    <3>1. PICK j \in DOMAIN b : j = (k - i) + 1
      BY <2>1
    <3>2. c[n + j] = b[j] /\ n + j = ((n + k) - i) + 1
      BY <1>1, <2>1, <3>1
    <3> QED
      BY <3>1, <3>2
  <2> HIDE DEF rb, rc
  <2> QED
    BY <1>3, <2>1, <2>2
<1> HIDE DEF rb, rc
<1>6. SubSeq(rc, 1, k) = SubSeq(rb, 1, k) /\ k <= n + k /\ k <= k
  <2>1. SubSeq(rc, 1, k) = [i \in 1..k |-> rc[i]] /\ SubSeq(rb, 1, k) = [i \in 1..k |-> rb[i]]
    BY <1>1, <1>4
  <2> QED
    BY <1>1, <1>5, <2>1
<1>7. IsPrefix(rb, rc) /\ IsPrefix(rb, rb)
  BY <1>4, <1>6 DEF IsPrefix
<1> QED
  BY <1>7 DEF IsSuffix, rb, rc, c

\* Its children are where they were, or it would have been replaced.
LEMMA WinsDown ==
  ASSUME NEW old, NEW children, IsTree(old), IsTree(Map(children)), NEW sort \in BOOLEAN,
         NEW h \in 1..Height, NEW v, NEW r, Wins(old, children, sort, h, v, r),
         NEW key \in DOMAIN Inside(v, Within(sort))
  PROVE  /\ h + 1 \in 1..Height /\ key \in DOMAIN Inside(r, Within(sort))
         /\ Wins(old, children, sort, h + 1, Inside(v, Within(sort))[key], Inside(r, Within(sort))[key])
<1>0. h \in 0..Height /\ h # 0 /\ Height \in Nat
  BY HeightAssumption
<1>1. /\ v.t = "map" /\ Inside(v, Within(sort)) = v.m /\ key \in DOMAIN v.m
      /\ sort => "R" \notin DOMAIN v.m
  BY DEF Inside, Within, IsSpecification
<1>2. Found(Map(children), h + 1, v.m[key])
  BY <1>0, <1>1, FoundDown DEF Wins, Children
<1>3. h + 1 \in 1..Height
  BY <1>0, <1>2, FoundIsNode
<1>4. CASE r = v
  BY <1>1, <1>2, <1>3, <1>4 DEF Wins
<1>5. ASSUME NEW x, Made(old, children, TRUE, sort, h, x, r), x[2] = v, r # v
      PROVE  /\ key \in DOMAIN Inside(r, Within(sort))
             /\ Wins(old, children, sort, h + 1, v.m[key], Inside(r, Within(sort))[key])
  <2>1. MadeOfChildren(old, children, TRUE, sort, h, x, r)
    <3>1. ~Kept(x[1], x[2], sort, r) /\ ~Replaced(x[1], x[2], TRUE, sort, r) /\ ~Appended(x[1], x[2], sort, r)
      BY <1>1, <1>5 DEF Kept, Replaced, Appended
    <3> QED
      BY <1>0, <1>5, <3>1, MadeCases
  <2>2. r.t = "map" /\ key \in DOMAIN r.m /\ DOMAIN r.m = DOMAIN Children(x[1]) \cup DOMAIN v.m
    BY <1>1, <1>5, <2>1 DEF MadeOfChildren
  <2>3. sort => "R" \notin DOMAIN r.m
    <3>1. ASSUME sort PROVE "R" \notin DOMAIN Children(x[1])
      <4>1. x[1].t \in {"null", "map"} /\ ~HasAnyReservedKey(x[1])
        BY <1>0, <2>1, <3>1 DEF MadeOfChildren
      <4> QED
        BY <4>1 DEF HasAnyReservedKey, ReservedKeys, Children
    <3> QED
      BY <1>1, <2>2, <3>1
  <2>4. Inside(r, Within(sort)) = r.m
    BY <2>2, <2>3 DEF Inside, Within, IsSpecification
  <2>5. CASE Made(old, children, TRUE, sort, h + 1, <<Children(x[1])[key], x[2].m[key]>>, r.m[key])
    <3> DEFINE y == <<Children(x[1])[key], x[2].m[key]>>
    <3>1. y[2] = v.m[key]
      BY <1>5
    <3> HIDE DEF y
    <3>2. Made(old, children, TRUE, sort, h + 1, y, r.m[key])
      BY <2>5 DEF y
    <3> QED
      BY <1>2, <2>2, <2>4, <3>1, <3>2 DEF Wins
  <2>6. CASE r.m[key] = v.m[key]
    BY <1>2, <2>2, <2>4, <2>6 DEF Wins
  <2> QED
    BY <1>1, <1>5, <2>1, <2>2, <2>5, <2>6 DEF MadeOfChildren
<1> QED
  BY <1>1, <1>3, <1>4, <1>5 DEF Wins

\* What it says is in force.
LEMMA WinsValues ==
  ASSUME NEW old, NEW children, IsTree(old), IsTree(Map(children)), NEW sort \in BOOLEAN,
         NEW h \in 1..Height, NEW v, NEW r, Wins(old, children, sort, h, v, r)
  PROVE  /\ ~sort => HeldBy(v, r)
         /\ sort /\ IsSpecification(v) => IsSpecification(r) /\ Reserved(r) = Reserved(v)
<1>0. h \in 0..Height /\ h # 0 /\ IsNode(v)
  BY FoundIsNode DEF Wins
<1>1. HeldBy(v, v)
  BY <1>0, AppendedLast DEF HeldBy, IsNode
<1>2. ASSUME NEW x, Made(old, children, TRUE, sort, h, x, r), x[2] = v
      PROVE  /\ ~sort => HeldBy(v, r)
             /\ sort /\ IsSpecification(v) => IsSpecification(r) /\ Reserved(r) = Reserved(v)
  <2>1. IsNode(x[1])
    BY <1>0, <1>2, PairNodes DEF Made
  <2>2. CASE Kept(x[1], v, sort, r)
    BY <2>2 DEF Kept, HeldBy, IsSpecification
  <2>3. CASE Replaced(x[1], v, TRUE, sort, r)
    BY <1>1, <2>3 DEF Replaced
  <2>4. CASE Appended(x[1], v, sort, r)
    <3>1. r.t = "seq" /\ r.s = (IF x[1].t = "null" THEN v.s ELSE x[1].s \o v.s) /\ v.t = "seq" /\ ~sort
      BY <2>4 DEF Appended, Seq_
    <3>2. v.s \in Seq(Range(v.s)) /\ (x[1].t # "null" => x[1].s \in Seq(Range(x[1].s)))
      BY <1>0, <2>1, <2>4, <3>1 DEF Appended, IsNode
    <3>3. IsSuffix(v.s, r.s)
      BY <3>1, <3>2, AppendedLast
    <3> QED
      BY <3>1, <3>3 DEF HeldBy
  <2>5. CASE MadeOfChildren(old, children, TRUE, sort, h, x, r)
    <3>1. v.t = "map" /\ r.t = "map" /\ DOMAIN r.m = DOMAIN Children(x[1]) \cup DOMAIN v.m
      BY <1>2, <2>5 DEF MadeOfChildren
    <3>2. ~sort => HeldBy(v, r)
      BY <3>1 DEF HeldBy
    <3>3. ASSUME sort, IsSpecification(v) PROVE IsSpecification(r) /\ Reserved(r) = Reserved(v)
      <4>1. DOMAIN Children(x[1]) \cap ReservedKeys = {}
        <5>1. x[1].t \in {"null", "map"} /\ ~HasAnyReservedKey(x[1])
          BY <1>0, <2>5, <3>3 DEF MadeOfChildren
        <5> QED
          BY <5>1 DEF HasAnyReservedKey, ReservedKeys, Children
      <4>2. IsSpecification(r)
        BY <3>1, <3>3 DEF IsSpecification
      <4>3. DOMAIN r.m \cap ReservedKeys = DOMAIN v.m \cap ReservedKeys
        BY <3>1, <4>1
      <4>4. ASSUME NEW k \in DOMAIN v.m \cap ReservedKeys PROVE r.m[k] = v.m[k]
        <5>1. k \in DOMAIN r.m /\ k \notin DOMAIN Children(x[1])
          BY <3>1, <4>1
        <5> QED
          BY <1>2, <2>5, <5>1 DEF MadeOfChildren
      <4> QED
        BY <4>2, <4>3, <4>4 DEF Reserved, Restrict
    <3> QED
      BY <3>2, <3>3
  <2> QED
    BY <1>0, <1>2, <2>2, <2>3, <2>4, <2>5, MadeCases
<1> QED
  BY <1>1, <1>2 DEF Wins

\* The value that is added wins.
LEMMA WinsFirst ==
  ASSUME NEW old, NEW key, NEW value, IsTree(old), IsTree(Map(Entry(key, value))), NEW sort \in BOOLEAN,
         AddMap(old, Entry(key, value), TRUE, sort) # Thrown
  PROVE  /\ 1 \in 1..Height
         /\ Wins(old, Entry(key, value), sort, 1, value, AddMap(old, Entry(key, value), TRUE, sort).m[key])
<1> DEFINE m == AddMap(old, Entry(key, value), TRUE, sort)
           children == Entry(key, value)
           x == <<old, Map(children)>>
<1>0. children = [k \in {key} |-> value] /\ DOMAIN children = {key} /\ children[key] = value
  BY DEF Entry
<1>1. x[1] = old /\ x[2] = Map(children) /\ x[2].t = "map" /\ x[2].m = children
  BY DEF Map
<1>2. Made(old, children, TRUE, sort, 0, x, m)
  BY PairLevelsDefined DEF Made
<1> HIDE DEF x, children, m
<1>3. 0 \in 0..Height /\ Height \in Nat
  BY HeightAssumption
<1>4. Found(Map(children), 1, value)
  <2>1. Found(Map(children), 0, x[2])
    BY <1>2, <1>3, PairFound DEF Made
  <2>2. key \in DOMAIN Children(x[2]) /\ Children(x[2])[key] = value
    BY <1>0, <1>1 DEF Children
  <2> QED
    BY <1>3, <2>1, <2>2, FoundDown
<1>5. 1 \in 1..Height
  <2>1. IsTree(Map(children))
    BY DEF children
  <2> QED
    BY <1>3, <1>4, <2>1, FoundIsNode
<1>6. m.m[key] = value \/ \E y : Made(old, children, TRUE, sort, 1, y, m.m[key]) /\ y[2] = value
  <2>1. CASE m = x[2]
    BY <1>0, <1>1, <2>1
  <2>2. CASE MadeOfChildren(old, children, TRUE, sort, 0, x, m)
    <3>1. key \in DOMAIN m.m /\ key \in DOMAIN x[2].m
      BY <1>0, <1>1, <2>2 DEF MadeOfChildren
    <3>2. CASE Made(old, children, TRUE, sort, 1, <<Children(x[1])[key], x[2].m[key]>>, m.m[key])
      <4> DEFINE y == <<Children(x[1])[key], x[2].m[key]>>
      <4>1. y[2] = value
        BY <1>0, <1>1
      <4> HIDE DEF y
      <4> QED
        BY <3>2, <4>1 DEF y
    <3>3. CASE m.m[key] = x[2].m[key]
      BY <1>0, <1>1, <3>3
    <3>4. \/ Made(old, children, TRUE, sort, 0 + 1, <<Children(x[1])[key], x[2].m[key]>>, m.m[key])
          \/ m.m[key] = x[2].m[key]
      BY <2>2, <3>1 DEF MadeOfChildren
    <3>5. 0 + 1 = 1
      OBVIOUS
    <3> QED
      BY <3>2, <3>3, <3>4, <3>5
  <2>3. ~Kept(x[1], x[2], sort, m) /\ ~Appended(x[1], x[2], sort, m)
    BY <1>0, <1>1 DEF Kept, Appended
  <2>4. IsTree(Map(children))
    BY DEF children
  <2> QED
    BY <1>2, <1>3, <2>1, <2>2, <2>3, <2>4, MadeCases DEF Replaced
<1> QED
  BY <1>4, <1>5, <1>6 DEF Wins, children, m

\* So everything in the value that is looked for is at its place.
WinsAt(old, children, sort, h, x, r) ==
  /\ h + 1 \in 1..Height
  /\ \E y \in Levels(r, Within(sort))[h] : y[1] = x[1] /\ Wins(old, children, sort, h + 1, x[2], y[2])

LEMMA WinsPlaces ==
  ASSUME NEW old, NEW key, NEW value, IsTree(old), IsTree(Map(Entry(key, value))), NEW sort \in BOOLEAN,
         AddMap(old, Entry(key, value), TRUE, sort) # Thrown,
         NEW g \in 0..Height, NEW c \in Levels(value, Within(sort))[g]
  PROVE  WinsAt(old, Entry(key, value), sort, g, c, AddMap(old, Entry(key, value), TRUE, sort).m[key])
<1> DEFINE children == Entry(key, value)
           how == Within(sort)
           r == AddMap(old, Entry(key, value), TRUE, sort).m[key]
           T == {h \in 0..Height : \A x \in Levels(value, how)[h] :
                   /\ h + 1 \in 1..Height
                   /\ \E y \in Levels(r, how)[h] : y[1] = x[1] /\ Wins(old, children, sort, h + 1, x[2], y[2])}
<1>0. Height \in Nat /\ 0 \in 0..Height
  BY HeightAssumption
<1>1. 1 \in 1..Height /\ Wins(old, children, sort, 1, value, r) /\ IsTree(Map(children))
  BY WinsFirst
<1> HIDE DEF children, how, r
<1>2. 0 \in T
  <2>1. Levels(value, how)[0] = {<< <<>>, value >>}
    BY LevelsDefined
  <2>2. Levels(r, how)[0] = {<< <<>>, r >>}
    BY LevelsDefined
  <2>3. ASSUME NEW x \in Levels(value, how)[0]
        PROVE  \E y \in Levels(r, how)[0] : y[1] = x[1] /\ Wins(old, children, sort, 1, x[2], y[2])
    <3> DEFINE y == << <<>>, r >>
    <3>1. y \in Levels(r, how)[0] /\ y[1] = <<>> /\ y[2] = r
      BY <2>2
    <3>2. x[1] = <<>> /\ x[2] = value
      BY <2>1
    <3> HIDE DEF y
    <3>3. Wins(old, children, sort, 1, x[2], y[2])
      BY <1>1, <3>1, <3>2
    <3> QED
      BY <3>1, <3>2, <3>3
  <2>4. 0 + 1 = 1
    OBVIOUS
  <2> QED
    BY <1>0, <1>1, <2>3, <2>4
<1>3. ASSUME NEW h \in 0..Height, h < Height, h \in T PROVE h + 1 \in T
  <2>1. h + 1 \in 0..Height
    BY <1>0, <1>3
  <2>2. ASSUME NEW z \in Levels(value, how)[h + 1]
        PROVE  /\ (h + 1) + 1 \in 1..Height
               /\ \E y \in Levels(r, how)[h + 1] : y[1] = z[1] /\ Wins(old, children, sort, (h + 1) + 1, z[2], y[2])
    <3>1. PICK x \in Levels(value, how)[h] : IsChild(z, x, how)
      BY LevelUp
    <3>2. PICK k \in DOMAIN Inside(x[2], how) : z = <<Append(x[1], k), Inside(x[2], how)[k]>>
      BY <3>1 DEF IsChild
    <3>3. PICK y \in Levels(r, how)[h] : y[1] = x[1] /\ Wins(old, children, sort, h + 1, x[2], y[2])
      BY <1>3
    <3>4. h + 1 \in 1..Height
      BY <1>3, <3>1
    <3>5. /\ (h + 1) + 1 \in 1..Height /\ k \in DOMAIN Inside(y[2], how)
          /\ Wins(old, children, sort, (h + 1) + 1, Inside(x[2], how)[k], Inside(y[2], how)[k])
      BY <1>1, <3>3, <3>4, WinsDown DEF how
    <3>6. <<Append(y[1], k), Inside(y[2], how)[k]>> \in Levels(r, how)[h + 1]
      BY <3>5, LevelDown
    <3> QED
      BY <3>2, <3>3, <3>5, <3>6
  <2> QED
    BY <2>1, <2>2
<1>4. 0..Height \subseteq T
  <2> HIDE DEF T
  <2> QED
    BY <1>0, <1>2, <1>3, Induction
<1>5. g \in T /\ c \in Levels(value, how)[g]
  BY <1>4 DEF how
<1> QED
  BY <1>5 DEF children, how, r, WinsAt

LEMMA Overridden ==
  ASSUME NEW old, NEW key, NEW value, IsTree(old), IsTree(Map(Entry(key, value))), NEW sort \in BOOLEAN,
         AddMap(old, Entry(key, value), TRUE, sort) # Thrown
  PROVE  LET r == AddMap(old, Entry(key, value), TRUE, sort).m[key]
         IN IF sort THEN InForce(value) \subseteq InForce(r) ELSE Holds(r, value)
<1> DEFINE r == AddMap(old, Entry(key, value), TRUE, sort).m[key]
<1>1. ASSUME NEW x \in Places(value, Within(sort))
      PROVE  \E y \in Places(r, Within(sort)) :
               /\ y[1] = x[1] /\ (~sort => HeldBy(x[2], y[2]))
               /\ sort /\ IsSpecification(x[2]) => IsSpecification(y[2]) /\ Reserved(y[2]) = Reserved(x[2])
  <2>1. PICK h \in 0..Height : x \in Levels(value, Within(sort))[h]
    BY DEF Places
  <2>2. WinsAt(old, Entry(key, value), sort, h, x, r)
    BY <2>1, WinsPlaces
  <2>3. PICK y \in Levels(r, Within(sort))[h] : y[1] = x[1] /\ Wins(old, Entry(key, value), sort, h + 1, x[2], y[2])
    BY <2>2 DEF WinsAt
  <2>4. /\ ~sort => HeldBy(x[2], y[2])
        /\ sort /\ IsSpecification(x[2]) => IsSpecification(y[2]) /\ Reserved(y[2]) = Reserved(x[2])
    BY <2>2, <2>3, WinsValues DEF WinsAt
  <2>5. y \in Places(r, Within(sort))
    BY DEF Places
  <2> QED
    BY <2>3, <2>4, <2>5
<1> HIDE DEF r
<1>2. CASE ~sort
  BY <1>1, <1>2 DEF Holds, Within, r
<1>3. CASE sort
  <2>1. ASSUME NEW x \in Places(value, "namespaces"), IsSpecification(x[2])
        PROVE  <<x[1], Reserved(x[2])>> \in InForce(r)
    <3>1. PICK y \in Places(r, "namespaces") :
            y[1] = x[1] /\ IsSpecification(y[2]) /\ Reserved(y[2]) = Reserved(x[2])
      BY <1>1, <1>3, <2>1 DEF Within
    <3> QED
      BY <3>1 DEF InForce
  <2>2. InForce(value) \subseteq InForce(r)
    BY <2>1 DEF InForce
  <2> QED
    BY <1>3, <2>2 DEF r
<1> QED
  BY <1>2, <1>3

-----------------------------------------------------------------------------
(* What flattenMap has put together at any time.                           *)

IInv ==
  /\ override \in BOOLEAN /\ is_schema \in BOOLEAN /\ thrown \in BOOLEAN
  /\ added \in Seq(Keys \X (YamlValues \cup SchemaValues))
  /\ TypeOK

\* An addition that does not throw.
LEMMA Addition ==
  ASSUME IInv, NEW key \in Keys, NEW value \in YamlValues \cup SchemaValues, Add(key, value), ~thrown'
  PROVE  LET children == Entry(key, value) IN
           /\ IsTree(Map(children)) /\ IsTree(node)
           /\ node' = AddMap(node, children, override, is_schema) /\ node' # Thrown
           /\ override' = override /\ is_schema' = is_schema /\ added' = Append(added, <<key, value>>)
<1>1. Added(node, key, value) = AddMap(node, Entry(key, value), override, is_schema)
  BY DEF IInv, Added, AddNodeSchema, AddNodeYaml
<1>2. IsTree(Map(Entry(key, value)))
  BY ValuesAssumption
<1> QED
  BY <1>1, <1>2 DEF IInv, TypeOK, Add

LEMMA TypeInductive ==
  ASSUME AllIndexed
  PROVE  (Init => IInv) /\ (IInv /\ [Next]_vars => IInv')
<1>1. Init => IInv
  <2> SUFFICES ASSUME Init PROVE IInv
    OBVIOUS
  <2>1. IsTree(node) /\ node.t = "null"
    BY NullIsTree DEF Init, Null
  <2>2. TypeOK
    BY <2>1 DEF Init, TypeOK
  <2>3. added \in Seq(Keys \X (YamlValues \cup SchemaValues))
    BY DEF Init
  <2>4. override \in BOOLEAN /\ is_schema \in BOOLEAN /\ thrown = FALSE
    BY DEF Init
  <2> QED
    BY <2>2, <2>3, <2>4 DEF IInv
<1>2. ASSUME IInv, UNCHANGED vars PROVE IInv'
  BY <1>2 DEF IInv, TypeOK, vars
<1>3. ASSUME Restart PROVE IInv'
  <2>1. IsTree(node') /\ node'.t = "null"
    BY <1>3, NullIsTree DEF Restart, Null
  <2>2. TypeOK'
    BY <1>3, <2>1 DEF Restart, TypeOK
  <2>3. added' \in Seq(Keys \X (YamlValues \cup SchemaValues))
    BY <1>3 DEF Restart
  <2>4. override' \in BOOLEAN /\ is_schema' \in BOOLEAN /\ thrown' = FALSE
    BY <1>3 DEF Restart
  <2> QED
    BY <2>2, <2>3, <2>4 DEF IInv
<1>4. ASSUME IInv, NEW key \in Keys, NEW value \in YamlValues \cup SchemaValues, Add(key, value) PROVE IInv'
  <2>1. /\ override' \in BOOLEAN /\ is_schema' \in BOOLEAN /\ thrown' \in BOOLEAN
        /\ added' \in Seq(Keys \X (YamlValues \cup SchemaValues)) /\ added' # <<>>
    BY <1>4 DEF IInv, Add
  <2>2. CASE thrown'
    <3>1. IsTree(node') /\ node'.t = "null"
      BY <1>4, <2>2, NullIsTree DEF Add, Null
    <3> QED
      BY <2>1, <2>2, <3>1 DEF IInv, TypeOK
  <2>3. CASE ~thrown'
    <3> DEFINE children == Entry(key, value)
    <3>1. /\ IsTree(Map(children)) /\ IsTree(node)
          /\ node' = AddMap(node, children, override, is_schema) /\ node' # Thrown
      BY <1>4, <2>3, Addition
    <3>2. DOMAIN children # {}
      BY DEF Entry
    <3> HIDE DEF children
    <3>3. IsTree(node')
      BY <1>4, <3>1, AddedTree DEF IInv
    <3>4. node'.t = "map"
      BY <3>1, <3>2, ChildrenAdded DEF AddMap
    <3> QED
      BY <2>1, <2>3, <3>3, <3>4 DEF IInv, TypeOK
  <2> QED
    BY <2>2, <2>3
<1> QED
  BY <1>1, <1>2, <1>3, <1>4 DEF Next

\* What is put together is always a tree, no matter which trees are added to it, in
\* which order, of which height: an exception never ends up inside.
THEOREM TypeCorrect == AllIndexed => (Spec => []TypeOK)
<1> SUFFICES ASSUME AllIndexed PROVE Spec => []TypeOK
  OBVIOUS
<1>1. (Init => IInv) /\ (IInv /\ [Next]_vars => IInv')
  BY TypeInductive
<1>2. IInv => TypeOK
  BY DEF IInv
<1> QED
  BY <1>1, <1>2, PTL DEF Spec

\* Without 'override' no addition loses or changes a value of an input file, and none
\* touches a specification of a schema, at any depth.
THEOREM NothingIsOverwritten == AllIndexed => (Spec => NothingOverwritten)
<1> SUFFICES ASSUME AllIndexed PROVE Spec => NothingOverwritten
  OBVIOUS
<1> DEFINE Kind == IF is_schema THEN AllSpecifications(node) \subseteq AllSpecifications(node')
                                ELSE Leaves(node) \subseteq Leaves(node')
<1>1. (Init => IInv) /\ (IInv /\ [Next]_vars => IInv')
  BY TypeInductive
<1>2. ASSUME IInv, Next, ~override, ~thrown', added' # <<>> PROVE Kind
  <2>1. ~Restart
    BY <1>2 DEF Restart
  <2>2. PICK key \in Keys, value \in YamlValues \cup SchemaValues : Add(key, value)
    BY <1>2, <2>1 DEF Next
  <2> DEFINE children == Entry(key, value)
  <2>3. /\ IsTree(Map(children)) /\ IsTree(node)
        /\ node' = AddMap(node, children, FALSE, is_schema) /\ node' # Thrown
    <3>1. override = FALSE
      BY <1>2 DEF IInv
    <3> QED
      BY <1>2, <2>2, <3>1, Addition
  <2> HIDE DEF children
  <2>4. /\ Leaves(node) \subseteq Leaves(node')
        /\ is_schema => AllSpecifications(node) \subseteq AllSpecifications(node')
    <3>1. is_schema \in BOOLEAN
      BY <1>2 DEF IInv
    <3> QED
      BY <2>3, <3>1, NothingLost
  <2> QED
    BY <2>4
<1>3. IInv /\ [Next]_vars => [~override /\ ~thrown' /\ added' # <<>> => Kind]_vars
  <2> HIDE DEF Kind
  <2> QED
    BY <1>2
<1> QED
  BY <1>1, <1>3, PTL DEF Spec, NothingOverwritten


\* With 'override' the value that was added last is in force, all of it, at any depth:
\* every scalar, every element and, in a schema, every specification.
THEOREM TheLastOneWins == AllIndexed => (Spec => []LastOneWins)
<1> SUFFICES ASSUME AllIndexed PROVE Spec => []LastOneWins
  OBVIOUS
<1>1. (Init => IInv) /\ (IInv /\ [Next]_vars => IInv')
  BY TypeInductive
<1>2. Init => LastOneWins
  BY DEF Init, LastOneWins
<1>3. ASSUME LastOneWins, UNCHANGED vars PROVE LastOneWins'
  BY <1>3 DEF LastOneWins, vars
<1>4. ASSUME Restart PROVE LastOneWins'
  BY <1>4 DEF Restart, LastOneWins
<1>5. ASSUME IInv, NEW key \in Keys, NEW value \in YamlValues \cup SchemaValues, Add(key, value)
      PROVE  LastOneWins'
  <2>1. CASE ~override' \/ thrown'
    BY <2>1 DEF LastOneWins
  <2>2. CASE override' /\ ~thrown'
    <3>1. /\ IsTree(Map(Entry(key, value))) /\ IsTree(node)
          /\ node' = AddMap(node, Entry(key, value), override, is_schema) /\ node' # Thrown
          /\ override' = override /\ is_schema' = is_schema /\ added' = Append(added, <<key, value>>)
      BY <1>5, <2>2, Addition
    <3>2. override = TRUE /\ is_schema \in BOOLEAN
      BY <1>5, <2>2, <3>1 DEF IInv
    <3>3. IF is_schema THEN InForce(value) \subseteq InForce(node'.m[key]) ELSE Holds(node'.m[key], value)
      BY <3>1, <3>2, Overridden
    <3>4. Last(added') = <<key, value>> /\ Last(added')[1] = key /\ Last(added')[2] = value
      BY <1>5, <3>1 DEF IInv, Last
    <3> QED
      BY <3>1, <3>3, <3>4 DEF LastOneWins
  <2> QED
    BY <2>1, <2>2
<1>6. IInv /\ LastOneWins /\ [Next]_vars => LastOneWins'
  BY <1>3, <1>4, <1>5 DEF Next
<1> QED
  BY <1>1, <1>2, <1>6, PTL DEF Spec

-----------------------------------------------------------------------------
(* Without 'override' the order of the additions does not matter.          *)

\* Paths are sequences of keys.
IsPath(p) == p \in Seq(Range(p))

LEMMA PathAppended ==
  ASSUME NEW p, IsPath(p), NEW key
  PROVE  /\ IsPath(Append(p, key)) /\ Append(p, key) # <<>> /\ Range(Append(p, key)) = Range(p) \cup {key}
         /\ \A q, k : IsPath(q) /\ Append(p, key) = Append(q, k) => p = q /\ key = k
<1> DEFINE S == Range(p) \cup {key}
           a == Append(p, key)
<1>1. p \in Seq(S)
  BY SeqMonotonic DEF IsPath
<1>2. /\ a \in Seq(S) /\ a # <<>> /\ Len(a) = Len(p) + 1 /\ a[Len(p) + 1] = key
      /\ \A i \in 1..Len(p) : a[i] = p[i]
  BY <1>1, AppendProperties
<1>3. DOMAIN p = 1..Len(p) /\ Len(p) \in Nat /\ DOMAIN a = 1..Len(a)
  BY <1>1, <1>2, LenProperties
<1>4. Range(a) = S
  <2>1. DOMAIN a = DOMAIN p \cup {Len(p) + 1}
    BY <1>2, <1>3
  <2> HIDE DEF a
  <2>2. \A i \in DOMAIN p : a[i] = p[i]
    BY <1>2, <1>3
  <2> QED
    BY <1>2, <2>1, <2>2 DEF Range
<1>5. ASSUME NEW q, NEW k, IsPath(q), a = Append(q, k) PROVE p = q /\ key = k
  <2> DEFINE T == S \cup Range(q) \cup {k}
  <2>1. p \in Seq(T) /\ q \in Seq(T) /\ key \in T /\ k \in T
    BY <1>1, <1>5, SeqMonotonic DEF IsPath
  <2> HIDE DEF T, S
  <2> QED
    BY <1>5, <2>1, AppendInjective
<1> QED
  BY <1>2, <1>4, <1>5 DEF IsPath

\* What stands at a place of a node.
Stands(n, h, p, a) == <<p, a>> \in Levels(n, "nodes")[h]

LEMMA StandsDown ==
  ASSUME NEW n, NEW h \in 0..Height, NEW p, NEW a, Stands(n, h, p, a), NEW key \in DOMAIN Children(a)
  PROVE  Stands(n, h + 1, Append(p, key), Children(a)[key])
<1> DEFINE x == <<p, a>>
<1>1. x \in Levels(n, "nodes")[h] /\ x[1] = p /\ x[2] = a
  BY DEF Stands
<1> HIDE DEF x
<1>2. key \in DOMAIN Inside(x[2], "nodes") /\ Inside(x[2], "nodes")[key] = Children(a)[key]
  BY <1>1 DEF Inside
<1>3. <<Append(x[1], key), Inside(x[2], "nodes")[key]>> \in Levels(n, "nodes")[h + 1]
  BY <1>1, <1>2, LevelDown
<1> QED
  BY <1>1, <1>2, <1>3 DEF Stands

\* It stands there in something, unless it is the root, and its path is one.
InParent(n, h, y) ==
  \E p, a, key : /\ IsPath(p) /\ Stands(n, h, p, a) /\ key \in DOMAIN Children(a)
                 /\ y = <<Append(p, key), Children(a)[key]>>

LEMMA PathsInLevels ==
  ASSUME NEW n
  PROVE  /\ \A h \in 0..(Height + 1) : \A y \in Levels(n, "nodes")[h] : IsPath(y[1]) /\ y = <<y[1], y[2]>>
         /\ \A h \in 0..Height : \A y \in Levels(n, "nodes")[h + 1] : InParent(n, h, y)
<1> DEFINE T == {h \in 0..(Height + 1) : \A y \in Levels(n, "nodes")[h] : IsPath(y[1]) /\ y = <<y[1], y[2]>>}
<1>0. Height \in Nat /\ 0 \in 0..(Height + 1)
  BY HeightAssumption
<1>1. 0 \in T
  <2>1. \A y \in Levels(n, "nodes")[0] : y = << <<>>, n >>
    BY LevelsDefined
  <2>2. IsPath(<<>>)
    BY DEF IsPath
  <2> QED
    BY <1>0, <2>1, <2>2
<1>2. ASSUME NEW h \in 0..Height, h \in T, NEW y \in Levels(n, "nodes")[h + 1]
      PROVE  InParent(n, h, y) /\ IsPath(y[1]) /\ y = <<y[1], y[2]>>
  <2>1. PICK x \in Levels(n, "nodes")[h] : IsChild(y, x, "nodes")
    BY <1>2, LevelUp
  <2>2. PICK key \in DOMAIN Children(x[2]) : y = <<Append(x[1], key), Children(x[2])[key]>>
    BY <2>1 DEF IsChild, Inside
  <2>3. IsPath(x[1]) /\ x = <<x[1], x[2]>>
    BY <1>2, <2>1
  <2>4. Stands(n, h, x[1], x[2])
    BY <2>1, <2>3 DEF Stands
  <2>5. IsPath(Append(x[1], key))
    BY <2>3, PathAppended
  <2> QED
    BY <2>2, <2>3, <2>4, <2>5 DEF InParent
<1>3. ASSUME NEW h \in 0..(Height + 1), h < Height + 1, h \in T PROVE h + 1 \in T
  <2>1. h \in 0..Height /\ h + 1 \in 0..(Height + 1)
    BY <1>0, <1>3
  <2> QED
    BY <1>2, <1>3, <2>1
<1>4. 0..(Height + 1) \subseteq T
  <2> HIDE DEF T
  <2>1. Height + 1 \in Nat
    BY <1>0
  <2> QED
    BY <1>1, <1>3, <2>1, Induction
<1>5. \A h \in 0..Height : h \in T
  BY <1>0, <1>4
<1> QED
  BY <1>2, <1>4, <1>5

LEMMA StandsUp ==
  ASSUME NEW n, NEW h \in 0..Height, NEW p, IsPath(p), NEW key, NEW c, Stands(n, h + 1, Append(p, key), c)
  PROVE  \E a : Stands(n, h, p, a) /\ key \in DOMAIN Children(a) /\ c = Children(a)[key]
<1> DEFINE y == <<Append(p, key), c>>
<1>1. y \in Levels(n, "nodes")[h + 1]
  BY DEF Stands
<1>2. InParent(n, h, y)
  BY <1>1, PathsInLevels
<1>3. PICK q, a, k : /\ IsPath(q) /\ Stands(n, h, q, a) /\ k \in DOMAIN Children(a)
                     /\ y = <<Append(q, k), Children(a)[k]>>
  BY <1>2 DEF InParent
<1>4. Append(p, key) = Append(q, k) /\ c = Children(a)[k]
  BY <1>3
<1>5. p = q /\ key = k
  BY <1>3, <1>4, PathAppended
<1> QED
  BY <1>3, <1>4, <1>5

\* One thing at one place.
LEMMA OneStands ==
  ASSUME NEW n, NEW h \in 0..(Height + 1), NEW p, NEW a, NEW b, Stands(n, h, p, a), Stands(n, h, p, b)
  PROVE  a = b
<1> DEFINE T == {k \in 0..(Height + 1) : \A q, c, d : Stands(n, k, q, c) /\ Stands(n, k, q, d) => c = d}
<1>0. Height \in Nat /\ 0 \in 0..(Height + 1)
  BY HeightAssumption
<1>1. 0 \in T
  BY <1>0, LevelsDefined DEF Stands
<1>2. ASSUME NEW k \in 0..(Height + 1), k < Height + 1, k \in T PROVE k + 1 \in T
  <2>1. k \in 0..Height /\ k + 1 \in 0..(Height + 1)
    BY <1>0, <1>2
  <2>2. ASSUME NEW q, NEW c, NEW d, Stands(n, k + 1, q, c), Stands(n, k + 1, q, d) PROVE c = d
    <3>1. InParent(n, k, <<q, c>>)
      BY <2>1, <2>2, PathsInLevels DEF Stands
    <3>2. PICK r, e, key : /\ IsPath(r) /\ Stands(n, k, r, e) /\ key \in DOMAIN Children(e)
                           /\ <<q, c>> = <<Append(r, key), Children(e)[key]>>
      BY <3>1 DEF InParent
    <3>3. q = Append(r, key) /\ c = Children(e)[key]
      BY <3>2
    <3>4. \E f : Stands(n, k, r, f) /\ key \in DOMAIN Children(f) /\ d = Children(f)[key]
      BY <2>1, <2>2, <3>2, <3>3, StandsUp
    <3> QED
      BY <1>2, <3>2, <3>3, <3>4
  <2> QED
    BY <2>1, <2>2
<1>3. 0..(Height + 1) \subseteq T
  <2> HIDE DEF T
  <2>1. Height + 1 \in Nat
    BY <1>0
  <2> QED
    BY <1>1, <1>2, <2>1, Induction
<1>4. h \in T
  BY <1>3
<1> QED
  BY <1>4

\* A key that is no index is one of a map.
LEMMA NamedChild ==
  ASSUME AllIndexed, NEW n, IsNode(n), NEW key \in DOMAIN Children(n), key \notin Range(IndexKey)
  PROVE  n.t = "map" /\ Children(n) = n.m
<1>1. n.t # "seq"
  <2>1. ASSUME n.t = "seq" PROVE FALSE
    <3>0. DOMAIN Children(n) = {IndexKey[i] : i \in DOMAIN n.s}
      BY <2>1, ChildrenOfSequence
    <3>1. PICK i \in DOMAIN n.s : key = IndexKey[i]
      BY <3>0
    <3>2. n.s \in Seq(Range(n.s))
      BY <2>1 DEF IsNode
    <3>3. i \in Nat \ {0}
      BY <3>2, LenProperties
    <3> QED
      BY <3>1, <3>3 DEF AllIndexed, Range
  <2> QED
    BY <2>1
<1> QED
  BY <1>1 DEF IsNode, Children

\* Where a node in the result is from, by place.
Origin(old, children, h, p, m) ==
  \/ Stands(old, h, p, m) /\ \A b : ~Stands(Map(children), h, p, b)
  \/ Stands(Map(children), h, p, m) /\ \A a : ~Stands(old, h, p, a)
  \/ \E a, b : /\ Stands(old, h, p, a) /\ Stands(Map(children), h, p, b)
               /\ Made(old, children, FALSE, FALSE, h, <<a, b>>, m)

\* In a tree, what stands at a place is a node, and it is one of a map if it is plain.
LEMMA StandsNode ==
  ASSUME NEW n, IsTree(n), NEW h \in 0..Height, NEW p, NEW a, Stands(n, h, p, a)
  PROVE  /\ IsNode(a)
         /\ Plain(n) /\ Named(p) /\ a.t = "map" => DOMAIN a.m # {} /\ DOMAIN a.m \cap Range(IndexKey) = {}
<1> DEFINE x == <<p, a>>
<1>1. x \in Places(n, "nodes") /\ x[1] = p /\ x[2] = a
  BY DEF Stands, Places
<1> HIDE DEF x
<1>2. IsNode(x[2])
  BY <1>1 DEF IsTree
<1> QED
  BY <1>1, <1>2 DEF Plain

\* What was made of two nodes at a named place, with a value that is plain.
LEMMA PlainCases ==
  ASSUME AllIndexed, NEW old, NEW children, IsTree(old), IsTree(Map(children)), Plain(Map(children)),
         NEW h \in 0..Height, NEW p, Named(p), NEW a, NEW b, Stands(old, h, p, a), Stands(Map(children), h, p, b),
         NEW m, Made(old, children, FALSE, FALSE, h, <<a, b>>, m)
  PROVE  \/ m = a /\ b.t = "seq" /\ b.s = <<>>
         \/ Appended(a, b, FALSE, m)
         \/ MadeOfChildren(old, children, FALSE, FALSE, h, <<a, b>>, m)
<1> DEFINE x == <<a, b>>
<1>1. \/ Kept(a, b, FALSE, m)
      \/ Replaced(a, b, FALSE, FALSE, m)
      \/ Appended(a, b, FALSE, m)
      \/ MadeOfChildren(old, children, FALSE, FALSE, h, x, m)
  <2>1. x[1] = a /\ x[2] = b /\ Made(old, children, FALSE, FALSE, h, x, m)
    OBVIOUS
  <2> HIDE DEF x
  <2> QED
    BY <2>1, MadeCases
<1>2. b.t = "map" => DOMAIN b.m # {}
  BY StandsNode
<1> QED
  BY <1>1, <1>2 DEF Kept, Replaced

\* The children are from where the node is from, one level below.
LEMMA OriginDown ==
  ASSUME AllIndexed, NEW old, NEW children, IsTree(old), IsTree(Map(children)), Plain(Map(children)),
         NEW h \in 0..Height, NEW p, IsPath(p), Named(p), NEW m, Origin(old, children, h, p, m),
         NEW key \in DOMAIN Children(m), key \notin Range(IndexKey)
  PROVE  Origin(old, children, h + 1, Append(p, key), Children(m)[key])
<1> DEFINE q == Append(p, key)
           c == Children(m)[key]
           value == Map(children)
<1>0. h \in 0..(Height + 1)
  BY HeightAssumption
<1>1. CASE Stands(old, h, p, m) /\ \A b : ~Stands(value, h, p, b)
  <2>1. Stands(old, h + 1, q, c)
    BY <1>1, StandsDown
  <2>2. \A b : ~Stands(value, h + 1, q, b)
    BY <1>1, StandsUp
  <2> QED
    BY <2>1, <2>2 DEF Origin
<1>2. CASE Stands(value, h, p, m) /\ \A a : ~Stands(old, h, p, a)
  <2>1. Stands(value, h + 1, q, c)
    BY <1>2, StandsDown
  <2>2. \A b : ~Stands(old, h + 1, q, b)
    BY <1>2, StandsUp
  <2> QED
    BY <2>1, <2>2 DEF Origin
<1>3. ASSUME NEW a, NEW b, Stands(old, h, p, a), Stands(value, h, p, b),
             Made(old, children, FALSE, FALSE, h, <<a, b>>, m)
      PROVE  Origin(old, children, h + 1, q, c)
  <2>0. IsNode(a) /\ IsNode(b)
    BY <1>3, StandsNode
  <2>1. ASSUME NEW d, Stands(old, h + 1, q, d) PROVE key \in DOMAIN Children(a) /\ d = Children(a)[key]
    <3>1. PICK e : Stands(old, h, p, e) /\ key \in DOMAIN Children(e) /\ d = Children(e)[key]
      BY <2>1, StandsUp
    <3> QED
      BY <1>0, <1>3, <3>1, OneStands
  <2>2. ASSUME NEW d, Stands(value, h + 1, q, d) PROVE b.t = "map" /\ key \in DOMAIN b.m /\ d = b.m[key]
    <3>1. PICK e : Stands(value, h, p, e) /\ key \in DOMAIN Children(e) /\ d = Children(e)[key]
      BY <2>2, StandsUp
    <3>2. e = b
      BY <1>0, <1>3, <3>1, OneStands
    <3> QED
      BY <2>0, <3>1, <3>2, NamedChild
  <2>3. CASE m = a /\ b.t = "seq" /\ b.s = <<>>
    <3>1. Stands(old, h + 1, q, c)
      BY <1>3, <2>3, StandsDown
    <3>2. \A d : ~Stands(value, h + 1, q, d)
      BY <2>2, <2>3
    <3> QED
      BY <3>1, <3>2 DEF Origin
  <2>4. CASE Appended(a, b, FALSE, m)
    <3>1. m.t = "seq"
      BY <2>4 DEF Appended, Seq_
    <3>2. Origin(old, children, h, p, m)
      OBVIOUS
    <3>3. From(old, children, FALSE, FALSE, h, m)
      BY <1>3 DEF From
    <3>4. IsNode(m)
      BY <3>3, FromDown
    <3> QED
      BY <3>1, <3>4, NamedChild
  <2>5. CASE MadeOfChildren(old, children, FALSE, FALSE, h, <<a, b>>, m)
    <3> DEFINE x == <<a, b>>
    <3>1. x[1] = a /\ x[2] = b
      OBVIOUS
    <3>2. MadeOfChildren(old, children, FALSE, FALSE, h, x, m)
      BY <2>5
    <3> HIDE DEF x
    <3>3. m.t = "map" /\ b.t = "map" /\ Children(m) = m.m /\ Children(b) = b.m /\ key \in DOMAIN m.m
      BY <3>1, <3>2 DEF MadeOfChildren, Children
    <3>4. CASE /\ key \in DOMAIN Children(a) \cap DOMAIN b.m
               /\ Made(old, children, FALSE, FALSE, h + 1, <<Children(a)[key], b.m[key]>>, m.m[key])
      <4>1. Stands(old, h + 1, q, Children(a)[key]) /\ Stands(value, h + 1, q, b.m[key])
        <5>1. Stands(old, h + 1, q, Children(a)[key])
          BY <1>3, <3>4, StandsDown
        <5>2. Stands(value, h + 1, q, Children(b)[key])
          <6>1. key \in DOMAIN Children(b)
            BY <3>3, <3>4
          <6> QED
            BY <1>3, <6>1, StandsDown
        <5> QED
          BY <3>3, <5>1, <5>2
      <4> QED
        BY <3>3, <3>4, <4>1 DEF Origin
    <3>5. CASE key \in DOMAIN b.m \ DOMAIN Children(a) /\ m.m[key] = b.m[key]
      <4>1. Stands(value, h + 1, q, Children(b)[key])
        <5>1. key \in DOMAIN Children(b)
          BY <3>3, <3>5
        <5> QED
          BY <1>3, <5>1, StandsDown
      <4>2. \A d : ~Stands(old, h + 1, q, d)
        BY <2>1, <3>5
      <4>3. c = Children(b)[key]
        BY <3>3, <3>5
      <4> QED
        BY <4>1, <4>2, <4>3 DEF Origin
    <3>6. CASE key \in DOMAIN Children(a) \ DOMAIN b.m /\ m.m[key] = Children(a)[key]
      <4>1. Stands(old, h + 1, q, Children(a)[key])
        BY <1>3, <3>6, StandsDown
      <4>2. \A d : ~Stands(value, h + 1, q, d)
        BY <2>2, <3>6
      <4>3. c = Children(a)[key]
        BY <3>3, <3>6
      <4> QED
        BY <4>1, <4>2, <4>3 DEF Origin
    <3> QED
      BY <3>1, <3>2, <3>3, <3>4, <3>5, <3>6 DEF MadeOfChildren
  <2> QED
    BY <1>3, <2>3, <2>4, <2>5, PlainCases
<1> QED
  BY <1>1, <1>2, <1>3 DEF Origin

LEMMA NamedAppended ==
  ASSUME NEW p, IsPath(p), NEW key
  PROVE  Named(Append(p, key)) <=> Named(p) /\ key \notin Range(IndexKey)
BY PathAppended DEF Named

\* So everything at a named place has such an origin.
LEMMA Origins ==
  ASSUME AllIndexed, NEW old, NEW children, IsTree(old), IsTree(Map(children)), Plain(Map(children)),
         NEW r, r = AddMap(old, children, FALSE, FALSE), r # Thrown
  PROVE  \A h \in 0..Height : \A p, m : Named(p) /\ Stands(r, h, p, m) => Origin(old, children, h, p, m)
<1> DEFINE T == {h \in 0..Height : \A p, m : Named(p) /\ Stands(r, h, p, m) => Origin(old, children, h, p, m)}
           value == Map(children)
<1>0. Height \in Nat /\ 0 \in 0..Height
  BY HeightAssumption
<1>1. 0 \in T
  <2>1. Stands(old, 0, <<>>, old) /\ Stands(value, 0, <<>>, value)
    BY LevelsDefined DEF Stands
  <2>2. <<old, value>> \in PairLevels(old, value)[0]
    BY PairLevelsDefined
  <2>3. Made(old, children, FALSE, FALSE, 0, <<old, value>>, r)
    BY <2>2 DEF Made
  <2>4. Origin(old, children, 0, <<>>, r)
    BY <2>1, <2>3 DEF Origin
  <2>5. \A p, m : Stands(r, 0, p, m) => p = <<>> /\ m = r
    <3>1. Levels(r, "nodes")[0] = {<< <<>>, r >>}
      BY LevelsDefined
    <3> QED
      BY <3>1 DEF Stands
  <2> QED
    BY <1>0, <2>4, <2>5
<1>2. ASSUME NEW h \in 0..Height, h < Height, h \in T PROVE h + 1 \in T
  <2>1. h + 1 \in 0..Height
    BY <1>0, <1>2
  <2>2. ASSUME NEW q, NEW c, Named(q), Stands(r, h + 1, q, c) PROVE Origin(old, children, h + 1, q, c)
    <3>1. InParent(r, h, <<q, c>>)
      BY <2>2, PathsInLevels DEF Stands
    <3>2. PICK p, m, key : /\ IsPath(p) /\ Stands(r, h, p, m) /\ key \in DOMAIN Children(m)
                           /\ <<q, c>> = <<Append(p, key), Children(m)[key]>>
      BY <3>1 DEF InParent
    <3>3. q = Append(p, key) /\ c = Children(m)[key]
      BY <3>2
    <3>4. Named(p) /\ key \notin Range(IndexKey)
      BY <2>2, <3>2, <3>3, NamedAppended
    <3>5. Origin(old, children, h, p, m)
      BY <1>2, <3>2, <3>4
    <3> QED
      BY <3>2, <3>3, <3>4, <3>5, OriginDown
  <2> QED
    BY <2>1, <2>2
<1>3. 0..Height \subseteq T
  <2> HIDE DEF T
  <2> QED
    BY <1>0, <1>1, <1>2, Induction
<1> QED
  BY <1>3

\* Every named place of the two nodes is one of the result.
LEMMA Covered ==
  ASSUME AllIndexed, NEW old, NEW children, IsTree(old), IsTree(Map(children)), Plain(Map(children)),
         NEW r, r = AddMap(old, children, FALSE, FALSE), r # Thrown, NEW g \in 0..Height, NEW e, Named(e), NEW d,
         Stands(old, g, e, d) \/ Stands(Map(children), g, e, d)
  PROVE  \E m : Stands(r, g, e, m)
<1> DEFINE value == Map(children)
           T == {h \in 0..Height : \A p, b : Named(p) /\ Stands(value, h, p, b) => \E m : Stands(r, h, p, m)}
<1>0. Height \in Nat /\ 0 \in 0..Height
  BY HeightAssumption
<1>1. 0 \in T
  <2>1. Levels(r, "nodes")[0] = {<< <<>>, r >>} /\ Levels(value, "nodes")[0] = {<< <<>>, value >>}
    BY LevelsDefined
  <2>2. Stands(r, 0, <<>>, r) /\ \A p, b : Stands(value, 0, p, b) => p = <<>>
    BY <2>1 DEF Stands
  <2> QED
    BY <1>0, <2>2
<1>2. ASSUME NEW h \in 0..Height, h < Height, h \in T PROVE h + 1 \in T
  <2>1. h + 1 \in 0..Height /\ h \in 0..(Height + 1)
    BY <1>0, <1>2
  <2>2. ASSUME NEW q, NEW c, Named(q), Stands(value, h + 1, q, c) PROVE \E m : Stands(r, h + 1, q, m)
    <3>1. InParent(value, h, <<q, c>>)
      BY <2>2, PathsInLevels DEF Stands
    <3>2. PICK p, b, key : /\ IsPath(p) /\ Stands(value, h, p, b) /\ key \in DOMAIN Children(b)
                           /\ <<q, c>> = <<Append(p, key), Children(b)[key]>>
      BY <3>1 DEF InParent
    <3>3. q = Append(p, key)
      BY <3>2
    <3>4. Named(p) /\ key \notin Range(IndexKey)
      BY <2>2, <3>2, <3>3, NamedAppended
    <3>5. b.t = "map" /\ key \in DOMAIN b.m
      <4>1. IsNode(b)
        BY <3>2, StandsNode
      <4> QED
        BY <3>2, <3>4, <4>1, NamedChild
    <3>6. PICK m : Stands(r, h, p, m)
      BY <1>2, <3>2, <3>4
    <3>7. Origin(old, children, h, p, m)
      BY <3>4, <3>6, Origins
    <3>8. key \in DOMAIN Children(m)
      <4>1. CASE Stands(value, h, p, m)
        BY <2>1, <3>2, <4>1, OneStands
      <4>2. ASSUME NEW a, NEW f, Stands(old, h, p, a), Stands(value, h, p, f),
                   Made(old, children, FALSE, FALSE, h, <<a, f>>, m)
            PROVE  key \in DOMAIN Children(m)
        <5>1. f = b
          BY <2>1, <3>2, <4>2, OneStands
        <5>2. MadeOfChildren(old, children, FALSE, FALSE, h, <<a, f>>, m)
          BY <3>4, <3>5, <4>2, <5>1, PlainCases DEF Appended
        <5> QED
          BY <3>5, <5>1, <5>2 DEF MadeOfChildren, Children
      <4> QED
        BY <3>2, <3>7, <4>1, <4>2 DEF Origin
    <3> QED
      BY <3>3, <3>6, <3>8, StandsDown
  <2> QED
    BY <2>1, <2>2
<1>3. 0..Height \subseteq T
  <2> HIDE DEF T
  <2> QED
    BY <1>0, <1>1, <1>2, Induction
<1>4. CASE Stands(value, g, e, d)
  BY <1>3, <1>4
<1>5. CASE Stands(old, g, e, d)
  <2> DEFINE z == <<e, d>>
  <2>1. z \in Levels(old, "nodes")[g] /\ z[1] = e
    BY <1>5 DEF Stands
  <2> HIDE DEF z
  <2>2. KeptAt(old, children, FALSE, g, z, r)
    BY <2>1, KeepsPlaces
  <2>3. PICK y \in Levels(r, "nodes")[g] : y[1] = e
    BY <2>1, <2>2 DEF KeptAt
  <2>4. y = <<e, y[2]>>
    <3>1. g \in 0..(Height + 1)
      BY <1>0
    <3> QED
      BY <2>3, <3>1, PathsInLevels
  <2> QED
    BY <2>3, <2>4 DEF Stands
<1> QED
  BY <1>4, <1>5

-----------------------------------------------------------------------------
\* Two functions with the same values, place by place, have each of them as often.
LEMMA SameTimes ==
  ASSUME NEW S, NEW F, NEW G, IsFiniteSet(DOMAIN F),
         NEW f \in Bijection(S, DOMAIN F), NEW g \in Bijection(S, DOMAIN G), \A q \in S : F[f[q]] = G[g[q]]
  PROVE  Times(F) = Times(G)
<1>1. /\ f \in [S -> DOMAIN F] /\ \A q, r \in S : f[q] = f[r] => q = r
      /\ \A i \in DOMAIN F : \E q \in S : f[q] = i
  BY DEF Bijection, Injection, Surjection, IsInjective
<1>2. /\ g \in [S -> DOMAIN G] /\ \A q, r \in S : g[q] = g[r] => q = r
      /\ \A i \in DOMAIN G : \E q \in S : g[q] = i
  BY DEF Bijection, Injection, Surjection, IsInjective
<1>3. Range(F) = Range(G)
  BY <1>1, <1>2 DEF Range
<1>4. ASSUME NEW e PROVE Cardinality({i \in DOMAIN F : F[i] = e}) = Cardinality({i \in DOMAIN G : G[i] = e})
  <2> DEFINE A == {i \in DOMAIN F : F[i] = e}
             B == {i \in DOMAIN G : G[i] = e}
             At(i) == CHOOSE q \in S : f[q] = i
             to == [i \in A |-> g[At(i)]]
  <2>1. IsFiniteSet(A)
    BY FS_Subset
  <2>2. \A i \in A : At(i) \in S /\ f[At(i)] = i
    BY <1>1
  <2>3. \A q \in S : f[q] \in A => At(f[q]) = q
    BY <1>1, <2>2
  <2> HIDE DEF At
  <2>4. to \in [A -> B]
    BY <1>1, <1>2, <2>2
  <2>5. \A i, j \in A : to[i] = to[j] => i = j
    BY <1>2, <2>2
  <2>6. \A j \in B : \E i \in A : to[i] = j
    <3> TAKE j \in B
    <3>1. PICK q \in S : g[q] = j
      BY <1>2
    <3>2. f[q] \in A
      BY <1>1, <3>1
    <3> QED
      BY <2>3, <3>1, <3>2
  <2>7. to \in Bijection(A, B)
    <3>1. DOMAIN to = A
      OBVIOUS
    <3> HIDE DEF to, A, B
    <3> QED
      BY <2>4, <2>5, <2>6, <3>1 DEF Bijection, Injection, Surjection, IsInjective
  <2> HIDE DEF to, A, B
  <2>8. Cardinality(B) = Cardinality(A)
    BY <2>1, <2>7, FS_Bijection DEF ExistsBijection
  <2> QED
    BY <2>8 DEF A, B
<1> QED
  BY <1>3, <1>4 DEF Times

\* The elements of those nodes, with the number of the addition, that are sequences.
Slots(given) == UNION {{<<q, j>> : j \in DOMAIN q[2].s} : q \in {g \in given : g[2].t = "seq"}}

\* The elements of m are all of them, in some order.
Gathers(given, m) ==
  /\ IsFiniteSet(DOMAIN Elements(m))
  /\ \E f \in Bijection(Slots(given), DOMAIN Elements(m)) :
       \A x \in Slots(given) : Elements(m)[f[x]] = x[1][2].s[x[2]]

\* What m is when these nodes have been added at its place, in whatever order.
Sums(given, m) ==
  /\ m.t \in {"null", "scalar", "seq", "map"}
  /\ \A q \in given : q[2].t = "scalar" => m = q[2]
  /\ m.t = "scalar" => \E q \in given : q[2].t = "scalar"
  /\ m.t = "map" <=> \E q \in given : q[2].t = "map"
  /\ m.t = "null" =>
       /\ \A q \in given : q[2].t = "null" \/ (q[2].t = "seq" /\ q[2].s = <<>>)
       /\ given # {} => \E q \in given : q[2].t = "null"
  /\ m.t = "seq" =>
       /\ \A q \in given : q[2].t \in {"null", "seq"}
       /\ \E q \in given : q[2].t = "seq"
       /\ (\E q \in given : q[2].t = "null") => \E q \in given : q[2].t = "seq" /\ q[2].s # <<>>
  /\ Gathers(given, m)

\* So it is the same but for the order of elements.
LEMMA SumsAgree ==
  ASSUME NEW given, NEW m, NEW n, Sums(given, m), Sums(given, n)
  PROVE  m.t = n.t /\ (m.t = "scalar" => m = n) /\ Times(Elements(m)) = Times(Elements(n))
<1>1. m.t = "scalar" \/ n.t = "scalar" => m = n
  BY DEF Sums
<1>2. m.t = "map" <=> n.t = "map"
  BY DEF Sums
<1>3. ~(m.t = "null" /\ n.t = "seq") /\ ~(n.t = "null" /\ m.t = "seq")
  BY DEF Sums
<1>4. m.t = n.t
  BY <1>1, <1>2, <1>3 DEF Sums
<1>5. PICK f \in Bijection(Slots(given), DOMAIN Elements(m)) :
             \A x \in Slots(given) : Elements(m)[f[x]] = x[1][2].s[x[2]]
  BY DEF Sums, Gathers
<1>6. PICK g \in Bijection(Slots(given), DOMAIN Elements(n)) :
             \A x \in Slots(given) : Elements(n)[g[x]] = x[1][2].s[x[2]]
  BY DEF Sums, Gathers
<1>7. Times(Elements(m)) = Times(Elements(n))
  <2> DEFINE F == Elements(m)
             G == Elements(n)
             S == Slots(given)
  <2>1. f \in Bijection(S, DOMAIN F) /\ g \in Bijection(S, DOMAIN G) /\ \A x \in S : F[f[x]] = G[g[x]]
    BY <1>5, <1>6
  <2>2. IsFiniteSet(DOMAIN F)
    BY DEF Sums, Gathers
  <2> HIDE DEF F, G, S
  <2>3. Times(F) = Times(G)
    BY <2>1, <2>2, SameTimes
  <2> QED
    BY <2>3 DEF F, G
<1> QED
  BY <1>1, <1>4, <1>7

LEMMA ElementsOfSequence ==
  ASSUME AllIndexed, NEW n, n.t = "seq", IsNode(n)
  PROVE  /\ DOMAIN Elements(n) = {IndexKey[j] : j \in DOMAIN n.s}
         /\ \A j \in DOMAIN n.s : Elements(n)[IndexKey[j]] = n.s[j]
<1>1. /\ DOMAIN Children(n) = {IndexKey[j] : j \in DOMAIN n.s}
      /\ \A j \in DOMAIN n.s : Children(n)[IndexKey[j]] = n.s[j]
  BY ChildrenOfSequence
<1>2. \A j \in DOMAIN n.s : j \in Nat \ {0}
  BY LenProperties DEF IsNode
<1>3. DOMAIN Children(n) \subseteq Range(IndexKey)
  BY <1>1, <1>2 DEF AllIndexed, Range
<1> QED
  BY <1>1, <1>3 DEF Elements, Restrict

LEMMA NoElements ==
  ASSUME NEW n, n.t \in {"null", "scalar"} \/ (n.t = "map" /\ DOMAIN n.m \cap Range(IndexKey) = {})
  PROVE  DOMAIN Elements(n) = {}
BY DEF Elements, Restrict, Children

\* Nothing is gathered from no sequence.
LEMMA GathersNone ==
  ASSUME NEW given, Slots(given) = {}, NEW m, DOMAIN Elements(m) = {}
  PROVE  Gathers(given, m)
<1> DEFINE f == [x \in {} |-> x]
<1>1. f \in Bijection({}, {})
  BY DEF Bijection, Injection, Surjection, IsInjective
<1> HIDE DEF f
<1>2. f \in Bijection(Slots(given), DOMAIN Elements(m))
  BY <1>1
<1>3. IsFiniteSet(DOMAIN Elements(m))
  BY FS_EmptySet
<1> QED
  BY <1>2, <1>3 DEF Gathers

\* The slots of one more node.
LEMMA SlotsAdded ==
  ASSUME NEW given, NEW q
  PROVE  Slots(given \cup {q}) = Slots(given) \cup {<<q, j>> : j \in IF q[2].t = "seq" THEN DOMAIN q[2].s ELSE {}}
BY DEF Slots

LEMMA SlotsSame ==
  ASSUME NEW given, NEW q, q[2].t = "seq" => q[2].s = <<>>
  PROVE  Slots(given \cup {q}) = Slots(given)
<1> DEFINE more == {<<q, j>> : j \in IF q[2].t = "seq" THEN DOMAIN q[2].s ELSE {}}
<1>1. more = {}
  OBVIOUS
<1>2. Slots(given \cup {q}) = Slots(given) \cup more
  BY SlotsAdded
<1> HIDE DEF more
<1> QED
  BY <1>1, <1>2

LEMMA GathersSame ==
  ASSUME NEW given, NEW all, NEW a, NEW m, Gathers(given, a), Slots(all) = Slots(given), Elements(m) = Elements(a)
  PROVE  Gathers(all, m)
<1> DEFINE F == Elements(a)
           S == Slots(given)
<1>1. PICK f \in Bijection(S, DOMAIN F) : \A x \in S : F[f[x]] = x[1][2].s[x[2]]
  BY DEF Gathers
<1>2. IsFiniteSet(DOMAIN F)
  BY DEF Gathers
<1>3. F = Elements(m) /\ S = Slots(all)
  OBVIOUS
<1> HIDE DEF F, S
<1> QED
  BY <1>1, <1>2, <1>3 DEF Gathers

\* One more sequence is appended to what is there, which may be nothing.
LEMMA GathersAppended ==
  ASSUME AllIndexed, NEW given, NEW a, IsNode(a), a.t \in {"null", "seq"}, Gathers(given, a),
         NEW i, NEW b, b.t = "seq", IsNode(b), <<i, b>> \notin given,
         NEW m, m = Seq_(IF a.t = "null" THEN b.s ELSE a.s \o b.s)
  PROVE  Gathers(given \cup {<<i, b>>}, m)
<1> DEFINE front == IF a.t = "null" THEN <<>> ELSE a.s
           q == <<i, b>>
           S == Slots(given)
           all == given \cup {q}
           new == {<<q, j>> : j \in DOMAIN b.s}
           L == Len(front)
<1>1. front \in Seq(Range(front)) /\ b.s \in Seq(Range(b.s))
  <2>1. <<>> \in Seq(Range(<<>>))
    OBVIOUS
  <2>2. CASE a.t = "null"
    BY <2>1, <2>2 DEF IsNode
  <2>3. CASE a.t = "seq"
    BY <2>3 DEF IsNode
  <2> QED
    BY <2>2, <2>3
<1>2. m.t = "seq" /\ m.s = front \o b.s
  <2>1. CASE a.t = "null"
    BY <1>1, <2>1, ConcatEmptySeq DEF Seq_
  <2>2. CASE a.t = "seq"
    BY <2>2 DEF Seq_
  <2> QED
    BY <2>1, <2>2
<1>3. /\ DOMAIN Elements(a) = {IndexKey[j] : j \in DOMAIN front}
      /\ \A j \in DOMAIN front : Elements(a)[IndexKey[j]] = front[j]
  <2>1. CASE a.t = "null"
    <3>1. DOMAIN Elements(a) = {} /\ DOMAIN front = {}
      BY <2>1, NoElements
    <3> QED
      BY <3>1
  <2>2. CASE a.t = "seq"
    BY <2>2, ElementsOfSequence
  <2> QED
    BY <2>1, <2>2
<1> HIDE DEF front
<1>4. /\ m.s \in Seq(Range(m.s)) /\ DOMAIN m.s = 1..(L + Len(b.s)) /\ L \in Nat /\ Len(b.s) \in Nat
      /\ DOMAIN front = 1..L /\ DOMAIN b.s = 1..Len(b.s)
      /\ \A j \in DOMAIN front : m.s[j] = front[j]
      /\ \A j \in DOMAIN b.s : L + j \in DOMAIN m.s /\ m.s[L + j] = b.s[j]
  <2> DEFINE back == b.s
             both == front \o back
  <2>1. back \in Seq(Range(back)) /\ m.s = both
    BY <1>1, <1>2
  <2> HIDE DEF back, L
  <2>2. /\ both \in Seq(Range(both)) /\ DOMAIN both = 1..(Len(front) + Len(back))
        /\ Len(front) \in Nat /\ Len(back) \in Nat /\ DOMAIN front = 1..Len(front) /\ DOMAIN back = 1..Len(back)
        /\ \A j \in DOMAIN front : both[j] = front[j]
        /\ \A j \in DOMAIN back : Len(front) + j \in DOMAIN both /\ both[Len(front) + j] = back[j]
    BY <1>1, <2>1, Concatenation
  <2> HIDE DEF both
  <2> QED
    BY <2>1, <2>2 DEF back, L
<1>5. /\ DOMAIN Elements(m) = {IndexKey[j] : j \in DOMAIN m.s}
      /\ \A j \in DOMAIN m.s : Elements(m)[IndexKey[j]] = m.s[j]
  <2>1. IsNode(m)
    BY <1>2, <1>4 DEF IsNode
  <2> QED
    BY <1>2, <2>1, ElementsOfSequence
<1> HIDE DEF L
<1>6. Slots(all) = S \cup new
  <2>1. q[2] = b
    OBVIOUS
  <2> HIDE DEF q
  <2> QED
    BY <2>1, SlotsAdded
<1>7. \A x \in S : x[1] # q
  BY DEF Slots
<1>8. PICK f \in Bijection(S, DOMAIN Elements(a)) : \A x \in S : Elements(a)[f[x]] = x[1][2].s[x[2]]
  BY DEF Gathers
<1>9. /\ f \in [S -> DOMAIN Elements(a)] /\ \A x, y \in S : f[x] = f[y] => x = y
      /\ \A e \in DOMAIN Elements(a) : \E x \in S : f[x] = e
  BY <1>8 DEF Bijection, Injection, Surjection, IsInjective
<1>10. \A j, k \in DOMAIN m.s : IndexKey[j] = IndexKey[k] => j = k
  BY <1>4, IndexAssumption DEF AllIndexed
<1> DEFINE g == [x \in Slots(all) |-> IF x[1] = q THEN IndexKey[L + x[2]] ELSE f[x]]
<1>11. \A x \in S : x \in Slots(all) /\ g[x] = f[x] /\ \E j \in DOMAIN front : f[x] = IndexKey[j] /\ j \in DOMAIN m.s
  <2>1. \A j \in DOMAIN front : j \in DOMAIN m.s
    BY <1>4
  <2>2. ASSUME NEW x \in S PROVE x \in Slots(all) /\ g[x] = f[x] /\ f[x] \in DOMAIN Elements(a)
    BY <1>6, <1>7, <1>9
  <2> HIDE DEF g, S, all
  <2> QED
    BY <1>3, <2>1, <2>2
<1>12. \A j \in DOMAIN b.s : <<q, j>> \in Slots(all) /\ g[<<q, j>>] = IndexKey[L + j]
  BY <1>6
<1>13. \A x \in new : \E j \in DOMAIN b.s : x = <<q, j>>
  OBVIOUS
<1>14. DOMAIN g = Slots(all)
  OBVIOUS
<1> HIDE DEF g, new, S, q, all
<1>15. ASSUME NEW x \in Slots(all) PROVE g[x] \in DOMAIN Elements(m) /\ Elements(m)[g[x]] = x[1][2].s[x[2]]
  <2>1. CASE x \in S
    <3>1. PICK j \in DOMAIN front : f[x] = IndexKey[j] /\ j \in DOMAIN m.s
      BY <1>11, <2>1
    <3> QED
      BY <1>3, <1>4, <1>5, <1>8, <1>11, <2>1, <3>1
  <2>2. CASE x \in new
    <3>1. PICK j \in DOMAIN b.s : x = <<q, j>>
      BY <1>13, <2>2
    <3>2. x[1][2] = b /\ x[2] = j
      BY <3>1 DEF q
    <3>3. L + j \in DOMAIN m.s /\ m.s[L + j] = b.s[j] /\ g[x] = IndexKey[L + j]
      BY <1>4, <1>12, <3>1
    <3>4. g[x] \in DOMAIN Elements(m) /\ Elements(m)[g[x]] = b.s[j]
      BY <1>5, <3>3
    <3> QED
      BY <3>2, <3>4
  <2> QED
    BY <1>6, <2>1, <2>2
<1>16. ASSUME NEW x \in Slots(all), NEW y \in Slots(all), g[x] = g[y] PROVE x = y
  <2>1. CASE x \in S /\ y \in S
    BY <1>9, <1>11, <1>16, <2>1
  <2>2. ASSUME NEW u \in S, NEW v \in new PROVE g[u] # g[v]
    <3>1. PICK j \in DOMAIN front : g[u] = IndexKey[j] /\ j \in DOMAIN m.s
      BY <1>11
    <3>2. PICK k \in DOMAIN b.s : v = <<q, k>>
      BY <1>13
    <3>3. g[v] = IndexKey[L + k] /\ L + k \in DOMAIN m.s /\ j # L + k
      BY <1>4, <1>12, <3>2
    <3> QED
      BY <1>10, <3>1, <3>3
  <2>3. CASE x \in new /\ y \in new
    <3>1. PICK j \in DOMAIN b.s, k \in DOMAIN b.s : x = <<q, j>> /\ y = <<q, k>>
      BY <1>13, <2>3
    <3>2. L + j \in DOMAIN m.s /\ L + k \in DOMAIN m.s /\ IndexKey[L + j] = IndexKey[L + k]
      BY <1>4, <1>12, <1>16, <3>1
    <3>3. L + j = L + k
      BY <1>10, <3>2
    <3> QED
      BY <1>4, <3>1, <3>3
  <2> QED
    BY <1>6, <1>16, <2>1, <2>2, <2>3
<1>17. ASSUME NEW e \in DOMAIN Elements(m) PROVE \E x \in Slots(all) : g[x] = e
  <2>1. PICK j \in DOMAIN m.s : e = IndexKey[j]
    BY <1>5
  <2>2. CASE j \in DOMAIN front
    <3>1. e \in DOMAIN Elements(a)
      BY <1>3, <2>1, <2>2
    <3> QED
      BY <1>9, <1>11, <3>1
  <2>3. CASE j \notin DOMAIN front
    <3>1. j - L \in DOMAIN b.s /\ L + (j - L) = j
      BY <1>4, <2>3
    <3> QED
      BY <1>12, <2>1, <3>1
  <2> QED
    BY <2>2, <2>3
<1>18. g \in Bijection(Slots(all), DOMAIN Elements(m))
  <2>1. g \in [Slots(all) -> DOMAIN Elements(m)]
    <3>1. g = [x \in Slots(all) |-> g[x]]
      BY DEF g
    <3> QED
      BY <1>15, <3>1
  <2> QED
    BY <1>14, <1>16, <1>17, <2>1 DEF Bijection, Injection, Surjection, IsInjective
<1>19. IsFiniteSet(DOMAIN Elements(m))
  <2> DEFINE N == L + Len(b.s)
             e == [j \in 1..N |-> IndexKey[j]]
  <2>1. N \in Nat /\ DOMAIN m.s = 1..N
    BY <1>4
  <2> HIDE DEF N
  <2>2. DOMAIN e = 1..N /\ e \in Surjection(1..N, DOMAIN Elements(m))
    BY <1>5, <2>1 DEF Surjection
  <2> QED
    BY <2>1, <2>2, FS_Interval, FS_Surjection
<1> QED
  BY <1>15, <1>18, <1>19 DEF Gathers, all, q

\* A node without the keys of elements, or with those of a sequence.
Clear(n) == n.t = "map" => DOMAIN n.m \cap Range(IndexKey) = {}

\* One node is the sum of itself.
LEMMA SumsOne ==
  ASSUME AllIndexed, NEW i, NEW b, IsNode(b), Clear(b)
  PROVE  Sums({<<i, b>>}, b)
<1> DEFINE q == <<i, b>>
<1>1. Gathers({q}, b)
  <2>1. CASE b.t = "seq"
    <3>1. Gathers({}, Null)
      BY GathersNone, NoElements DEF Slots, Null
    <3>2. IsNode(Null) /\ Null.t = "null"
      BY DEF IsNode, Null
    <3>3. Gathers({} \cup {q}, Seq_(b.s))
      BY <2>1, <3>1, <3>2, GathersAppended
    <3>4. Elements(b) = Elements(Seq_(b.s))
      BY <2>1 DEF Elements, Children, Seq_
    <3> QED
      BY <3>3, <3>4 DEF Gathers
  <2>2. CASE b.t # "seq"
    <3>1. DOMAIN Elements(b) = {}
      BY <2>2, NoElements DEF IsNode, Clear
    <3>2. q[2] = b
      OBVIOUS
    <3> HIDE DEF q
    <3>3. Slots({q}) = {}
      BY <2>2, <3>2 DEF Slots
    <3> QED
      BY <3>1, <3>3, GathersNone
  <2> QED
    BY <2>1, <2>2
<1>2. q[2] = b
  OBVIOUS
<1> HIDE DEF q
<1>3. Sums({q}, b)
  BY <1>1, <1>2 DEF Sums, IsNode
<1> QED
  BY <1>3 DEF q

\* An empty sequence changes nothing.
LEMMA SumsEmpty ==
  ASSUME NEW given, given # {}, NEW a, Sums(given, a), NEW i, NEW b, b.t = "seq", b.s = <<>>
  PROVE  Sums(given \cup {<<i, b>>}, a)
<1> DEFINE q == <<i, b>>
<1>1. q[2] = b
  OBVIOUS
<1> HIDE DEF q
<1>2. Slots(given \cup {q}) = Slots(given)
  BY <1>1, SlotsSame
<1>3. Gathers(given \cup {q}, a)
  BY <1>2, GathersSame DEF Sums
<1>4. Sums(given \cup {q}, a)
  BY <1>1, <1>3 DEF Sums
<1> QED
  BY <1>4 DEF q

\* Nor does it matter when a sequence is appended.
LEMMA SumsAppended ==
  ASSUME AllIndexed, NEW given, NEW a, IsNode(a), Sums(given, a), NEW i, NEW b, IsNode(b), <<i, b>> \notin given,
         NEW m, Appended(a, b, FALSE, m)
  PROVE  Sums(given \cup {<<i, b>>}, m)
<1> DEFINE q == <<i, b>>
<1>1. /\ b.t = "seq" /\ b.s # <<>> /\ a.t \in {"null", "seq"} /\ m.t = "seq"
      /\ m = Seq_(IF a.t = "null" THEN b.s ELSE a.s \o b.s)
  BY DEF Appended, Seq_
<1>2. Gathers(given \cup {q}, m)
  BY <1>1, GathersAppended DEF Sums
<1>3. q[2] = b
  OBVIOUS
<1> HIDE DEF q
<1>4. \A g \in given : g[2].t \in {"null", "seq"}
  BY <1>1 DEF Sums
<1>5. Sums(given \cup {q}, m)
  BY <1>1, <1>2, <1>3, <1>4 DEF Sums
<1> QED
  BY <1>5 DEF q

\* Nor when children are added, as long as their keys are none of elements.
LEMMA SumsChildren ==
  ASSUME NEW given, NEW a, Sums(given, a), a.t # "scalar", NEW i, NEW b, b.t = "map", Clear(b),
         NEW m, m.t = "map", DOMAIN m.m = DOMAIN Children(a) \cup DOMAIN b.m,
         \A key \in DOMAIN Children(a) \ DOMAIN b.m : m.m[key] = Children(a)[key]
  PROVE  Sums(given \cup {<<i, b>>}, m)
<1> DEFINE q == <<i, b>>
<1>1. q[2] = b
  OBVIOUS
<1> HIDE DEF q
<1>2. Slots(given \cup {q}) = Slots(given)
  BY <1>1, SlotsSame
<1>3. Elements(m) = Elements(a)
  <2>1. Children(m) = m.m
    BY DEF Children
  <2> DEFINE I == DOMAIN Children(a) \cap Range(IndexKey)
  <2>2. DOMAIN m.m \cap Range(IndexKey) = I
    BY DEF Clear
  <2>3. \A key \in I : m.m[key] = Children(a)[key]
    BY DEF Clear
  <2> HIDE DEF I
  <2>4. Elements(m) = [key \in I |-> m.m[key]]
    BY <2>1, <2>2 DEF Elements, Restrict
  <2>5. Elements(a) = [key \in I |-> Children(a)[key]]
    BY DEF I, Elements, Restrict
  <2> QED
    BY <2>3, <2>4, <2>5
<1>4. Gathers(given \cup {q}, m)
  BY <1>2, <1>3, GathersSame DEF Sums
<1>5. \A g \in given : g[2].t # "scalar"
  BY DEF Sums
<1>6. Sums(given \cup {q}, m)
  BY <1>1, <1>4, <1>5 DEF Sums
<1> QED
  BY <1>6 DEF q

-----------------------------------------------------------------------------
(* What these additions, in whatever order, put together.                  *)

Entered(s, i) == Map(Entry(s[i][1], s[i][2]))

\* What those of them in A have at a place.
Given(s, A, h, p) ==
  UNION {{<<i, y[2]>> : y \in {z \in Levels(Entered(s, i), "nodes")[h] : z[1] = p}} : i \in A}

LEMMA GivenMembers ==
  ASSUME NEW s, NEW A, NEW h \in 0..Height, NEW p
  PROVE  /\ \A q \in Given(s, A, h, p) : q[1] \in A /\ q = <<q[1], q[2]>> /\ Stands(Entered(s, q[1]), h, p, q[2])
         /\ \A i \in A : \A b : Stands(Entered(s, i), h, p, b) => <<i, b>> \in Given(s, A, h, p)
<1>0. h \in 0..(Height + 1)
  BY HeightAssumption
<1>1. ASSUME NEW q \in Given(s, A, h, p)
      PROVE  q[1] \in A /\ q = <<q[1], q[2]>> /\ Stands(Entered(s, q[1]), h, p, q[2])
  <2>1. PICK i \in A : \E y \in Levels(Entered(s, i), "nodes")[h] : y[1] = p /\ q = <<i, y[2]>>
    BY DEF Given
  <2>2. PICK y \in Levels(Entered(s, i), "nodes")[h] : y[1] = p /\ q = <<i, y[2]>>
    BY <2>1
  <2>3. y = <<p, y[2]>>
    BY <1>0, <2>2, PathsInLevels
  <2>4. q[1] = i /\ q[2] = y[2]
    BY <2>2
  <2> QED
    BY <2>1, <2>2, <2>3, <2>4 DEF Stands
<1>2. ASSUME NEW i \in A, NEW b, Stands(Entered(s, i), h, p, b) PROVE <<i, b>> \in Given(s, A, h, p)
  <2> DEFINE y == <<p, b>>
  <2>1. y \in Levels(Entered(s, i), "nodes")[h] /\ y[1] = p /\ y[2] = b
    BY <1>2 DEF Stands
  <2> HIDE DEF y
  <2> QED
    BY <2>1 DEF Given
<1> QED
  BY <1>1, <1>2

\* One more addition has something at a place, or nothing.
LEMMA GivenAdded ==
  ASSUME NEW s, NEW A, NEW i, i \notin A, NEW h \in 0..Height, NEW p
  PROVE  /\ \A b : Stands(Entered(s, i), h, p, b) =>
                /\ Given(s, A \cup {i}, h, p) = Given(s, A, h, p) \cup {<<i, b>>}
                /\ <<i, b>> \notin Given(s, A, h, p)
         /\ (\A b : ~Stands(Entered(s, i), h, p, b)) => Given(s, A \cup {i}, h, p) = Given(s, A, h, p)
<1> DEFINE all == Given(s, A \cup {i}, h, p)
           given == Given(s, A, h, p)
<1>0. h \in 0..(Height + 1)
  BY HeightAssumption
<1>1. ASSUME NEW q \in given PROVE q \in all /\ q[1] # i
  <2>1. q[1] \in A /\ q = <<q[1], q[2]>> /\ Stands(Entered(s, q[1]), h, p, q[2])
    BY GivenMembers
  <2>2. <<q[1], q[2]>> \in all
    BY <2>1, GivenMembers
  <2> QED
    BY <2>1, <2>2
<1>2. ASSUME NEW q \in all, q \notin given PROVE q = <<i, q[2]>> /\ Stands(Entered(s, i), h, p, q[2])
  <2>1. q[1] \in A \cup {i} /\ q = <<q[1], q[2]>> /\ Stands(Entered(s, q[1]), h, p, q[2])
    BY GivenMembers
  <2>2. q[1] \notin A
    BY <1>2, <2>1, GivenMembers
  <2> QED
    BY <2>1, <2>2
<1>3. \A b : Stands(Entered(s, i), h, p, b) => <<i, b>> \in all
  BY GivenMembers
<1>4. \A b, c : Stands(Entered(s, i), h, p, b) /\ Stands(Entered(s, i), h, p, c) => b = c
  BY <1>0, OneStands
<1>5. \A b : <<i, b>>[1] = i
  OBVIOUS
<1> HIDE DEF all, given
<1>6. ASSUME NEW b, Stands(Entered(s, i), h, p, b) PROVE all = given \cup {<<i, b>>} /\ <<i, b>> \notin given
  BY <1>1, <1>2, <1>3, <1>4, <1>5, <1>6
<1>7. ASSUME \A b : ~Stands(Entered(s, i), h, p, b) PROVE all = given
  BY <1>1, <1>2, <1>7
<1> QED
  BY <1>6, <1>7 DEF all, given

\* What stands at every named place is the sum of what the additions have there.
Composed(n, s, A) ==
  \A h \in 0..Height : \A p : Named(p) =>
    /\ \A m : Stands(n, h, p, m) => Sums(Given(s, A, h, p), m) /\ (h = 0 \/ Given(s, A, h, p) # {})
    /\ Given(s, A, h, p) # {} => \E m : Stands(n, h, p, m)

\* Nothing is put together of no addition.
LEMMA ComposedOfNone ==
  ASSUME NEW s
  PROVE  Composed(Null, s, {})
<1>0. Height \in Nat /\ 1 \in 1..(Height + 1) /\ 1 \in 0..(Height + 1)
  BY HeightAssumption
<1>1. \A h, p : Given(s, {}, h, p) = {}
  BY DEF Given
<1>2. IsNode(Null) /\ DOMAIN Children(Null) = {} /\ Null.t = "null"
  BY DEF IsNode, Children, Null
<1>3. ASSUME NEW h \in 0..Height, NEW p, NEW m, Stands(Null, h, p, m) PROVE h = 0 /\ m = Null
  <2>1. CASE h = 0
    <3>1. <<p, m>> = << <<>>, Null >>
      BY <1>3, <2>1, LevelsDefined DEF Stands
    <3> QED
      BY <2>1, <3>1
  <2>2. CASE h # 0
    <3>1. h \in 1..(Height + 1)
      BY <1>0, <2>2
    <3>2. Levels(Null, "nodes")[h] = {}
      BY <1>2, <3>1, LeafIsTree
    <3> QED
      BY <1>3, <3>2 DEF Stands
  <2> QED
    BY <2>1, <2>2
<1>4. Sums({}, Null)
  <2>1. Gathers({}, Null)
    BY <1>2, GathersNone, NoElements DEF Slots
  <2> QED
    BY <1>2, <2>1 DEF Sums
<1> QED
  BY <1>1, <1>3, <1>4 DEF Composed

\* One more addition, which does not throw.
LEMMA ComposedOfMore ==
  ASSUME AllIndexed, NEW s, NEW A, NEW i, i \notin A, NEW n, IsTree(n), Composed(n, s, A),
         IsTree(Entered(s, i)), Plain(Entered(s, i)),
         NEW r, r = AddMap(n, Entry(s[i][1], s[i][2]), FALSE, FALSE), r # Thrown
  PROVE  Composed(r, s, A \cup {i})
<1> DEFINE children == Entry(s[i][1], s[i][2])
           value == Map(children)
<1>0. /\ value = Entered(s, i) /\ IsTree(value) /\ Plain(value)
      /\ r = AddMap(n, children, FALSE, FALSE)
  BY DEF Entered
<1> HIDE DEF children
<1>1. ASSUME NEW h \in 0..Height, NEW p, Named(p), NEW m, Stands(r, h, p, m)
      PROVE  Sums(Given(s, A \cup {i}, h, p), m) /\ (h = 0 \/ Given(s, A \cup {i}, h, p) # {})
  <2> DEFINE given == Given(s, A, h, p)
             all == Given(s, A \cup {i}, h, p)
  <2>1. /\ \A b : Stands(value, h, p, b) => all = given \cup {<<i, b>>} /\ <<i, b>> \notin given
        /\ (\A b : ~Stands(value, h, p, b)) => all = given
    BY <1>0, GivenAdded
  <2>2. /\ \A a : Stands(n, h, p, a) => Sums(given, a) /\ (h = 0 \/ given # {})
        /\ given # {} => \E a : Stands(n, h, p, a)
    BY <1>1 DEF Composed
  <2>3. Origin(n, children, h, p, m)
    BY <1>0, <1>1, Origins
  <2> HIDE DEF given, all
  <2>4. CASE Stands(n, h, p, m) /\ \A b : ~Stands(value, h, p, b)
    BY <2>1, <2>2, <2>4 DEF all
  <2>5. CASE Stands(value, h, p, m) /\ \A a : ~Stands(n, h, p, a)
    <3>1. all = {<<i, m>>}
      BY <2>1, <2>2, <2>5
    <3>2. IsNode(m) /\ Clear(m)
      BY <1>0, <1>1, <2>5, StandsNode DEF Clear
    <3> QED
      BY <3>1, <3>2, SumsOne DEF all
  <2>6. ASSUME NEW a, NEW b, Stands(n, h, p, a), Stands(value, h, p, b),
               Made(n, children, FALSE, FALSE, h, <<a, b>>, m)
        PROVE  Sums(all, m) /\ all # {}
    <3>1. all = given \cup {<<i, b>>} /\ <<i, b>> \notin given /\ Sums(given, a) /\ (h = 0 \/ given # {})
      BY <2>1, <2>2, <2>6
    <3>2. IsNode(a) /\ IsNode(b) /\ Clear(b)
      BY <1>0, <1>1, <2>6, StandsNode DEF Clear
    <3>3. CASE m = a /\ b.t = "seq" /\ b.s = <<>>
      <4>1. h # 0
        <5>1. ASSUME h = 0 PROVE FALSE
          <6>1. <<p, b>> = << <<>>, value >>
            BY <2>6, <5>1, LevelsDefined DEF Stands
          <6>2. b.t = "map"
            BY <6>1 DEF Map
          <6> QED
            BY <3>3, <6>2
        <5> QED
          BY <5>1
      <4> QED
        BY <3>1, <3>3, <4>1, SumsEmpty
    <3>4. CASE Appended(a, b, FALSE, m)
      BY <3>1, <3>2, <3>4, SumsAppended
    <3>5. CASE MadeOfChildren(n, children, FALSE, FALSE, h, <<a, b>>, m)
      <4> DEFINE x == <<a, b>>
      <4>1. x[1] = a /\ x[2] = b /\ MadeOfChildren(n, children, FALSE, FALSE, h, x, m)
        BY <3>5
      <4> HIDE DEF x
      <4>2. /\ b.t = "map" /\ a.t # "scalar" /\ m.t = "map" /\ DOMAIN m.m = DOMAIN Children(a) \cup DOMAIN b.m
            /\ \A key \in DOMAIN Children(a) \ DOMAIN b.m : m.m[key] = Children(a)[key]
        BY <4>1 DEF MadeOfChildren
      <4> QED
        BY <3>1, <3>2, <4>2, SumsChildren
    <3> QED
      BY <1>0, <1>1, <2>6, <3>1, <3>3, <3>4, <3>5, PlainCases
  <2> QED
    BY <2>3, <2>4, <2>5, <2>6 DEF Origin, all
<1>2. ASSUME NEW h \in 0..Height, NEW p, Named(p), Given(s, A \cup {i}, h, p) # {}
      PROVE  \E m : Stands(r, h, p, m)
  <2>1. PICK q \in Given(s, A \cup {i}, h, p) : TRUE
    BY <1>2
  <2>2. q[1] \in A \cup {i} /\ q = <<q[1], q[2]>> /\ Stands(Entered(s, q[1]), h, p, q[2])
    BY GivenMembers
  <2>3. CASE q[1] = i
    <3>1. Stands(value, h, p, q[2])
      BY <1>0, <2>2, <2>3
    <3>2. ASSUME NEW d, Stands(value, h, p, d) PROVE \E m : Stands(r, h, p, m)
      <4>1. Stands(n, h, p, d) \/ Stands(Map(children), h, p, d)
        BY <3>2
      <4>2. IsTree(n) /\ IsTree(Map(children)) /\ Plain(Map(children)) /\ r = AddMap(n, children, FALSE, FALSE) /\ r # Thrown
        BY <1>0
      <4> HIDE DEF value
      <4> QED
        BY <1>2, <4>1, <4>2, Covered
    <3> QED
      BY <3>1, <3>2
  <2>4. CASE q[1] \in A
    <3>1. Given(s, A, h, p) # {}
      BY <2>2, <2>4, GivenMembers
    <3>2. PICK m : Stands(n, h, p, m)
      BY <1>2, <3>1 DEF Composed
    <3> QED
      BY <1>0, <1>2, <3>2, Covered
  <2> QED
    BY <2>2, <2>3, <2>4
<1> QED
  BY <1>1, <1>2 DEF Composed

\* So two nodes that are put together of the same additions are equal, but for the order.
LEMMA ComposedSubset ==
  ASSUME NEW s, NEW A, NEW n, NEW r, Composed(n, s, A), Composed(r, s, A)
  PROVE  Unordered(n) \subseteq Unordered(r)
<1>0. Height \in Nat /\ 0 \in 0..Height
  BY HeightAssumption
<1> DEFINE Seen(x) == <<x[1], x[2].t, IF x[2].t = "scalar" THEN x[2] ELSE Null, Times(Elements(x[2]))>>
<1>1. ASSUME NEW x \in Places(n, "nodes"), Named(x[1])
      PROVE  \E y \in Places(r, "nodes") : Named(y[1]) /\ Seen(x) = Seen(y)
  <2>1. PICK h \in 0..Height : x \in Levels(n, "nodes")[h]
    BY DEF Places
  <2>2. h \in 0..(Height + 1)
    BY <1>0
  <2>3. x = <<x[1], x[2]>>
    BY <2>1, <2>2, PathsInLevels
  <2>4. Stands(n, h, x[1], x[2])
    BY <2>1, <2>3 DEF Stands
  <2>5. Sums(Given(s, A, h, x[1]), x[2]) /\ (h = 0 \/ Given(s, A, h, x[1]) # {})
    BY <1>1, <2>4 DEF Composed
  <2>6. PICK m : Stands(r, h, x[1], m)
    <3>1. CASE h = 0
      <4>1. <<x[1], x[2]>> = << <<>>, n >>
        BY <2>4, <3>1, LevelsDefined DEF Stands
      <4>2. x[1] = <<>>
        BY <4>1
      <4> QED
        BY <3>1, <4>2, LevelsDefined DEF Stands
    <3>2. CASE Given(s, A, h, x[1]) # {}
      BY <1>1, <3>2 DEF Composed
    <3> QED
      BY <2>5, <3>1, <3>2
  <2>7. Sums(Given(s, A, h, x[1]), m)
    BY <1>1, <2>6 DEF Composed
  <2>8. x[2].t = m.t /\ (x[2].t = "scalar" => x[2] = m) /\ Times(Elements(x[2])) = Times(Elements(m))
    BY <2>5, <2>7, SumsAgree
  <2> DEFINE y == <<x[1], m>>
  <2>9. y \in Places(r, "nodes") /\ y[1] = x[1] /\ y[2] = m
    BY <2>6 DEF Stands, Places
  <2> HIDE DEF y
  <2>10. Seen(x) = Seen(y)
    BY <2>8, <2>9
  <2> QED
    BY <1>1, <2>9, <2>10
<1>2. /\ Unordered(n) = {Seen(x) : x \in {y \in Places(n, "nodes") : Named(y[1])}}
      /\ Unordered(r) = {Seen(x) : x \in {y \in Places(r, "nodes") : Named(y[1])}}
  BY DEF Unordered
<1> HIDE DEF Seen
<1> QED
  BY <1>1, <1>2

-----------------------------------------------------------------------------
(* AddAll.                                                                 *)

\* The nodes on the way.
Sum(s, sum) ==
  \A i \in 0..Len(s) : sum[i] = IF i = 0 THEN Null
                                ELSE IF sum[i - 1] = Thrown THEN Thrown
                                ELSE Added(sum[i - 1], s[i][1], s[i][2])

LEMMA SumDefined ==
  ASSUME NEW s, Len(s) \in Nat
  PROVE  \E sum : Sum(s, sum) /\ AddAll(s) = sum[Len(s)]
<1> DEFINE H == Len(s)
           Then(n, i) == IF n = Thrown THEN Thrown ELSE Added(n, s[i][1], s[i][2])
           Body(f) == [i \in 0..H |-> IF i = 0 THEN Null
                                      ELSE IF f[i - 1] = Thrown THEN Thrown
                                      ELSE Added(f[i - 1], s[i][1], s[i][2])]
           T == {m \in 0..H : \E f : f = [i \in 0..m |-> IF i = 0 THEN Null ELSE Then(f[i - 1], i)]}
           sum == CHOOSE f : f = Body(f)
<1>0. H \in Nat /\ H \in 0..H /\ 0 \in 0..H
  OBVIOUS
<1>1. AddAll(s) = sum[H]
  BY DEF AddAll
<1>2. \A f : Body(f) = [i \in 0..H |-> IF i = 0 THEN Null ELSE Then(f[i - 1], i)]
  OBVIOUS
<1> HIDE DEF Body
<1>3. \A f : Body(f) = [i \in 0..H |-> IF i = 0 THEN Null ELSE Then(f[i - 1], i)]
  BY <1>2
<1> HIDE DEF H, Then
<1>4. 0 \in T
  <2> DEFINE f == [i \in 0..0 |-> Null]
  <2>1. f = [i \in 0..0 |-> IF i = 0 THEN Null ELSE Then(f[i - 1], i)]
    OBVIOUS
  <2> HIDE DEF f
  <2> QED
    BY <1>0, <2>1
<1>5. ASSUME NEW m \in 0..H, m < H, m \in T PROVE m + 1 \in T
  <2>1. PICK f : f = [i \in 0..m |-> IF i = 0 THEN Null ELSE Then(f[i - 1], i)]
    BY <1>5
  <2> DEFINE g == [i \in 0..(m + 1) |-> IF i = m + 1 THEN Then(f[m], m + 1) ELSE f[i]]
  <2>2. ASSUME NEW i \in 0..(m + 1) PROVE g[i] = IF i = 0 THEN Null ELSE Then(g[i - 1], i)
    <3>1. CASE i = 0
      BY <1>0, <2>1, <3>1
    <3>2. CASE i # 0 /\ i = m + 1
      <4>1. i - 1 = m /\ m \in 0..(m + 1) /\ m # m + 1
        BY <1>0, <3>2
      <4> QED
        BY <3>2, <4>1
    <3>3. CASE i # 0 /\ i # m + 1
      <4>1. i \in 0..m /\ i - 1 \in 0..m /\ i - 1 # m + 1 /\ i - 1 \in 0..(m + 1)
        BY <1>0, <3>3
      <4> QED
        BY <2>1, <3>3, <4>1
    <3> QED
      BY <3>1, <3>2, <3>3
  <2>3. g = [i \in 0..(m + 1) |-> IF i = 0 THEN Null ELSE Then(g[i - 1], i)]
    <3>1. g = [i \in 0..(m + 1) |-> g[i]]
      OBVIOUS
    <3> HIDE DEF g
    <3> QED
      BY <2>2, <3>1
  <2>4. m + 1 \in 0..H
    BY <1>0, <1>5
  <2> HIDE DEF g
  <2> QED
    BY <2>3, <2>4
<1>6. \E f : f = Body(f)
  <2>1. 0..H \subseteq T
    <3> HIDE DEF T
    <3> QED
      BY <1>0, <1>4, <1>5, Induction
  <2>2. PICK f : f = [i \in 0..H |-> IF i = 0 THEN Null ELSE Then(f[i - 1], i)]
    BY <1>0, <2>1
  <2> QED
    BY <1>3, <2>2
<1>7. sum = Body(sum)
  BY <1>6
<1> HIDE DEF sum
<1>8. ASSUME NEW i \in 0..H PROVE sum[i] = IF i = 0 THEN Null ELSE Then(sum[i - 1], i)
  BY <1>3, <1>7
<1> QED
  BY <1>1, <1>8 DEF Sum, H, Then

\* An order of s has all of its elements.
LEMMA OrderOf ==
  ASSUME NEW s, Len(s) \in Nat, DOMAIN s = 1..Len(s), NEW other \in Orders(s)
  PROVE  \E p : /\ p \in [1..Len(s) -> 1..Len(s)]
                /\ \A i, j \in 1..Len(s) : p[i] = p[j] => i = j
                /\ \A i \in 1..Len(s) : \E j \in 1..Len(s) : p[j] = i
                /\ \A i \in 1..Len(s) : other[i] = s[p[i]]
                /\ Len(other) = Len(s)
<1> DEFINE L == Len(s)
           S == 1..L
<1>1. L \in Nat /\ DOMAIN s = S
  OBVIOUS
<1>2. Orders(s) = {[i \in S |-> s[p[i]]] : p \in {q \in [S -> S] : IsInjective(q)}}
  BY <1>1 DEF Orders
<1>3. PICK p \in [S -> S] : IsInjective(p) /\ other = [i \in S |-> s[p[i]]]
  BY <1>2
<1>4. \A i, j \in S : p[i] = p[j] => i = j
  BY <1>3 DEF IsInjective
<1>5. Len(other) = L
  <2>1. DOMAIN other = 1..L
    BY <1>3
  <2>2. other \in Seq(Range(s))
    <3>1. \A i \in S : other[i] \in Range(s)
      BY <1>1, <1>3 DEF Range
    <3>2. other = [i \in 1..L |-> other[i]]
      BY <1>3
    <3> HIDE DEF L
    <3> QED
      BY <1>1, <3>1, <3>2
  <2> HIDE DEF L
  <2> QED
    BY <1>1, <2>1, <2>2, LenProperties
<1>6. IsFiniteSet(S)
  BY <1>1, FS_Interval
<1> HIDE DEF S
<1>7. p \in Injection(S, S)
  BY <1>4 DEF Injection, IsInjective
<1>8. p \in Surjection(S, S)
  BY <1>6, <1>7, FS_Injection
<1>9. \A i \in S : \E j \in S : p[j] = i
  BY <1>8 DEF Surjection
<1> QED
  BY <1>3, <1>4, <1>5, <1>9 DEF S

\* What an order of the additions puts together.
LEMMA ComposedOfAll ==
  ASSUME AllIndexed, ~is_schema, ~override, override \in BOOLEAN, NEW s, Len(s) \in Nat, DOMAIN s = 1..Len(s),
         \A i \in 1..Len(s) : IsTree(Entered(s, i)) /\ Plain(Entered(s, i)),
         NEW other \in Orders(s), AddAll(other) # Thrown
  PROVE  Composed(AddAll(other), s, 1..Len(s))
<1> DEFINE L == Len(s)
<1>1. PICK p : /\ p \in [1..L -> 1..L]
               /\ \A i, j \in 1..L : p[i] = p[j] => i = j
               /\ \A i \in 1..L : \E j \in 1..L : p[j] = i
               /\ \A i \in 1..L : other[i] = s[p[i]]
               /\ Len(other) = L
  BY OrderOf
<1>2. PICK sum : Sum(other, sum) /\ AddAll(other) = sum[Len(other)]
  BY <1>1, SumDefined
<1>3. L \in Nat /\ 0 \in 0..L /\ L \in 0..L /\ \A i \in 1..L : IsTree(Entered(s, i)) /\ Plain(Entered(s, i))
  OBVIOUS
<1> HIDE DEF L
<1>4. \A i \in 0..L : sum[i] = IF i = 0 THEN Null
                               ELSE IF sum[i - 1] = Thrown THEN Thrown
                               ELSE Added(sum[i - 1], other[i][1], other[i][2])
  BY <1>1, <1>2 DEF Sum
<1> DEFINE Before(k) == {p[j] : j \in 1..k}
           T == {k \in 0..L : sum[k] # Thrown => IsTree(sum[k]) /\ Composed(sum[k], s, Before(k))}
<1>5. 0 \in T
  <2>1. sum[0] = Null
    BY <1>3, <1>4
  <2>2. Before(0) = {}
    OBVIOUS
  <2> HIDE DEF Before
  <2> QED
    BY <1>3, <2>1, <2>2, NullIsTree, ComposedOfNone
<1>6. ASSUME NEW k \in 0..L, k < L, k \in T PROVE k + 1 \in T
  <2>1. k + 1 \in 0..L /\ k + 1 \in 1..L /\ (k + 1) - 1 = k /\ k + 1 # 0
    BY <1>3, <1>6
  <2> SUFFICES ASSUME sum[k + 1] # Thrown
               PROVE  IsTree(sum[k + 1]) /\ Composed(sum[k + 1], s, Before(k + 1))
    BY <2>1
  <2> DEFINE i == p[k + 1]
             A == Before(k)
  <2>2. sum[k] # Thrown /\ sum[k + 1] = Added(sum[k], other[k + 1][1], other[k + 1][2])
    BY <1>4, <2>1
  <2>3. other[k + 1] = s[i] /\ i \in 1..L
    BY <1>1, <2>1
  <2>4. i \notin A
    <3>1. ASSUME NEW j \in 1..k, p[j] = p[k + 1] PROVE FALSE
      <4>1. j \in 1..L /\ j # k + 1
        BY <1>3, <2>1
      <4> QED
        BY <1>1, <2>1, <3>1, <4>1
    <3> QED
      BY <3>1
  <2>5. Before(k + 1) = A \cup {i}
    <3>1. 1..(k + 1) = (1..k) \cup {k + 1}
      BY <1>3, <1>6
    <3> QED
      BY <3>1
  <2>6. IsTree(sum[k]) /\ Composed(sum[k], s, A)
    BY <1>6, <2>2
  <2>7. sum[k + 1] = AddMap(sum[k], Entry(s[i][1], s[i][2]), FALSE, FALSE)
    BY <2>2, <2>3 DEF Added, AddNodeYaml
  <2>8. IsTree(Entered(s, i)) /\ Plain(Entered(s, i))
    BY <1>3, <2>3
  <2> HIDE DEF A, i, Before
  <2>9. IsTree(sum[k + 1])
    BY <2>6, <2>7, <2>8, AddedTree DEF Entered
  <2>10. Composed(sum[k + 1], s, A \cup {i})
    BY <2>4, <2>6, <2>7, <2>8, ComposedOfMore
  <2> QED
    BY <2>5, <2>9, <2>10
<1>7. L \in T
  <2>1. 0..L \subseteq T
    <3> HIDE DEF T
    <3> QED
      BY <1>3, <1>5, <1>6, Induction
  <2> QED
    BY <1>3, <2>1
<1>8. Before(L) = 1..L
  BY <1>1
<1> HIDE DEF Before
<1>9. AddAll(other) = sum[L]
  BY <1>1, <1>2
<1>10. Composed(AddAll(other), s, 1..L)
  BY <1>7, <1>8, <1>9
<1> QED
  BY <1>10 DEF L

-----------------------------------------------------------------------------
\* What there is was put together of the additions so far.
AddedPlain(s) == \A i \in DOMAIN s : Plain(Map(Entry(s[i][1], s[i][2])))
InComposed == ~is_schema /\ ~override /\ ~thrown /\ AddedPlain(added) => Composed(node, added, 1..Len(added))

LEMMA ComposedInductive ==
  ASSUME AllIndexed
  PROVE  (Init => InComposed) /\ (IInv /\ InComposed /\ [Next]_vars => InComposed')
<1>1. \A s : 1..Len(s) = {} => Composed(Null, s, 1..Len(s))
  BY ComposedOfNone
<1>2. Len(<<>>) = 0 /\ 1..0 = {}
  OBVIOUS
<1>3. Init => InComposed
  BY <1>1, <1>2 DEF Init, InComposed
<1>4. ASSUME InComposed, UNCHANGED vars PROVE InComposed'
  BY <1>4 DEF InComposed, AddedPlain, vars
<1>5. ASSUME Restart PROVE InComposed'
  BY <1>1, <1>2, <1>5 DEF Restart, InComposed
<1>6. ASSUME IInv, InComposed, NEW key \in Keys, NEW value \in YamlValues \cup SchemaValues, Add(key, value),
             ~is_schema', ~override', ~thrown', AddedPlain(added')
      PROVE  Composed(node', added', 1..Len(added'))
  <2> DEFINE s == added'
             L == Len(added)
  <2>1. /\ IsTree(Map(Entry(key, value))) /\ IsTree(node)
        /\ node' = AddMap(node, Entry(key, value), override, is_schema) /\ node' # Thrown
        /\ override' = override /\ is_schema' = is_schema /\ s = Append(added, <<key, value>>)
    BY <1>6, Addition
  <2>2. override = FALSE /\ is_schema = FALSE /\ ~thrown
    BY <1>6, <2>1 DEF IInv, Add
  <2>3. /\ L \in Nat /\ DOMAIN added = 1..L /\ DOMAIN s = 1..(L + 1) /\ Len(s) = L + 1
        /\ s[L + 1] = <<key, value>> /\ \A i \in 1..L : s[i] = added[i]
    BY <1>6, <2>1 DEF IInv
  <2> HIDE DEF s, L
  <2>4. 1..(L + 1) = (1..L) \cup {L + 1} /\ L + 1 \notin 1..L
    BY <2>3
  <2>5. Composed(node, added, 1..L)
    <3>1. AddedPlain(added)
      BY <1>6, <2>3, <2>4 DEF AddedPlain, s
    <3> QED
      BY <1>6, <2>2, <3>1 DEF InComposed, L
  <2>6. Composed(node, s, 1..L)
    <3>1. \A h, p : Given(s, 1..L, h, p) = Given(added, 1..L, h, p)
      BY <2>3 DEF Given, Entered
    <3> QED
      BY <2>5, <3>1 DEF Composed
  <2>7. s[L + 1][1] = key /\ s[L + 1][2] = value
    BY <2>3
  <2>8. Entered(s, L + 1) = Map(Entry(key, value))
    BY <2>7 DEF Entered
  <2>9. Plain(Entered(s, L + 1))
    BY <1>6, <2>3, <2>4 DEF AddedPlain, Entered, s
  <2>10. node' = AddMap(node, Entry(s[L + 1][1], s[L + 1][2]), FALSE, FALSE)
    BY <2>1, <2>2, <2>7
  <2>11. Composed(node', s, (1..L) \cup {L + 1})
    BY <2>1, <2>4, <2>6, <2>8, <2>9, <2>10, ComposedOfMore
  <2> QED
    BY <2>3, <2>4, <2>11 DEF s
<1>7. ASSUME IInv, InComposed, Next PROVE InComposed'
  BY <1>5, <1>6, <1>7 DEF Next, InComposed
<1> QED
  BY <1>3, <1>4, <1>7

\* Without 'override' two orders of the same additions that both succeed give the same
\* node, but for the order inside sequences, no matter how many additions there are and
\* how high the values.
THEOREM OrderDoesNotMatter == AllIndexed => (Spec => []OrderFree)
<1> SUFFICES ASSUME AllIndexed PROVE Spec => []OrderFree
  OBVIOUS
<1>1. (Init => IInv) /\ (IInv /\ [Next]_vars => IInv')
  BY TypeInductive
<1>2. (Init => InComposed) /\ (IInv /\ InComposed /\ [Next]_vars => InComposed')
  BY ComposedInductive
<1>3. ASSUME IInv, InComposed PROVE OrderFree
  <2> SUFFICES ASSUME ~is_schema, ~override, ~thrown, AddedPlain(added),
                      NEW other \in Orders(added), AddAll(other) # Thrown
               PROVE  Unordered(AddAll(other)) = Unordered(node)
    BY DEF OrderFree, AddedPlain
  <2>1. Len(added) \in Nat /\ DOMAIN added = 1..Len(added) /\ override \in BOOLEAN
    BY <1>3 DEF IInv
  <2>2. Composed(node, added, 1..Len(added))
    BY <1>3 DEF InComposed
  <2>3. ASSUME NEW i \in 1..Len(added) PROVE IsTree(Entered(added, i)) /\ Plain(Entered(added, i))
    <3>1. added[i] \in Keys \X (YamlValues \cup SchemaValues)
      BY <1>3, <2>1, <2>3 DEF IInv
    <3>2. added[i][1] \in Keys /\ added[i][2] \in YamlValues \cup SchemaValues
      BY <3>1
    <3>3. IsTree(Map(Entry(added[i][1], added[i][2])))
      BY <3>2, ValuesAssumption
    <3> QED
      BY <2>1, <3>3 DEF AddedPlain, Entered
  <2>4. Composed(AddAll(other), added, 1..Len(added))
    BY <2>1, <2>3, ComposedOfAll
  <2>5. Unordered(AddAll(other)) \subseteq Unordered(node)
    BY <2>2, <2>4, ComposedSubset
  <2>6. Unordered(node) \subseteq Unordered(AddAll(other))
    BY <2>2, <2>4, ComposedSubset
  <2> QED
    BY <2>5, <2>6
<1> QED
  BY <1>1, <1>2, <1>3, PTL DEF Spec

=============================================================================
