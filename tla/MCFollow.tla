------------------------------ MODULE MCFollow ------------------------------
(***************************************************************************)
(* Instances of FollowStack for TLC.                                       *)
(***************************************************************************)
EXTENDS FollowStack, TLC

CONSTANTS f1, f2, f3, f4, k1, t1, t2

MCFiles == {f1, f2, f3}
AllFiles == {f1, f2, f3, f4}
MCThreads == {t1, t2}
ThreadSymmetry == Permutations(MCThreads)
MCKeys == {k1}
YamlKind == [f \in MCFiles |-> "yaml"]
MixedKind == (f1 :> "schema") @@ (f2 :> "yaml") @@ (f3 :> "schema") @@ (f4 :> "other")

\* All documents of at most two entries that follow some of the files; a map
\* has its key k1 only once.
DocsOver(files) ==
  LET entries == {Follow(f) : f \in files} \cup {Define(k1)}
  IN {<<>>} \cup {<<e>> : e \in entries}
     \cup ({<<d, e>> : d, e \in entries} \ {<<Define(k1), Define(k1)>>})
ShortDocs == DocsOver(AllFiles)

\* File systems of three files: f3 may be absent or corrupt and has one entry at
\* most; the fourth file is neither an input file nor a schema, and f1 may follow it.
AllDisks == {d \in [AllFiles -> ShortDocs \cup {Absent, Corrupt}] :
               /\ d[f4] = <<>>
               /\ d[f1] \in ShortDocs
               /\ d[f2] \in DocsOver(MCFiles)
               /\ d[f3] \in {doc \in DocsOver(MCFiles) : Len(doc) < 2} \cup {Absent, Corrupt}}

\* A diamond, and a cycle that does not contain the root.
Diamond == (f1 :> <<Follow(f2), Follow(f3)>>) @@ (f2 :> <<Follow(f3)>>) @@ (f3 :> <<Define(k1)>>)
Loop == (f1 :> <<Follow(f2)>>) @@ (f2 :> <<Define(k1), Follow(f3)>>) @@ (f3 :> <<Follow(f2)>>)
SomeDisks == {Diamond, Loop}
SomeDocs == UNION {{d[f] : f \in MCFiles} : d \in SomeDisks}

=============================================================================
