----------------------------- MODULE PastedText -----------------------------
(***************************************************************************)
(* The text for which a file stands: "the key follow is interpreted as a   *)
(* copy-paste of the contents of another file".  The entries of all files  *)
(* are put into one document, in order, with every value resolved in its   *)
(* own folder and every reference looked up from the folder of the file    *)
(* that contains it.                                                       *)
(*                                                                         *)
(* An entry of a text has its value as the call of flattenNode for it,     *)
(* which says where the value stands and which files are being followed.   *)
(***************************************************************************)
EXTENDS Flatten

Entry_(key, call) == [t |-> "entry", key |-> key, call |-> call]

\* What stands for an entry: itself, or the text of the file that it refers to, which is
\* read in the folder of that file.
TextOfEntry(files, call, e, text) ==
  LET to == Target(files, e[2], call.file, call.folder)
  IN CASE e[1] # "follow" -> <<Entry_(e[1], OfChild(call, e[2]))>>
       [] e[1] = "follow" /\ (to = NoFile \/ to \in Range(call.stack)) -> <<Thrown>>
       [] OTHER -> text[[OfFile(files, call, to) EXCEPT !.folder = to[1]]]

TextOfMap(files, call, text) ==
  LET upto[i \in 0..Len(call.d.entries)] ==
        IF i = 0 THEN <<>> ELSE upto[i - 1] \o TextOfEntry(files, call, call.d.entries[i], text)
  IN upto[Len(call.d.entries)]

\* The text of a call, with so many files within one another.
TextOf(files, call, text) ==
  CASE call.d.t = "seq" /\ call.d.s # <<>> -> <<Thrown>>
    [] call.d.t = "doc" -> TextOfMap(files, call, text)
    [] OTHER -> <<>>
Texts(files) ==
  LET calls == Calls(files)
      text[h \in 0..Depth] ==
        [call \in calls |-> IF h = 0 THEN <<Thrown>> ELSE TextOf(files, call, text[h - 1])]
  IN text

\* One entry of a text more, when calls mean this.
AddText(node, e, mean, flag, is_schema) ==
  CASE node = Thrown \/ e = Thrown -> Thrown
    [] node # Thrown /\ e # Thrown /\ mean[e.call] = Thrown -> Thrown
    [] OTHER -> AddMap(node, Entry(e.key, mean[e.call]), flag, is_schema)

AddTexts(first, text, mean, flag, is_schema) ==
  LET node[i \in 0..Len(text)] ==
        IF i = 0 THEN first ELSE AddText(node[i - 1], text[i], mean, flag, is_schema)
  IN node[Len(text)]

\* A value, with the folder that belongs to it.
InFolder(v, call) ==
  IF v.rel /\ v.keyed /\ ~IsSchema(call.file) THEN Scalar([v EXCEPT !.prefix = <<call.file[1]>>]) ELSE Scalar(v)

\* The node for a text, with so many maps and sequences within one another.
Meaning(files, call, text, mean, flag, is_schema) ==
  CASE call.d.t = "doc" -> AddTexts(Null, text[call], mean, flag, is_schema)
    [] call.d.t = "seq" ->
         FlattenSequence(call.d, [i \in DOMAIN call.d.s |-> mean[OfChild(call, call.d.s[i])]])
    [] call.d.t = "scalar" -> InFolder(call.d.v, call)
    [] OTHER -> call.d
Meanings(files, flag, is_schema) ==
  LET calls == Calls(files)
      text == Texts(files)[Depth]
      mean[h \in 0..Depth] ==
        [call \in calls |-> IF h = 0 THEN Thrown ELSE Meaning(files, call, text, mean[h - 1], flag, is_schema)]
  IN mean

Expected == Meanings(disk, override, IsSchema(file))[Depth][RootCall(disk, file)]

\* No sequence has become a map (whose keys are the indices then).
NoneIndexed(n) == \A x \in Places(n, "nodes") : x[2].t = "map" => DOMAIN x[2].m \cap Range(IndexKey) = {}

(***************************************************************************)
(* Flattening file by file and merging the results gives the node of the   *)
(* pasted text, where both exist: it does not matter that a followed file  *)
(* is first flattened on its own and then added child by child.  It does   *)
(* matter when a map is added to a sequence: a file that does so on its    *)
(* own has a map, and no elements that its follower could append.  And it  *)
(* does in schemas with 'override', where a specification takes the place  *)
(* of one that is there as a whole, but becomes part of a namespace.       *)
(***************************************************************************)
CopyPaste ==
  LET pasted == Expected
  IN /\ file # NoFile /\ ~(override /\ IsSchema(file)) /\ result # Thrown
     /\ pasted # Thrown /\ NoneIndexed(pasted)
     => result = pasted

(***************************************************************************)
(* "current_folder: folder of the file containing node": a file that can   *)
(* be pasted can be flattened, in particular is everything found that the  *)
(* schemas that it follows refer to.                                       *)
(***************************************************************************)
FoundFromOwnFolder == file # NoFile /\ Expected # Thrown => result # Thrown

=============================================================================
